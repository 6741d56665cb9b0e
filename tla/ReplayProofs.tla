---------------------------- MODULE ReplayProofs ----------------------------
(***************************************************************************)
(* An interrupted finalize is replayed exactly, for every set of outputs,  *)
(* every number of concurrent kill requests and every number of crashes,   *)
(* with failing writes, disconnecting clients and lost events files, as    *)
(* long as no power is lost, no output file is damaged from outside and    *)
(* the repair can read the outputs that are there.                         *)
(* The inductive invariant is ReplayInv, on top of FinalizeInv: what has   *)
(* been renamed, what is public and what the stored intent says agree at   *)
(* every step, so the repair never has to choose between them.  Where      *)
(* every system call works, TmpTracked adds that no .tmp file is stranded. *)
(***************************************************************************)
EXTENDS OutcomeProofs

\* No power loss, no damage to output files, and none that the repair cannot read: it
\* reverts an intent for a read error as it does for a missing file, and if the done
\* event is public by then that is the conflict (intents.go:136).
NoDamage == {"powerLoss", "diskDamage", "readError"} \cap Faults = {}

-----------------------------------------------------------------------------
(* Steps that leave intent, files and the work on them alone.              *)

\* Intent, files and the work on them stay, or are taken from rows nobody commits.
Steady ==
    /\ db'.intent = db.intent
    /\ \A o \in Outputs : /\ InPhaseB(o) => InPhaseB(o)'
                          /\ db'.staging[o].state = "complete" => db.staging[o].state = "complete"
    /\ disk'.final \subseteq disk.final
    /\ \A o \in disk.final : InPhaseB(o) \/ db'.staging[o].state = "complete" => o \in disk'.final
    /\ disk'.tmp \subseteq disk.tmp
    /\ \A o \in disk'.tmp : db'.staging[o].state \in {"none", "pending_output", "committing"}
    /\ disk'.bad \subseteq disk.bad /\ disk'.unsynced \subseteq disk'.final
    /\ disk'.done \in {None, disk.done}
    /\ db'.status \in {"queued", "running"} => db.status \in {"queued", "running"}
    /\ critical' => critical
    /\ \A q \in Procs : job'[q] = job[q] \/ ~Holds(q)'

\* ReplayInv is preserved by such a step.
LEMMA SteadyStep ==
  ASSUME FinalizeInv, FinalizeInv', ReplayInv, Steady
  PROVE  ReplayInv'
<1> USE DEF ReplayInv
<1>1. OneCopy'
  BY Zenon DEF OneCopy, Steady
<1>2. db.intent # None => db.intent.outs \subseteq Outputs
  BY Zenon DEF FinalizeInv, TypeOK, Database, Intent
<1>3. RowsHaveFiles'
  <2>1. db'.intent # None => \A o \in db'.intent.outs : InPhaseB(o)'
    BY <1>2, Zenon DEF Steady, RowsHaveFiles
  <2>2. CommittedOutputsOnDisk'
    BY Zenon DEF CommittedOutputsOnDisk, RowsHaveFiles, Steady
  <2> QED BY <2>1, <2>2, Zenon DEF RowsHaveFiles, Steady
<1>4. ASSUME NEW q \in Procs PROVE OnTrack(q)'
  <2>1. CASE ~Holds(q)'
    BY <2>1, Zenon DEF OnTrack, Holds, At
  <2>2. CASE Holds(q)'
    <3>1. job'[q] = job[q] /\ Holds(q)
      BY <2>2, Zenon DEF Steady, Holds
    <3>2. db.intent # None /\ job[q].outs = db.intent.outs
      BY <3>1, Zenon DEF FinalizeInv, OneFinalizer
    <3>3. \A o \in job[q].outs : o \in Outputs /\ InPhaseB(o)
      BY <1>2, <3>2, Zenon DEF RowsHaveFiles
    <3>4. \A o \in job[q].outs : o \in disk.final => o \in disk'.final
      BY <3>3, Zenon DEF Steady
    <3> QED BY <3>1, <3>4, Zenon DEF OnTrack, Steady, At
  <2> QED BY <2>1, <2>2, Zenon
<1>5. EventOfIntent'
  <2>1. db'.intent # None /\ disk'.done # None => db'.intent.outs \subseteq disk'.final
    BY <1>2, Zenon DEF Steady, EventOfIntent, RowsHaveFiles
  <2> QED BY <2>1, Zenon DEF Steady, EventOfIntent
<1> QED BY <1>1, <1>3, <1>4, <1>5, Zenon DEF NoTerminalConflict, Steady

\* A goroutine that works on the intent is alone in that.
LEMMA Alone ==
  ASSUME NEW p \in Procs, \A q \in Procs : q # p => ~Holds(q)',
         OneCopy', RowsHaveFiles', OnTrack(p)', EventOfIntent', NoTerminalConflict'
  PROVE  ReplayInv'
<1>1. ASSUME NEW q \in Procs, q # p PROVE OnTrack(q)'
  BY <1>1, Zenon DEF OnTrack, Holds, At
<1> QED BY <1>1, Zenon DEF ReplayInv

\* The other goroutines do not work on an intent that is held or not there.
LEMMA OthersRest ==
  ASSUME FinalizeInv, NEW p \in Procs, \A q \in Procs : q # p => job'[q] = job[q],
         Holds(p) \/ db.intent = None
  PROVE  \A q \in Procs : q # p => ~Holds(q)'
BY Zenon DEF FinalizeInv, OneFinalizer, Holds

\* The row as it is matters to the files only.
LEMMA SameRows ==
  ASSUME ReplayInv, db' = db, \A o \in Outputs : db.staging[o].state = "complete" => o \in disk'.final,
         \A o \in disk'.tmp : o \in disk.tmp \/ db.staging[o].state = "none"
  PROVE  RowsHaveFiles'
BY Zenon DEF ReplayInv, RowsHaveFiles, CommittedOutputsOnDisk, InPhaseB

-----------------------------------------------------------------------------
(* The goroutine, before its intent.                                       *)

\* The process exits: its outputs are .tmp files without a row.
LEMMA ProcessExitReplays ==
  ASSUME FinalizeInv, ReplayInv, ProcessExit
  PROVE  ReplayInv'
<1> DEFINE p == "waiter"
<1>0. p \in Procs /\ TypeOK /\ db.intent = None
  BY Zenon DEF Procs, FinalizeInv, OneOwner, Owns, ProcessExit, At
<1>1. PICK v \in {"success", "failed", "killed", "crashed"}, outs \in SUBSET Outputs :
        /\ \A o \in outs : db.staging[o].state = "none" /\ o \notin disk.final
        /\ job' = [job EXCEPT ![p] = [pc |-> "a2", ev |-> Now(v), outs |-> outs, todo |-> {}]]
        /\ disk' = [disk EXCEPT !.tmp = @ \cup outs, !.file = TRUE]
  BY ZenonT(60) DEF ProcessExit
<1>2. /\ disk'.tmp = disk.tmp \cup outs /\ disk'.final = disk.final /\ disk'.bad = disk.bad
      /\ disk'.unsynced = disk.unsynced /\ disk'.done = disk.done
  BY <1>0, <1>1, Zenon DEF TypeOK, Disk
<1>3. job'[p].pc = "a2" /\ \A q \in Procs : q # p => job'[q] = job[q]
  BY <1>0, <1>1, Zenon DEF TypeOK
<1>4. db' = db /\ critical' = critical
  BY Zenon DEF ProcessExit, life
<1>5. OneCopy'
  BY <1>1, <1>2, Zenon DEF ReplayInv, OneCopy
<1>6. RowsHaveFiles'
  BY <1>1, <1>2, <1>4, SameRows, Zenon DEF ReplayInv, RowsHaveFiles, CommittedOutputsOnDisk
<1>7. OnTrack(p)'
  BY <1>3, Zenon DEF OnTrack, At
<1>8. EventOfIntent' /\ NoTerminalConflict'
  BY <1>0, <1>2, <1>4, Zenon DEF ReplayInv, EventOfIntent, NoTerminalConflict
<1> QED BY <1>0, <1>3, <1>5, <1>6, <1>7, <1>8, Alone, OthersRest, Zenon

\* Outputs without a row are dropped.
LEMMA DropTmpReplays ==
  ASSUME FinalizeInv, FinalizeInv', ReplayInv, CapOutcome \/ \E p \in Procs : PhaseA2Fails(p)
  PROVE  ReplayInv'
<1>0. TypeOK
  BY Zenon DEF FinalizeInv
<1>1. PICK p \in Procs : (CapOutcome /\ p = "waiter") \/ PhaseA2Fails(p)
  BY Zenon DEF Procs
<1>2. /\ disk'.tmp \subseteq disk.tmp /\ disk'.final = disk.final /\ disk'.bad = disk.bad
      /\ disk'.unsynced = disk.unsynced /\ disk'.done = disk.done
  BY <1>0, <1>1 DEF TypeOK, Disk, CapOutcome, PhaseA2Fails
<1>3. ~Holds(p)' /\ \A q \in Procs : q # p => job'[q] = job[q]
  BY <1>0, <1>1 DEF TypeOK, CapOutcome, PhaseA2Fails, Holds, At, Job, IdleJob
<1>4. db' = db /\ critical' = critical
  BY <1>1, Zenon DEF CapOutcome, PhaseA2Fails, life
<1>5. Steady
  BY <1>2, <1>3, <1>4, Zenon DEF Steady, ReplayInv, OneCopy, RowsHaveFiles, CommittedOutputsOnDisk, InPhaseB
<1> QED BY <1>5, SteadyStep, Zenon

-----------------------------------------------------------------------------
(* The goroutine that works on the intent.                                 *)

\* What a holder's step changes besides the files and its own position.
LEMMA HolderStep ==
  ASSUME FinalizeInv, ReplayInv, NEW p \in Procs, Holds(p), db' = db, critical' = critical,
         \A q \in Procs : q # p => job'[q] = job[q], disk'.done = disk.done,
         OneCopy', disk'.tmp \subseteq disk.tmp,
         \A o \in Outputs : o \in disk.final => o \in disk'.final \/ (At(p, "revert") /\ o \in job[p].outs),
         OnTrack(p)'
  PROVE  ReplayInv'
<1>1. db.intent # None /\ db.intent.outs = job[p].outs
  BY Zenon DEF FinalizeInv, OneFinalizer
<1>2. \A o \in job[p].outs : InPhaseB(o)
  BY <1>1, Zenon DEF ReplayInv, RowsHaveFiles
<1>3. \A o \in Outputs : db.staging[o].state = "complete" => o \in disk'.final
  BY <1>2, Zenon DEF ReplayInv, RowsHaveFiles, CommittedOutputsOnDisk, InPhaseB
<1>4. RowsHaveFiles'
  BY <1>3, SameRows, Zenon
<1>5. At(p, "revert") => disk.done = None
  BY Zenon DEF ReplayInv, OnTrack, At
<1>6. db.intent.outs \subseteq Outputs
  BY <1>1, Zenon DEF FinalizeInv, TypeOK, Database, Intent
<1>7. EventOfIntent'
  BY <1>1, <1>5, <1>6, Zenon DEF ReplayInv, EventOfIntent
<1>8. NoTerminalConflict'
  BY Zenon DEF ReplayInv, NoTerminalConflict
<1> QED BY <1>4, <1>7, <1>8, Alone, OthersRest, Zenon

\* Phase B renames an output, fsyncs its directory, or gives up before anything is public.
LEMMA RenameReplays ==
  ASSUME FinalizeInv, ReplayInv, NEW p \in Procs, NEW o \in Outputs,
         Rename(p, o) \/ SyncRenamed(p, o) \/ RenameFails(p, o)
  PROVE  ReplayInv'
<1>0. TypeOK /\ At(p, "rename") /\ Holds(p) /\ OnTrack(p)
  BY Zenon DEF FinalizeInv, Rename, SyncRenamed, RenameFails, At, Holds, ReplayInv
<1>1. db' = db /\ critical' = critical
  BY Zenon DEF Rename, SyncRenamed, RenameFails, life
<1>2. CASE Rename(p, o)
  <2>1. /\ disk'.tmp = disk.tmp \ {o} /\ disk'.final = disk.final \cup {o} /\ disk'.bad = disk.bad
        /\ disk'.unsynced = disk.unsynced \cup {o} /\ disk'.done = disk.done /\ job' = job
    BY <1>0, <1>2, Zenon DEF TypeOK, Disk, Rename
  <2>2. OneCopy' /\ OnTrack(p)'
    BY <1>0, <1>1, <2>1, Zenon DEF ReplayInv, OneCopy, OnTrack, At
  <2> QED BY <1>0, <1>1, <2>1, <2>2, HolderStep, Zenon
<1>3. CASE SyncRenamed(p, o)
  <2>1. /\ disk'.tmp = disk.tmp /\ disk'.final = disk.final /\ disk'.bad = disk.bad
        /\ disk'.unsynced \subseteq disk.unsynced /\ disk'.done = disk.done
    BY <1>0, <1>3, Zenon DEF TypeOK, Disk, SyncRenamed
  <2>2. /\ job'[p].pc = job[p].pc /\ job'[p].outs = job[p].outs /\ job'[p].todo = job[p].todo \ {o}
        /\ \A q \in Procs : q # p => job'[q] = job[q]
    BY <1>0, <1>3, Zenon DEF TypeOK, Job, SyncRenamed
  <2>3. o \in disk.final
    BY <1>3, Zenon DEF SyncRenamed, ReplayInv, OneCopy
  <2>4. OneCopy' /\ OnTrack(p)'
    BY <1>0, <1>1, <2>1, <2>2, <2>3, Zenon DEF ReplayInv, OneCopy, OnTrack, At
  <2> QED BY <1>0, <1>1, <2>1, <2>2, <2>4, HolderStep, Zenon
<1>4. CASE RenameFails(p, o)
  <2>1. disk' = disk
    BY <1>4, Zenon DEF RenameFails
  <2>2. /\ job'[p].pc = "revert" /\ job'[p].todo = job[p].outs /\ job'[p].outs = job[p].outs
        /\ \A q \in Procs : q # p => job'[q] = job[q]
    BY <1>0, <1>4, SMTT(40) DEF TypeOK, Job, RenameFails
  <2>3. OneCopy' /\ OnTrack(p)'
    BY <1>0, <1>1, <2>1, <2>2 DEF ReplayInv, OneCopy, OnTrack, At
  <2> QED BY <1>0, <1>1, <2>1, <2>2, <2>3, HolderStep, Zenon
<1> QED BY <1>2, <1>3, <1>4, Zenon

\* Every output has been renamed.
LEMMA RenamesDoneReplays ==
  ASSUME FinalizeInv, ReplayInv, NEW p \in Procs, RenamesDone(p)
  PROVE  ReplayInv'
<1>0. TypeOK /\ At(p, "rename") /\ Holds(p) /\ OnTrack(p) /\ job[p].todo = {}
  BY Zenon DEF FinalizeInv, RenamesDone, At, Holds, ReplayInv
<1>1. db' = db /\ critical' = critical /\ disk' = disk
  BY Zenon DEF RenamesDone, life
<1>2. /\ job'[p].pc = "append" /\ job'[p].outs = job[p].outs
      /\ \A q \in Procs : q # p => job'[q] = job[q]
  BY <1>0, Zenon DEF TypeOK, Job, RenamesDone
<1>3. OneCopy' /\ OnTrack(p)'
  BY <1>0, <1>1, <1>2, Zenon DEF ReplayInv, OneCopy, OnTrack, At
<1> QED BY <1>0, <1>1, <1>2, <1>3, HolderStep, Zenon

\* An output is given up: no copy is left, and no done event is there that would name it.
LEMMA RevertRemoveReplays ==
  ASSUME FinalizeInv, ReplayInv, NEW p \in Procs, NEW o \in Outputs, RevertRemove(p, o)
  PROVE  ReplayInv'
<1>0. TypeOK /\ At(p, "revert") /\ Holds(p) /\ OnTrack(p)
  BY Zenon DEF FinalizeInv, RevertRemove, At, Holds, ReplayInv
<1>1. db' = db /\ critical' = critical /\ o \in job[p].outs
  BY <1>0, Zenon DEF RevertRemove, life, OnTrack, At
<1>2. /\ disk'.tmp = disk.tmp \ {o} /\ disk'.final = disk.final \ {o} /\ disk'.bad = disk.bad \ {o}
      /\ disk'.unsynced = disk.unsynced \ {o} /\ disk'.done = disk.done
  BY <1>0, Zenon DEF TypeOK, Disk, RevertRemove
<1>3. /\ job'[p].pc = job[p].pc /\ job'[p].outs = job[p].outs /\ job'[p].todo = job[p].todo \ {o}
      /\ \A q \in Procs : q # p => job'[q] = job[q]
  BY <1>0, Zenon DEF TypeOK, Job, RevertRemove
<1>4. OneCopy' /\ OnTrack(p)'
  BY <1>0, <1>1, <1>2, <1>3, Zenon DEF ReplayInv, OneCopy, OnTrack, At
<1> QED BY <1>0, <1>1, <1>2, <1>3, <1>4, HolderStep, Zenon

\* The repair redoes or verifies renames.  It gives up only where a rename fails, and
\* never once the done event is public: by then every output is at its place.
LEMMA CatchUpReplays ==
  ASSUME NoDamage, FinalizeInv, ReplayInv, NEW o \in Outputs, CatchUp(o) \/ CatchUpFails(o)
  PROVE  ReplayInv'
<1> DEFINE p == "repair"
<1>0. p \in Procs /\ TypeOK /\ At(p, "catchup") /\ Holds(p) /\ OnTrack(p)
  BY Zenon DEF Procs, FinalizeInv, CatchUp, CatchUpFails, At, Holds, ReplayInv, NoDamage
<1>1. db' = db /\ critical' = critical
  BY Zenon DEF CatchUp, CatchUpFails, life
<1>a. db.intent # None /\ db.intent.outs = job[p].outs
  BY <1>0, Zenon DEF FinalizeInv, OneFinalizer
<1>b. o \in job[p].todo /\ o \notin disk.final => disk.done = None
  BY <1>0, <1>a, Zenon DEF OnTrack, At, ReplayInv, EventOfIntent
<1>2. CASE CatchUp(o) /\ job'[p].pc = "catchup"
  <2>1. /\ o \in job[p].todo
        /\ disk'.tmp = disk.tmp \ {o} /\ disk'.final = disk.final \cup {o} /\ disk'.bad = disk.bad
        /\ disk'.unsynced \subseteq disk.unsynced \cup {o} /\ disk'.done = disk.done
    <3>1. disk.bad = {} BY Zenon DEF ReplayInv, OneCopy
    <3>2. CASE o \in disk.final
      BY <1>0, <1>2, <3>1, <3>2, Zenon DEF TypeOK, Disk, CatchUp
    <3>3. CASE o \in disk.tmp \ disk.final
      BY <1>0, <1>2, <3>1, <3>3, ZenonT(60) DEF TypeOK, Disk, CatchUp
    <3>4. CASE o \notin disk.tmp /\ o \notin disk.final
      BY <1>0, <1>2, <3>4, ZenonT(60) DEF TypeOK, Job, CatchUp
    <3> QED BY <3>2, <3>3, <3>4, Zenon
  <2>2. /\ job'[p].outs = job[p].outs /\ job'[p].todo = job[p].todo \ {o}
        /\ \A q \in Procs : q # p => job'[q] = job[q]
    BY <1>0, <1>2 DEF TypeOK, Job, CatchUp
  <2>4. OneCopy' /\ OnTrack(p)'
    BY <1>0, <1>1, <1>2, <2>1, <2>2, Zenon DEF ReplayInv, OneCopy, OnTrack, At
  <2> QED BY <1>0, <1>1, <2>1, <2>2, <2>4, HolderStep, Zenon
<1>3. CASE CatchUpFails(o) \/ (CatchUp(o) /\ job'[p].pc # "catchup")
  <2>1. disk' = disk
    BY <1>0, <1>3, SMTT(40) DEF CatchUp, CatchUpFails, TypeOK, Job, At
  <2>2. /\ job'[p].pc = "revert" /\ job'[p].todo = job[p].outs /\ o \in job[p].todo /\ o \notin disk.final
        /\ job'[p].outs = job[p].outs
        /\ \A q \in Procs : q # p => job'[q] = job[q]
    BY <1>0, <1>3, SMTT(40) DEF TypeOK, Job, CatchUp, CatchUpFails, At, ReplayInv, OneCopy, NoDamage
  <2>3. OneCopy' /\ OnTrack(p)'
    BY <1>0, <1>1, <1>b, <2>1, <2>2, SMTT(40) DEF ReplayInv, OneCopy, OnTrack, At
  <2> QED BY <1>0, <1>1, <2>1, <2>2, <2>3, HolderStep, Zenon
<1> QED BY <1>2, <1>3, Zenon

\* Every output has been caught up with.
LEMMA CatchUpDoneReplays ==
  ASSUME FinalizeInv, ReplayInv, CatchUpDone
  PROVE  ReplayInv'
<1> DEFINE p == "repair"
<1>0. p \in Procs /\ TypeOK /\ At(p, "catchup") /\ Holds(p) /\ OnTrack(p) /\ job[p].todo = {}
  BY Zenon DEF Procs, FinalizeInv, CatchUpDone, At, Holds, ReplayInv
<1>1. db' = db /\ critical' = critical /\ disk' = disk
  BY Zenon DEF CatchUpDone, life
<1>2. /\ job'[p].pc = "append" /\ job'[p].outs = job[p].outs
      /\ \A q \in Procs : q # p => job'[q] = job[q]
  BY <1>0, Zenon DEF TypeOK, Job, CatchUpDone
<1>3. OneCopy' /\ OnTrack(p)'
  BY <1>0, <1>1, <1>2, Zenon DEF ReplayInv, OneCopy, OnTrack, At
<1> QED BY <1>0, <1>1, <1>2, <1>3, HolderStep, Zenon

\* The done event is appended: an earlier one can only be the intent's own.
LEMMA AppendDoneReplays ==
  ASSUME FinalizeInv, ReplayInv, NEW p \in Procs, AppendDone(p)
  PROVE  ReplayInv' /\ disk'.done = job[p].ev
<1>0. TypeOK /\ At(p, "append") /\ Holds(p) /\ OnTrack(p)
  BY Zenon DEF FinalizeInv, AppendDone, At, Holds, ReplayInv
<1>1. db.intent # None /\ db.intent.ev = job[p].ev /\ db.intent.outs = job[p].outs
  BY <1>0, Zenon DEF FinalizeInv, OneFinalizer
<1>2. disk.done \in {None, job[p].ev}
  BY <1>1, Zenon DEF ReplayInv, EventOfIntent
<1>3. db' = db /\ critical' = critical
  BY <1>2, Zenon DEF AppendDone
<1>4. /\ disk'.tmp = disk.tmp /\ disk'.final = disk.final /\ disk'.bad = disk.bad
      /\ disk'.unsynced = disk.unsynced /\ disk'.done = job[p].ev
  BY <1>0, <1>2, Zenon DEF TypeOK, Disk, AppendDone
<1>5. /\ job'[p].pc = "commit" /\ job'[p].outs = job[p].outs
      /\ \A q \in Procs : q # p => job'[q] = job[q]
  BY <1>0, <1>2, SMTT(40) DEF TypeOK, Job, AppendDone
<1>6. OneCopy' /\ OnTrack(p)'
  BY <1>0, <1>3, <1>4, <1>5, Zenon DEF ReplayInv, OneCopy, OnTrack, At
<1>7. RowsHaveFiles'
  BY <1>3, <1>4, SameRows, Zenon DEF ReplayInv, RowsHaveFiles, CommittedOutputsOnDisk
<1>8. EventOfIntent' /\ NoTerminalConflict'
  BY <1>0, <1>1, <1>3, <1>4, Zenon DEF ReplayInv, EventOfIntent, NoTerminalConflict, OnTrack, At
<1> QED BY <1>0, <1>4, <1>5, <1>6, <1>7, <1>8, Alone, OthersRest, Zenon

\* The intent is written, for a mission of which nothing is public.
LEMMA PhaseA2Replays ==
  ASSUME FinalizeInv, ReplayInv, NEW p \in Procs, PhaseA2(p)
  PROVE  ReplayInv'
<1>0. TypeOK /\ db.intent = None /\ db.status = "running" /\ disk.done = None
  BY Zenon DEF FinalizeInv, PhaseA2, At, OneOwner, Owns, ReplayInv, EventOfIntent
<1>1. /\ db'.intent = [phase |-> "prepared", ev |-> job[p].ev, outs |-> job[p].outs]
      /\ \A o \in Outputs : db'.staging[o].state = IF o \in job[p].outs THEN "pending_output"
                                                   ELSE db.staging[o].state
  BY <1>0, Zenon DEF PhaseA2, TypeOK, Database
<1>2. disk' = disk /\ critical' = critical
  BY Zenon DEF PhaseA2, life
<1>3. /\ job'[p].pc = IF job[p].outs = {} THEN "append" ELSE "b1"
      /\ job'[p].outs = job[p].outs
      /\ \A q \in Procs : q # p => job'[q] = job[q]
  BY <1>0, Zenon DEF PhaseA2, TypeOK, Job
<1>4. job[p].outs \subseteq Outputs /\ disk.tmp \subseteq Outputs
  BY <1>0, Zenon DEF TypeOK, Job, Disk
<1>5. OneCopy' /\ NoTerminalConflict'
  BY <1>2, Zenon DEF ReplayInv, OneCopy, NoTerminalConflict
<1>6. RowsHaveFiles'
  BY <1>1, <1>2, <1>4 DEF ReplayInv, RowsHaveFiles, CommittedOutputsOnDisk, InPhaseB
<1>7. OnTrack(p)'
  BY <1>0, <1>2, <1>3, Zenon DEF OnTrack, At
<1>8. EventOfIntent'
  BY <1>0, <1>1, <1>2, ConstantsOK, Zenon DEF EventOfIntent
<1> QED BY <1>0, <1>3, <1>5, <1>6, <1>7, <1>8, Alone, OthersRest, Zenon

\* The intent becomes committing before the first rename.
LEMMA PhaseB1Replays ==
  ASSUME FinalizeInv, ReplayInv, NEW p \in Procs, PhaseB1(p)
  PROVE  ReplayInv'
<1>0. TypeOK /\ At(p, "b1") /\ Holds(p) /\ db.intent # None /\ disk.done = None
  BY Zenon DEF FinalizeInv, PhaseB1, At, Holds, ReplayInv, OnTrack
<1>1. /\ db'.intent # None /\ db'.intent.phase = "committing" /\ db'.intent.outs = db.intent.outs
      /\ \A o \in Outputs : /\ InPhaseB(o) => InPhaseB(o)'
                            /\ ~InPhaseB(o) => db'.staging[o].state = db.staging[o].state
  <2>1. db.intent \in Intent
    BY <1>0, Zenon DEF TypeOK, Database
  <2>2. db'.intent = [db.intent EXCEPT !.phase = "committing"]
    BY <1>0, Zenon DEF PhaseB1, TypeOK, Database
  <2>3. db'.intent \in Intent /\ db'.intent.phase = "committing" /\ db'.intent.outs = db.intent.outs
    BY <2>1, <2>2, Zenon DEF Intent
  <2>4. \A o \in Outputs : db'.staging[o] = IF o \in job[p].outs /\ db.staging[o].state = "pending_output"
                   THEN [db.staging[o] EXCEPT !.state = "committing"]
                   ELSE db.staging[o]
    BY <1>0, Zenon DEF PhaseB1, TypeOK, Database
  <2>5. \A o \in Outputs : db.staging[o] \in StagingRow
    BY <1>0, Zenon DEF TypeOK, Database
  <2>6. \A o \in Outputs : /\ InPhaseB(o) => InPhaseB(o)'
                           /\ ~InPhaseB(o) => db'.staging[o].state = db.staging[o].state
    BY <2>4, <2>5, ZenonT(60) DEF InPhaseB, StagingRow
  <2> QED BY <2>3, <2>6, ConstantsOK, Zenon
<1>2. disk' = disk /\ critical' = critical
  BY Zenon DEF PhaseB1, life
<1>3. /\ job'[p].pc = "rename" /\ job'[p].todo = job[p].outs
      /\ job'[p].outs = job[p].outs
      /\ \A q \in Procs : q # p => job'[q] = job[q]
  BY <1>0, Zenon DEF PhaseB1, TypeOK, Job
<1>4. db.intent.outs \subseteq Outputs /\ disk.tmp \subseteq Outputs
  BY <1>0, Zenon DEF TypeOK, Database, Intent, Disk
<1>5. OneCopy' /\ NoTerminalConflict'
  BY <1>2, Zenon DEF ReplayInv, OneCopy, NoTerminalConflict
<1>6. RowsHaveFiles'
  BY <1>0, <1>1, <1>2, <1>4, Zenon DEF ReplayInv, RowsHaveFiles, CommittedOutputsOnDisk, InPhaseB
<1>7. OnTrack(p)'
  BY <1>0, <1>1, <1>2, <1>3, Zenon DEF OnTrack, At
<1>8. EventOfIntent'
  BY <1>0, <1>1, <1>2, Zenon DEF EventOfIntent
<1> QED BY <1>0, <1>3, <1>5, <1>6, <1>7, <1>8, Alone, OthersRest, Zenon

\* The intent is rewritten once no file is left of its outputs.
LEMMA RevertTxReplays ==
  ASSUME FinalizeInv, ReplayInv, NEW p \in Procs, RevertTx(p)
  PROVE  ReplayInv'
<1>0. /\ TypeOK /\ At(p, "revert") /\ Holds(p) /\ db.intent # None /\ disk.done = None
      /\ job[p].outs \cap disk.tmp = {}
  BY Zenon DEF FinalizeInv, RevertTx, At, Holds, ReplayInv, OnTrack, OneFinalizer
<1>1. db'.intent = [phase |-> "prepared", ev |-> Now("output_commit_failed"), outs |-> {}]
  BY <1>0, Zenon DEF RevertTx, TypeOK, Database
<1>2. \A o \in Outputs : /\ db'.staging[o].state \in {"deleting", db.staging[o].state}
                         /\ o \notin job[p].outs => db'.staging[o].state = db.staging[o].state
  BY <1>0 DEF RevertTx, TypeOK, Database, StagingRow
<1>3. disk' = disk /\ critical' = critical
  BY Zenon DEF RevertTx, life
<1>4. /\ job'[p].pc = "append" /\ job'[p].outs = {}
      /\ \A q \in Procs : q # p => job'[q] = job[q]
  BY <1>0, Zenon DEF RevertTx, TypeOK, Job
<1>5. disk.tmp \subseteq Outputs
  BY <1>0, Zenon DEF TypeOK, Disk
<1>6. OneCopy' /\ NoTerminalConflict'
  BY <1>3, Zenon DEF ReplayInv, OneCopy, NoTerminalConflict
<1>7. RowsHaveFiles'
  BY <1>0, <1>1, <1>2, <1>3, <1>5, SMTT(40) DEF ReplayInv, RowsHaveFiles, CommittedOutputsOnDisk, InPhaseB
<1>8. OnTrack(p)'
  BY <1>4, Zenon DEF OnTrack, At
<1>9. EventOfIntent'
  BY <1>0, <1>1, <1>3, Zenon DEF EventOfIntent, Now
<1> QED BY <1>0, <1>4, <1>6, <1>7, <1>8, <1>9, Alone, OthersRest, Zenon

\* The outcome is stored or discarded once every output is at its final path.
LEMMA CommitReplays ==
  ASSUME FinalizeInv, ReplayInv, NEW p \in Procs, CommitDone(p) \/ CommitDiscarded(p)
  PROVE  ReplayInv'
<1>0. /\ TypeOK /\ At(p, "commit") /\ Holds(p) /\ job[p].outs \subseteq disk.final
      /\ job[p].outs \cap disk.tmp = {}
  BY ZenonT(60) DEF FinalizeInv, CommitDone, CommitDiscarded, At, Holds, ReplayInv, OnTrack, OneCopy
<1>1. /\ db'.intent = None /\ db'.status \notin {"queued", "running"}
      /\ \A o \in Outputs : o \notin job[p].outs => db'.staging[o].state = db.staging[o].state
  <2>1. CASE CommitDone(p)
    BY <1>0, <2>1, ZenonT(60) DEF CommitDone
  <2>2. CASE CommitDiscarded(p)
    BY <1>0, <2>2, Zenon DEF CommitDiscarded, TypeOK, Database
  <2> QED BY <2>1, <2>2, Zenon
<1>3. disk' = disk /\ critical' = critical
  BY ZenonT(60) DEF CommitDone, CommitDiscarded, life
<1>4. /\ job'[p].pc \in {"idle", "recalc"}
      /\ \A q \in Procs : q # p => job'[q] = job[q]
  <2>1. CASE CommitDone(p)
    BY <1>0, <2>1, ZenonT(60) DEF CommitDone, TypeOK, Job, IdleJob
  <2>2. CASE CommitDiscarded(p)
    BY <1>0, <2>2, Zenon DEF CommitDiscarded, TypeOK, IdleJob
  <2> QED BY <2>1, <2>2, Zenon
<1>5. disk.tmp \subseteq Outputs
  BY <1>0, Zenon DEF TypeOK, Disk
<1>6. OneCopy' /\ NoTerminalConflict'
  BY <1>3, Zenon DEF ReplayInv, OneCopy, NoTerminalConflict
<1>7. RowsHaveFiles'
  BY <1>0, <1>1, <1>3, <1>5, Zenon DEF ReplayInv, RowsHaveFiles, CommittedOutputsOnDisk
<1>8. OnTrack(p)'
  BY <1>4, Zenon DEF OnTrack, At
<1>9. EventOfIntent'
  BY <1>1, Zenon DEF EventOfIntent
<1> QED BY <1>0, <1>4, <1>6, <1>7, <1>8, <1>9, Alone, OthersRest, Zenon

-----------------------------------------------------------------------------
(* Kills and start-up.                                                     *)

\* A kill writes its intent for a queued mission of which nothing is public, or ends.
LEMMA KillTxReplays ==
  ASSUME FinalizeInv, FinalizeInv', ReplayInv, NEW p \in Killers, KillTx(p)
  PROVE  ReplayInv'
<1>0. TypeOK /\ p \in Procs /\ disk' = disk /\ critical' = critical
  BY Zenon DEF FinalizeInv, Procs, KillTx, life
<1>1. CASE db.status = "queued" /\ db.intent = None
  <2>1. /\ db'.intent = [phase |-> "prepared", ev |-> job[p].ev, outs |-> {}]
        /\ db'.staging = db.staging
    BY <1>0, <1>1, Zenon DEF KillTx, TypeOK, Database
  <2>2. job'[p].pc = "append" /\ job'[p].outs = {} /\ \A q \in Procs : q # p => job'[q] = job[q]
    BY <1>0, <1>1, ZenonT(60) DEF KillTx, TypeOK, IdleJob
  <2>3. OneCopy' /\ NoTerminalConflict' /\ OnTrack(p)'
    BY <1>0, <2>2, Zenon DEF ReplayInv, OneCopy, NoTerminalConflict, OnTrack, At
  <2>4. RowsHaveFiles'
    BY <1>0, <2>1 DEF ReplayInv, RowsHaveFiles, CommittedOutputsOnDisk, InPhaseB
  <2>5. EventOfIntent'
    BY <1>0, <1>1, <2>1, Zenon DEF ReplayInv, EventOfIntent
  <2> QED BY <1>0, <1>1, <2>2, <2>3, <2>4, <2>5, Alone, OthersRest, Zenon
<1>2. CASE ~(db.status = "queued" /\ db.intent = None)
  <2>1. db' = db /\ ~Holds(p)' /\ \A q \in Procs : q # p => job'[q] = job[q]
    BY <1>0, <1>2 DEF KillTx, TypeOK, Holds, IdleJob
  <2>2. Steady
    BY <1>0, <2>1, Zenon DEF Steady, ReplayInv, OneCopy, RowsHaveFiles, InPhaseB
  <2> QED BY <2>2, SteadyStep, Zenon
<1> QED BY <1>1, <1>2, Zenon

\* The repair takes the intent up where it is: one with outputs and a public done event
\* is committing, so its outputs are caught up with and not given up.
LEMMA RepairIntentReplays ==
  ASSUME FinalizeInv, ReplayInv, RepairIntent
  PROVE  ReplayInv'
<1> DEFINE p == "repair"
<1>0. TypeOK /\ p \in Procs /\ db' = db /\ critical' = critical /\ db.intent # None
  BY Zenon DEF FinalizeInv, Procs, RepairIntent
<1>1. /\ disk'.tmp = disk.tmp /\ disk'.final = disk.final /\ disk'.bad = disk.bad
      /\ disk'.unsynced = disk.unsynced /\ disk'.done = disk.done
  BY <1>0, Zenon DEF RepairIntent, TypeOK, Disk
<1>2. /\ job'[p].pc = ResumePoint(db.intent) /\ job'[p].outs = db.intent.outs
      /\ job'[p].todo = db.intent.outs
      /\ \A q \in Procs : q # p => job'[q] = job[q]
  BY <1>0, Zenon DEF RepairIntent, TypeOK
<1>3. \A q \in Procs : q # p => ~Holds(q)'
  BY <1>2, Zenon DEF RepairIntent, FinalizeInv, BootAlone, At, Holds
<1>4. db.intent.phase \in {"prepared", "committing"}
  BY <1>0, Zenon DEF TypeOK, Database, Intent
<1>5. OneCopy' /\ NoTerminalConflict' /\ EventOfIntent'
  BY <1>0, <1>1, Zenon DEF ReplayInv, OneCopy, NoTerminalConflict, EventOfIntent
<1>6. RowsHaveFiles'
  BY <1>0, <1>1, SameRows, Zenon DEF ReplayInv, RowsHaveFiles, CommittedOutputsOnDisk
<1>7. OnTrack(p)'
  BY <1>0, <1>1, <1>2, <1>4, ZenonT(60) DEF OnTrack, At, ResumePoint, ReplayInv, EventOfIntent
<1> QED BY <1>0, <1>3, <1>5, <1>6, <1>7, Alone, Zenon

\* The done event of a done row is written where no intent is left.
LEMMA EnsureTerminalReplays ==
  ASSUME FinalizeInv, FinalizeInv', ReplayInv, EnsureTerminalEvents
  PROVE  ReplayInv'
<1>0. TypeOK /\ db' = db /\ critical' = critical /\ job' = job
  BY Zenon DEF FinalizeInv, EnsureTerminalEvents
<1>1. /\ disk'.tmp = disk.tmp /\ disk'.final = disk.final /\ disk'.bad = disk.bad
      /\ disk'.unsynced = disk.unsynced
      /\ disk'.done = disk.done \/ db.status = "done"
  BY <1>0, ZenonT(60) DEF EnsureTerminalEvents, TypeOK, Disk
<1>2. CASE disk'.done = disk.done
  <2>1. Steady
    BY <1>0, <1>1, <1>2, Zenon DEF Steady, ReplayInv, OneCopy, RowsHaveFiles, InPhaseB
  <2> QED BY <2>1, SteadyStep, Zenon
<1>3. CASE db.status = "done"
  <2>1. db.intent = None
    BY <1>3, ZenonT(60) DEF FinalizeInv, RowsConsistent
  <2>2. \A q \in Procs : ~Holds(q)'
    BY <1>0, <2>1, ZenonT(60) DEF FinalizeInv, OneFinalizer, Holds
  <2>3. RowsHaveFiles'
    BY <1>0, <1>1, SameRows, Zenon DEF ReplayInv, RowsHaveFiles, CommittedOutputsOnDisk
  <2>4. OneCopy' /\ NoTerminalConflict' /\ EventOfIntent'
    BY <1>0, <1>1, <1>3, <2>1, Zenon DEF ReplayInv, OneCopy, NoTerminalConflict, EventOfIntent
  <2>5. "repair" \in Procs /\ OnTrack("repair")'
    BY <2>2, Zenon DEF OnTrack, Holds, At, Procs
  <2> QED BY <2>2, <2>3, <2>4, <2>5, Alone, Zenon
<1> QED BY <1>1, <1>2, <1>3, Zenon

-----------------------------------------------------------------------------
(* The rest changes nothing that the repair looks at.                      *)

\* A bystander preserves ReplayInv.
LEMMA BystanderReplays ==
  ASSUME FinalizeInv, FinalizeInv', ReplayInv, Bystander
  PROVE  ReplayInv'
<1>1. disk.tmp \subseteq Outputs BY Zenon DEF FinalizeInv, TypeOK, Disk
<1>2. Steady
  BY <1>1, Zenon DEF Bystander, Steady, ReplayInv, OneCopy, RowsHaveFiles, CommittedOutputsOnDisk, InPhaseB
<1> QED BY <1>2, SteadyStep, Zenon

\* The collector and the orphan sweep take files away, but none that is or may become
\* an output.
LEMMA CollectSteady ==
  ASSUME FinalizeInv, ReplayInv,
         \/ (\E o \in Outputs : ExpireTTL(o) \/ Tombstone(o) \/ DropStagingRow(o)) \/ SweepOrphans
  PROVE  Steady
<1>0. TypeOK /\ disk \in Disk /\ \A o \in Outputs : db.staging[o] \in StagingRow
  BY Zenon DEF FinalizeInv, TypeOK, Database
<1>1. CASE SweepOrphans
  <2>1. db'.intent = db.intent /\ db'.status = db.status
    BY <1>0, <1>1, Zenon DEF SweepOrphans, TypeOK, Database
  <2>2. \A o \in Outputs : db'.staging[o].state = db.staging[o].state
    <3>1. \A o \in Outputs : db'.staging[o] \in {db.staging[o], Recalculated(db.staging[o])}
      BY <1>0, <1>1, Zenon DEF SweepOrphans, TypeOK, Database
    <3> QED BY <1>0, <3>1, RecalculatedState, Zenon
  <2> DEFINE known == {o \in Outputs : db.staging[o].state # "none"}
  <2>3. /\ disk'.tmp = disk.tmp \cap known /\ disk'.final = disk.final \cap known
        /\ disk'.bad = disk.bad \cap known /\ disk'.unsynced = disk.unsynced \cap known
        /\ disk'.done \in {None, disk.done} /\ job' = job /\ critical' = critical
    BY <1>0, <1>1, Zenon DEF SweepOrphans, Disk
  <2>4. disk.tmp \subseteq Outputs /\ disk.final \subseteq Outputs
    BY <1>0, Zenon DEF Disk
  <2>5. /\ \A o \in Outputs : InPhaseB(o) => InPhaseB(o)'
        /\ \A o \in disk'.tmp : db'.staging[o].state \in {"none", "pending_output", "committing"}
    BY <2>2, <2>3, <2>4, Zenon DEF InPhaseB, ReplayInv, RowsHaveFiles
  <2>6. \A o \in disk.final : InPhaseB(o) \/ db'.staging[o].state = "complete" => o \in disk'.final
    BY <2>2, <2>3, <2>4, Zenon DEF InPhaseB
  <2>7. disk'.bad \subseteq disk.bad /\ disk'.unsynced \subseteq disk'.final
    BY <2>3, Zenon DEF ReplayInv, OneCopy
  <2> QED BY <2>1, <2>2, <2>3, <2>5, <2>6, <2>7, Zenon DEF Steady
<1>2. ASSUME NEW o \in Outputs, ExpireTTL(o) \/ Tombstone(o) \/ DropStagingRow(o)
      PROVE  Steady
  <2>1. job' = job /\ critical' = critical
    BY <1>2, ZenonT(60) DEF ExpireTTL, Tombstone, DropStagingRow, life
  <2>2. db'.intent = db.intent /\ db'.status = db.status
    BY <1>0, <1>2, ZenonT(60) DEF ExpireTTL, Tombstone, DropStagingRow, TypeOK, Database
  <2>3. /\ db.staging[o].state \in {"complete", "deleting"}
        /\ db'.staging[o].state \in {"deleting", "none"}
        /\ \A x \in Outputs : x # o => db'.staging[x] = db.staging[x]
    <3>1. CASE ExpireTTL(o)
      BY <1>0, <3>1, Zenon DEF ExpireTTL, TypeOK, Database, StagingRow
    <3>2. CASE Tombstone(o)
      BY <1>0, <3>2, ZenonT(60) DEF Tombstone
    <3>3. CASE DropStagingRow(o)
      BY <1>0, <3>3, Zenon DEF DropStagingRow, TypeOK, Database, NoRow
    <3> QED BY <1>2, <3>1, <3>2, <3>3, Zenon
  <2>4. /\ disk'.tmp \subseteq disk.tmp /\ disk'.final \subseteq disk.final /\ disk'.bad \subseteq disk.bad
        /\ disk'.done = disk.done
        /\ \A x \in disk.final : x # o => x \in disk'.final
        /\ disk'.unsynced \subseteq disk.unsynced
        /\ o \in disk'.unsynced => o \in disk.unsynced /\ disk' = disk
    <3>1. CASE disk' = disk
      BY <3>1, Zenon
    <3>2. CASE Tombstone(o)
      BY <1>0, <3>2, ZenonT(60) DEF Tombstone, Disk
    <3> QED BY <1>2, <3>1, <3>2, Zenon DEF ExpireTTL, DropStagingRow
  <2>5. disk.tmp \subseteq Outputs /\ disk.final \subseteq Outputs /\ o \notin disk.tmp
    BY <1>0, <2>3, Zenon DEF Disk, ReplayInv, RowsHaveFiles
  <2>6. /\ \A x \in Outputs : InPhaseB(x) => InPhaseB(x)'
        /\ \A x \in disk'.tmp : db'.staging[x].state \in {"none", "pending_output", "committing"}
    BY <2>3, <2>4, <2>5, Zenon DEF InPhaseB, ReplayInv, RowsHaveFiles
  <2>7. \A x \in disk.final : InPhaseB(x) \/ db'.staging[x].state = "complete" => x \in disk'.final
    BY <2>3, <2>4, Zenon DEF InPhaseB
  <2>8. disk'.unsynced \subseteq disk'.final
    BY <2>4, Zenon DEF ReplayInv, OneCopy
  <2>9. \A x \in Outputs : db'.staging[x].state = "complete" => db.staging[x].state = "complete"
    BY <2>3, Zenon
  <2> QED BY <2>1, <2>2, <2>4, <2>6, <2>7, <2>8, <2>9, Zenon DEF Steady
<1> QED BY <1>1, <1>2, Zenon

-----------------------------------------------------------------------------
(* ReplayInv is inductive.                                                 *)

\* Every step preserves ReplayInv.
LEMMA NextReplays ==
  ASSUME NoDamage, FinalizeInv, FinalizeInv', ReplayInv, [Next]_vars
  PROVE  ReplayInv'
<1>1. ASSUME NEW p \in Procs, FinalizeStep(p) PROVE ReplayInv'
  <2>1. ASSUME NEW o \in Outputs, RecalcTTL(p, o) PROVE ReplayInv'
    BY <2>1, RecalcBystander, BystanderReplays, Zenon
  <2>2. CASE RenamesDone(p)
    BY <2>2, RenamesDoneReplays, Zenon
  <2>3. CASE GiveUp(p)
    BY <2>3, GoroutineBystander, BystanderReplays, Zenon
  <2>4. CASE PhaseA2Fails(p)
    BY <2>4, DropTmpReplays, Zenon
  <2> QED BY <1>1, <2>1, <2>2, <2>3, <2>4, PhaseA2Replays, PhaseB1Replays, RenameReplays, RevertRemoveReplays,
             RevertTxReplays, AppendDoneReplays, CommitReplays, Zenon DEF FinalizeStep
<1>2. ASSUME NEW k \in Killers, KillOpen(k) \/ KillTx(k) \/ Disconnect(k) PROVE ReplayInv'
  BY <1>2, GoroutineBystander, BystanderReplays, KillTxReplays, Zenon
<1>3. CASE Cleanup
  BY <1>3, RowBystander, RecalcBystander, BootBystander, BystanderReplays, Zenon DEF Cleanup
<1>4. ASSUME NEW o \in Outputs, CollectGarbage(o) PROVE ReplayInv'
  BY <1>4, CollectSteady, SteadyStep, RecalcBystander, BootBystander, BystanderReplays, Zenon DEF CollectGarbage
<1>5. CASE StartUp
  <2>1. CASE CatchUpDone
    BY <2>1, CatchUpDoneReplays, Zenon
  <2>2. ASSUME NEW o \in Outputs, CatchUp(o) \/ CatchUpFails(o) PROVE ReplayInv'
    BY <2>2, CatchUpReplays, Zenon
  <2>3. CASE StartDaemon \/ IntentsRepaired \/ SweepRunningToLost
    BY <2>3, BootBystander, BystanderReplays, Zenon
  <2>4. CASE SweepOrphans
    BY <2>4, CollectSteady, SteadyStep, Zenon
  <2> QED BY <1>5, <2>1, <2>2, <2>3, <2>4, RepairIntentReplays, EnsureTerminalReplays, Zenon DEF StartUp
<1>6. CASE Failure
  <2>1. CASE Crash \/ EventsLost
    BY <2>1, BootBystander, BystanderReplays, Zenon
  <2> QED BY <1>6, <2>1, ZenonT(60) DEF Failure, Checkpoint, PowerLoss, DiskDamage, NoDamage
<1>7. CASE DeleteRead \/ DeleteMark
  BY <1>7, RowBystander, BystanderReplays, Zenon
<1>8. CASE PickUp \/ UNCHANGED vars
  BY <1>8, GoroutineBystander, BootBystander, BystanderReplays, Zenon
<1>9. CASE CapOutcome
  BY <1>9, DropTmpReplays, Zenon
<1> QED BY <1>1, <1>2, <1>3, <1>4, <1>5, <1>6, <1>7, <1>8, <1>9, ProcessExitReplays, Zenon DEF Next

\* A mission just dispatched has no outputs and no done event.
LEMMA InitReplays ==
  ASSUME Init
  PROVE  ReplayInv
<1>1. OneCopy /\ NoTerminalConflict /\ EventOfIntent
  BY Zenon DEF Init, OneCopy, NoTerminalConflict, EventOfIntent
<1>2. RowsHaveFiles
  BY ZenonT(60) DEF Init, RowsHaveFiles, CommittedOutputsOnDisk, NoRow
<1>3. \A p \in Procs : OnTrack(p)
  BY Zenon DEF Init, OnTrack, At, IdleJob
<1> QED BY <1>1, <1>2, <1>3, Zenon DEF ReplayInv

\* ReplayInv holds in every reachable state, if the outputs survive and can be read: what
\* is renamed, what is public and what the intent says agree after every crash and every
\* failing write (repairOne, ContinuePhaseB, commitFinalize).
THEOREM ReplayInvariance == ASSUME NoDamage PROVE Spec => []ReplayInv
<1>1. Init => ReplayInv
  BY InitReplays, Zenon
<1>2. FinalizeInv /\ FinalizeInv' /\ ReplayInv /\ [Next]_vars => ReplayInv'
  BY NextReplays, Zenon
<1> QED BY <1>1, <1>2, Invariance, PTL DEF Spec

\* The repair never meets a done event that disagrees with its intent, so the sticky
\* critical-error flag is never raised: not by a crash between any two steps, not by a
\* write, rename or sync that fails, and not by the loss of the events file.  A power
\* loss, a damaged output and an output that the repair fails to read may raise it.
THEOREM NoConflict == ASSUME NoDamage PROVE Spec => []NoTerminalConflict
<1>1. ReplayInv => NoTerminalConflict
  BY Zenon DEF ReplayInv
<1> QED BY <1>1, ReplayInvariance, PTL

-----------------------------------------------------------------------------
(* Every .tmp file has a row or somebody about to write it.                *)

\* Steps that neither write a .tmp file nor take one from a goroutine.
TmpKept ==
    /\ disk'.tmp \subseteq disk.tmp
    /\ \A o \in disk'.tmp : db'.staging[o].state = "none" => db.staging[o].state = "none"
    /\ \A q \in Procs : job'[q] = job[q] \/ (job[q].pc # "a2" /\ job'[q].pc # "a2")
    /\ disk.file => disk'.file

\* TmpTracked is preserved by such a step.
LEMMA TmpKeptStep ==
  ASSUME TmpTracked, TmpKept, boot' = "up" => boot = "up"
  PROVE  TmpTracked'
<1>1. \A q \in Procs : job'[q].pc = "a2" => disk'.file
  BY Zenon DEF TmpTracked, TmpKept, At
<1>2. ASSUME NEW o \in disk'.tmp, db'.staging[o].state = "none" /\ boot' = "up"
      PROVE  \E p \in Procs : job'[p].pc = "a2" /\ o \in job'[p].outs
  <2>1. o \in disk.tmp /\ db.staging[o].state = "none" /\ boot = "up"
    BY <1>2, Zenon DEF TmpKept
  <2>2. PICK p \in Procs : job[p].pc = "a2" /\ o \in job[p].outs
    BY <2>1, Zenon DEF TmpTracked, At
  <2>3. job'[p] = job[p]
    BY <2>2, Zenon DEF TmpKept
  <2> QED BY <2>2, <2>3, Zenon
<1> QED BY <1>1, <1>2, Zenon DEF TmpTracked, At

\* A goroutine that is not about to write its intent.
LEMMA FinalizeTmp ==
  ASSUME AllCallsWork, FinalizeInv, TmpTracked, NEW p \in Procs, FinalizeStep(p)
  PROVE  TmpKept \/ PhaseA2(p)
<1>0. TypeOK /\ \A o \in Outputs : db.staging[o] \in StagingRow
  BY Zenon DEF FinalizeInv, TypeOK, Database
<1>1. CASE PhaseA2Fails(p)
  BY <1>1, Zenon DEF PhaseA2Fails, FinalizeInv, OneOwner, Owns, At, AllCallsWork
<1>2. ASSUME NEW o \in Outputs, Rename(p, o) PROVE TmpKept
  BY <1>0, <1>2, Zenon DEF Rename, TmpKept, TypeOK, Disk
<1>3. ASSUME NEW o \in Outputs, SyncRenamed(p, o) PROVE TmpKept
  BY <1>0, <1>3, Zenon DEF SyncRenamed, TmpKept, TypeOK, Disk, Job, At
<1>4. ASSUME NEW o \in Outputs, RenameFails(p, o) PROVE TmpKept
  BY <1>0, <1>4, Zenon DEF RenameFails, TmpKept, TypeOK, Job, At
<1>5. ASSUME NEW o \in Outputs, RevertRemove(p, o) PROVE TmpKept
  BY <1>0, <1>5, Zenon DEF RevertRemove, TmpKept, TypeOK, Disk, Job, At
<1>6. ASSUME NEW o \in Outputs, RecalcTTL(p, o) PROVE TmpKept
  <2>1. \A x \in Outputs : db'.staging[x].state = db.staging[x].state
    <3>1. \A x \in Outputs : db'.staging[x] \in {db.staging[x], Recalculated(db.staging[x])}
      BY <1>0, <1>6 DEF RecalcTTL, TypeOK, Database
    <3> QED BY <1>0, <3>1, RecalculatedState, Zenon
  <2>2. disk.tmp \subseteq Outputs /\ disk' = disk
    BY <1>0, <1>6, Zenon DEF TypeOK, Disk, RecalcTTL
  <2>3. \A q \in Procs : job'[q] = job[q] \/ (job[q].pc # "a2" /\ job'[q].pc # "a2")
    BY <1>0, <1>6, Zenon DEF RecalcTTL, TypeOK, Job, At, IdleJob
  <2> QED BY <2>1, <2>2, <2>3, Zenon DEF TmpKept
<1>7. CASE PhaseB1(p) \/ RevertTx(p) \/ CommitDone(p) \/ CommitDiscarded(p)
  <2>1. disk.tmp \subseteq Outputs /\ disk' = disk
    BY <1>0, <1>7, ZenonT(60) DEF TypeOK, Disk, PhaseB1, RevertTx, CommitDone, CommitDiscarded
  <2>2. \A q \in Procs : job'[q] = job[q] \/ (job[q].pc # "a2" /\ job'[q].pc # "a2")
    <3>1. CASE PhaseB1(p) BY <1>0, <3>1, Zenon DEF PhaseB1, TypeOK, Job, At
    <3>2. CASE RevertTx(p) BY <1>0, <3>2, Zenon DEF RevertTx, TypeOK, Job, At
    <3>3. CASE CommitDone(p) BY <1>0, <3>3, ZenonT(60) DEF CommitDone, TypeOK, Job, At, IdleJob
    <3>4. CASE CommitDiscarded(p) BY <1>0, <3>4, Zenon DEF CommitDiscarded, TypeOK, Job, At, IdleJob
    <3> QED BY <1>7, <3>1, <3>2, <3>3, <3>4, Zenon
  <2>3. ASSUME NEW x \in Outputs, db'.staging[x].state = "none" PROVE db.staging[x].state = "none"
    <3>1. CASE PhaseB1(p) BY <1>0, <2>3, <3>1, Zenon DEF PhaseB1, TypeOK, Database, StagingRow
    <3>2. CASE RevertTx(p) BY <1>0, <2>3, <3>2, Zenon DEF RevertTx, TypeOK, Database, StagingRow
    <3>3. CASE CommitDone(p) BY <1>0, <2>3, <3>3, ZenonT(60) DEF CommitDone, StagingRow
    <3>4. CASE CommitDiscarded(p) BY <1>0, <2>3, <3>4, Zenon DEF CommitDiscarded, TypeOK, Database, StagingRow
    <3> QED BY <1>7, <3>1, <3>2, <3>3, <3>4, Zenon
  <2> QED BY <2>1, <2>2, <2>3, Zenon DEF TmpKept
<1>8. CASE RenamesDone(p) \/ AppendDone(p)
  BY <1>0, <1>8, SMTT(40) DEF RenamesDone, AppendDone, TmpKept, TypeOK, Disk, Job, At, IdleJob
<1>9. CASE GiveUp(p)
  BY <1>0, <1>9, Zenon DEF GiveUp, TmpKept, TmpTracked, TypeOK, Job, At, IdleJob, AllCallsWork
<1> QED BY <1>1, <1>2, <1>3, <1>4, <1>5, <1>6, <1>7, <1>8, <1>9, Zenon DEF FinalizeStep

\* The other steps that leave .tmp files alone.
LEMMA OtherTmp ==
  ASSUME FinalizeInv, ReplayInv,
         \/ PickUp \/ (\E k \in Killers : KillOpen(k) \/ KillTx(k) \/ Disconnect(k))
         \/ DeleteRead \/ DeleteMark \/ CleanerPick \/ CleanerMark \/ CleanerDelete \/ CleanerRecalc
         \/ (\E o \in Outputs : CollectGarbage(o) \/ CatchUp(o) \/ CatchUpFails(o))
         \/ CatchUpDone \/ StartDaemon \/ RepairIntent \/ IntentsRepaired \/ EnsureTerminalEvents
         \/ UNCHANGED vars
  PROVE  TmpKept
<1>0. /\ TypeOK /\ (\A o \in Outputs : db.staging[o] \in StagingRow) /\ disk.tmp \subseteq Outputs
      /\ "waiter" \in Procs /\ "repair" \in Procs /\ Killers \subseteq Procs
  BY Zenon DEF FinalizeInv, TypeOK, Database, Disk, Procs
<1>a. ASSUME db'.staging = db.staging, disk' = disk, NEW p \in Procs,
             \A q \in Procs : q # p => job'[q] = job[q],
             job'[p] = job[p] \/ (job[p].pc # "a2" /\ job'[p].pc # "a2")
      PROVE  TmpKept
  BY <1>a, Zenon DEF TmpKept
<1>1. CASE PickUp
  <2>1. db'.staging = db.staging /\ disk' = disk
    BY <1>0, <1>1, Zenon DEF PickUp, TypeOK, Database
  <2>2. /\ job["waiter"].pc # "a2" /\ job'["waiter"].pc # "a2"
        /\ \A q \in Procs : q # "waiter" => job'[q] = job[q]
    BY <1>0, <1>1, Zenon DEF PickUp, TypeOK, Job, At
  <2> QED BY <1>0, <1>a, <2>1, <2>2, Zenon
<1>2. ASSUME NEW k \in Killers, KillOpen(k) \/ KillTx(k) \/ Disconnect(k) PROVE TmpKept
  <2>1. db'.staging = db.staging /\ disk' = disk
    BY <1>0, <1>2, ZenonT(60) DEF KillOpen, KillTx, Disconnect, TypeOK, Database
  <2>2. /\ job[k].pc # "a2" /\ job'[k].pc # "a2"
        /\ \A q \in Procs : q # k => job'[q] = job[q]
    <3>1. CASE KillOpen(k) BY <1>0, <3>1, Zenon DEF KillOpen, TypeOK, IdleJob, At
    <3>2. CASE KillTx(k)
      <4>1. job[k].pc # "a2" BY <3>2, ZenonT(60) DEF KillTx, At
      <4>2. \/ job' = [job EXCEPT ![k] = [IdleJob EXCEPT !.pc = "append", !.ev = job[k].ev]]
            \/ job' = [job EXCEPT ![k] = IdleJob]
        BY <3>2, ZenonT(60) DEF KillTx
      <4>3. k \in Procs BY <1>0, Zenon
      <4>4. CASE job' = [job EXCEPT ![k] = [IdleJob EXCEPT !.pc = "append", !.ev = job[k].ev]]
        BY <1>0, <4>1, <4>3, <4>4, Zenon DEF TypeOK, IdleJob
      <4>5. CASE job' = [job EXCEPT ![k] = IdleJob]
        BY <1>0, <4>1, <4>3, <4>5, Zenon DEF TypeOK, IdleJob
      <4> QED BY <4>2, <4>4, <4>5, Zenon
    <3>3. CASE Disconnect(k) BY <1>0, <3>3, Zenon DEF Disconnect, TypeOK, IdleJob
    <3> QED BY <1>2, <3>1, <3>2, <3>3, Zenon
  <2> QED BY <1>0, <1>a, <2>1, <2>2, Zenon
<1>3. CASE DeleteRead \/ DeleteMark \/ CleanerPick \/ CleanerMark \/ CleanerDelete
  <2>1. \A x \in Outputs : db'.staging[x].state = db.staging[x].state
    <3>1. CASE CleanerDelete
      BY <1>0, <3>1, ZenonT(60) DEF CleanerDelete, TypeOK, Database, StagingRow
    <3>2. CASE DeleteRead \/ DeleteMark \/ CleanerPick \/ CleanerMark
      BY <1>0, <3>2, Zenon DEF DeleteRead, DeleteMark, CleanerPick, CleanerMark, TypeOK, Database
    <3> QED BY <1>3, <3>1, <3>2, Zenon
  <2>2. disk' = disk /\ job' = job
    BY <1>3, Zenon DEF DeleteRead, DeleteMark, CleanerPick, CleanerMark, CleanerDelete
  <2> QED BY <1>0, <2>1, <2>2, Zenon DEF TmpKept
<1>4. CASE CleanerRecalc \/ \E o \in Outputs : DrainNeedsRecalc(o)
  <2>1. \A x \in Outputs : db'.staging[x].state = db.staging[x].state
    <3>1. \A x \in Outputs : db'.staging[x] \in {db.staging[x], Recalculated(db.staging[x])}
      BY <1>0, <1>4 DEF CleanerRecalc, DrainNeedsRecalc, TypeOK, Database
    <3> QED BY <1>0, <3>1, RecalculatedState, Zenon
  <2>2. disk' = disk /\ job' = job
    BY <1>4, Zenon DEF CleanerRecalc, DrainNeedsRecalc
  <2> QED BY <1>0, <2>1, <2>2, Zenon DEF TmpKept
<1>5. ASSUME NEW o \in Outputs, ExpireTTL(o) \/ DropStagingRow(o) PROVE TmpKept
  <2>1. /\ db.staging[o].state \in {"complete", "deleting"}
        /\ \A x \in Outputs : x # o => db'.staging[x] = db.staging[x]
    BY <1>0, <1>5, SMTT(40) DEF ExpireTTL, DropStagingRow, TypeOK, Database
  <2>2. o \notin disk.tmp
    BY <2>1, Zenon DEF ReplayInv, RowsHaveFiles
  <2>3. disk' = disk /\ job' = job
    BY <1>5, Zenon DEF ExpireTTL, DropStagingRow
  <2> QED BY <1>0, <2>1, <2>2, <2>3, Zenon DEF TmpKept
<1>6. ASSUME NEW o \in Outputs, Tombstone(o) \/ UnlinkTombstone(o) PROVE TmpKept
  <2>1. disk'.tmp \subseteq disk.tmp /\ disk'.file = disk.file
    <3>1. CASE Tombstone(o) BY <1>0, <3>1, Zenon DEF Tombstone, TypeOK, Disk
    <3>2. CASE UnlinkTombstone(o) BY <1>0, <3>2, Zenon DEF UnlinkTombstone, TypeOK, Disk
    <3> QED BY <1>6, <3>1, <3>2, Zenon
  <2>2. db' = db /\ job' = job
    BY <1>6, Zenon DEF Tombstone, UnlinkTombstone
  <2> QED BY <2>1, <2>2, Zenon DEF TmpKept
<1>7. ASSUME NEW o \in Outputs, CatchUp(o) \/ CatchUpFails(o) PROVE TmpKept
  <2>1. disk'.tmp \subseteq disk.tmp /\ disk'.file = disk.file /\ db' = db
    BY <1>0, <1>7, ZenonT(60) DEF CatchUp, CatchUpFails, TypeOK, Disk
  <2>2. /\ job["repair"].pc # "a2" /\ job'["repair"].pc # "a2"
        /\ \A q \in Procs : q # "repair" => job'[q] = job[q]
    BY <1>0, <1>7, ZenonT(60) DEF CatchUp, CatchUpFails, TypeOK, Job, At
  <2> QED BY <2>1, <2>2, Zenon DEF TmpKept
<1>8. CASE CatchUpDone
  BY <1>0, <1>8, Zenon DEF CatchUpDone, TmpKept, TypeOK, Job, At
<1>9. CASE StartDaemon \/ IntentsRepaired \/ EnsureTerminalEvents \/ UNCHANGED vars
  BY <1>0, <1>9, ZenonT(60) DEF StartDaemon, IntentsRepaired, EnsureTerminalEvents, vars, TmpKept, TypeOK, Disk
<1>10. CASE RepairIntent
  <2>1. ResumePoint(db.intent) # "a2"
    BY Zenon DEF ResumePoint
  <2>2. /\ job["repair"].pc # "a2" /\ job'["repair"].pc # "a2"
        /\ \A q \in Procs : q # "repair" => job'[q] = job[q]
    BY <1>0, <1>10, <2>1, ZenonT(60) DEF RepairIntent, TypeOK, FinalizeInv, BootAlone, At
  <2>3. db' = db /\ disk'.tmp = disk.tmp /\ disk'.file
    BY <1>0, <1>10, Zenon DEF RepairIntent, TypeOK, Disk
  <2> QED BY <2>2, <2>3, Zenon DEF TmpKept
<1> QED BY <1>1, <1>2, <1>3, <1>4, <1>5, <1>6, <1>7, <1>8, <1>9, <1>10, Zenon DEF CollectGarbage

\* Nobody is left to write a row for a .tmp file, and the listener is not open.
LEMMA NobodyWrites ==
  ASSUME \A q \in Procs : job'[q].pc # "a2",
         boot' = "up" => \A o \in disk'.tmp : db'.staging[o].state # "none"
  PROVE  TmpTracked'
BY Zenon DEF TmpTracked, At

\* Where PhaseA2 leaves its goroutine, and the others.
LEMMA PhaseA2Job ==
  ASSUME TypeOK, NEW p \in Procs, PhaseA2(p)
  PROVE  /\ job'[p].pc = IF job[p].outs = {} THEN "append" ELSE "b1"
         /\ \A q \in Procs : q # p => job'[q] = job[q]
BY Zenon DEF PhaseA2, TypeOK, Job

\* The waiter, from the exit of the process to its intent.
LEMMA WaiterTmp ==
  ASSUME FinalizeInv, ReplayInv, TmpTracked, ProcessExit \/ CapOutcome \/ \E p \in Procs : PhaseA2(p)
  PROVE  TmpTracked'
<1>0. TypeOK /\ "waiter" \in Procs
  BY Zenon DEF FinalizeInv, Procs
<1>1. CASE ProcessExit
  <2>1. PICK outs \in SUBSET Outputs :
          /\ job'["waiter"].pc = "a2" /\ job'["waiter"].outs = outs
          /\ disk'.tmp = disk.tmp \cup outs /\ disk'.file
    <3>1. PICK v \in {"success", "failed", "killed", "crashed"}, outs \in SUBSET Outputs :
            /\ job' = [job EXCEPT !["waiter"] =
                         [pc |-> "a2", ev |-> Now(v), outs |-> outs, todo |-> {}]]
            /\ disk' = [disk EXCEPT !.tmp = @ \cup outs, !.file = TRUE]
      BY <1>1, ZenonT(60) DEF ProcessExit
    <3>2. disk'.tmp = disk.tmp \cup outs /\ disk'.file
      BY <1>0, <3>1, Zenon DEF TypeOK, Disk
    <3>3. job'["waiter"].pc = "a2" /\ job'["waiter"].outs = outs
      BY <1>0, <3>1, Zenon DEF TypeOK
    <3> QED BY <3>2, <3>3, Zenon
  <2>2. At("waiter", "exec") /\ \A q \in Procs : q # "waiter" => job'[q] = job[q]
    BY <1>0, <1>1, ZenonT(60) DEF ProcessExit, TypeOK
  <2>3. db' = db /\ boot' = boot
    BY <1>1, ZenonT(60) DEF ProcessExit, life
  <2>4. \A o \in disk.tmp : ~(db.staging[o].state = "none" /\ boot = "up")
    BY <1>0, <2>2, ZenonT(60) DEF TmpTracked, FinalizeInv, OneOwner, Owns, At
  <2> QED BY <1>0, <2>1, <2>3, <2>4, Zenon DEF TmpTracked, At
<1>2. CASE CapOutcome
  <2>1. /\ disk'.tmp = disk.tmp \ job["waiter"].outs /\ disk'.file = disk.file
        /\ db' = db /\ boot' = boot
    BY <1>0, <1>2, Zenon DEF CapOutcome, TypeOK, Disk, life
  <2>2. At("waiter", "a2") /\ disk.file
    BY <1>0, <1>2, Zenon DEF CapOutcome, TmpTracked
  <2>3. \A o \in disk'.tmp : ~(db.staging[o].state = "none" /\ boot = "up")
    BY <1>0, <2>1, <2>2, ZenonT(60) DEF TmpTracked, FinalizeInv, OneOwner, Owns, At
  <2> QED BY <2>1, <2>2, <2>3, Zenon DEF TmpTracked
<1>3. ASSUME NEW p \in Procs, PhaseA2(p) PROVE TmpTracked'
  <2>1. At(p, "a2") /\ disk' = disk /\ boot' = boot
    BY <1>3, ZenonT(60) DEF PhaseA2, life
  <2>2. \A q \in Procs : job'[q].pc # "a2"
    <3>1. \A q \in Procs : q # p => job[q].pc # "a2"
      BY <2>1, Zenon DEF FinalizeInv, OneOwner, Owns, At
    <3>2. /\ job'[p].pc = IF job[p].outs = {} THEN "append" ELSE "b1"
          /\ \A q \in Procs : q # p => job'[q] = job[q]
      BY <1>0, <1>3, PhaseA2Job, Zenon
    <3> QED BY <3>1, <3>2, Zenon
  <2>3. \A o \in Outputs : db'.staging[o].state = IF o \in job[p].outs THEN "pending_output"
                                                  ELSE db.staging[o].state
    BY <1>0, <1>3, ZenonT(60) DEF PhaseA2, TypeOK, Database
  <2>4. disk.tmp \subseteq Outputs
    BY <1>0, Zenon DEF TypeOK, Disk
  <2>5. boot = "up" => \A o \in disk.tmp : db.staging[o].state = "none" => o \in job[p].outs
    BY <2>1, Zenon DEF TmpTracked, FinalizeInv, OneOwner, Owns, At
  <2> QED BY <2>1, <2>2, <2>3, <2>4, <2>5, NobodyWrites, Zenon
<1> QED BY <1>1, <1>2, <1>3, Zenon

\* The sweeps and the cleaner take files only where nobody writes.
LEMMA SweepTmp ==
  ASSUME FinalizeInv, TmpTracked,
         CleanerFiles \/ EventsLost \/ Crash \/ SweepRunningToLost \/ SweepOrphans
  PROVE  TmpTracked'
<1>0. TypeOK /\ "repair" \in Procs
  BY Zenon DEF FinalizeInv, Procs
<1>1. CASE CleanerFiles
  <2>1. \A q \in Procs : job'[q].pc # "a2"
    BY <1>1, Zenon DEF CleanerFiles, FinalizeInv, CleanerOwnsRow, OneOwner, Owns
  <2>2. db' = db /\ boot' = boot /\ disk'.tmp = disk.tmp /\ job' = job
    BY <1>0, <1>1, Zenon DEF CleanerFiles, TypeOK, Disk, life
  <2> QED BY <2>1, <2>2, NobodyWrites, Zenon DEF TmpTracked, At
<1>2. CASE EventsLost \/ Crash
  <2>1. (\A q \in Procs : job'[q].pc # "a2") /\ boot' # "up"
    BY <1>2, SMTT(40) DEF EventsLost, Crash, Die, FinalizeInv, BootAlone, At, IdleJob, life
  <2> QED BY <2>1, NobodyWrites, Zenon
<1>3. CASE SweepRunningToLost
  <2>1. disk.file => disk'.file
    BY <1>0, <1>3, Zenon DEF SweepRunningToLost, TypeOK, Disk
  <2>2. job' = job \/ disk'.file
    BY <1>0, <1>3, Zenon DEF SweepRunningToLost, TypeOK, Disk
  <2>3. boot' # "up"
    BY <1>3, Zenon DEF SweepRunningToLost
  <2> QED BY <2>1, <2>2, <2>3, Zenon DEF TmpTracked, At
<1>4. CASE SweepOrphans
  <2>1. \A q \in Procs : job'[q].pc # "a2"
    BY <1>4, Zenon DEF SweepOrphans, FinalizeInv, BootAlone, At
  <2>2. \A x \in Outputs : db'.staging[x].state = db.staging[x].state
    <3>1. \A x \in Outputs : db'.staging[x] \in {db.staging[x], Recalculated(db.staging[x])}
      BY <1>0, <1>4, Zenon DEF SweepOrphans, TypeOK, Database
    <3>2. \A x \in Outputs : db.staging[x] \in StagingRow
      BY <1>0, Zenon DEF TypeOK, Database
    <3> QED BY <3>1, <3>2, RecalculatedState, Zenon
  <2>3. \A o \in disk'.tmp : o \in Outputs /\ db.staging[o].state # "none"
    BY <1>0, <1>4, Zenon DEF SweepOrphans, TypeOK, Disk
  <2> QED BY <2>1, <2>2, <2>3, NobodyWrites, Zenon
<1> QED BY <1>1, <1>2, <1>3, <1>4, Zenon

\* TmpTracked holds in every reachable state.
THEOREM TmpInvariance == ASSUME NoDamage, AllCallsWork PROVE Spec => []TmpTracked
<1>1. Init => TmpTracked
  BY DEF Init, TmpTracked, At, IdleJob
<1>2. ASSUME FinalizeInv, ReplayInv, TmpTracked, [Next]_vars PROVE TmpTracked'
  <2>1. CASE TmpKept /\ ~SweepOrphans
    BY <1>2, <2>1, Boots, TmpKeptStep, Zenon
  <2>2. ASSUME NEW p \in Procs, FinalizeStep(p) PROVE TmpTracked'
    <3>1. TmpKept \/ PhaseA2(p)
      BY <1>2, <2>2, FinalizeTmp, Zenon
    <3> QED BY <1>2, <2>1, <3>1, WaiterTmp, SweepTmp, Zenon
  <2>3. CASE Cleanup
    BY <1>2, <2>1, <2>3, OtherTmp, SweepTmp, Zenon DEF Cleanup
  <2>4. CASE StartUp
    BY <1>2, <2>1, <2>4, OtherTmp, SweepTmp, Zenon DEF StartUp
  <2>5. CASE Failure
    BY <1>2, <2>5, SweepTmp, ZenonT(60) DEF Failure, Checkpoint, PowerLoss, DiskDamage, NoDamage
  <2>6. CASE \E o \in Outputs : CollectGarbage(o)
    BY <1>2, <2>1, <2>6, OtherTmp, SweepTmp, Zenon
  <2>7. CASE ProcessExit \/ CapOutcome
    BY <1>2, <2>7, WaiterTmp, Zenon
  <2>8. CASE \/ PickUp \/ DeleteRead \/ DeleteMark \/ UNCHANGED vars
             \/ \E k \in Killers : KillOpen(k) \/ KillTx(k) \/ Disconnect(k)
    BY <1>2, <2>1, <2>8, OtherTmp, SweepTmp, Zenon
  <2> QED BY <1>2, <2>2, <2>3, <2>4, <2>5, <2>6, <2>7, <2>8, Zenon DEF Next
<1> QED BY <1>1, <1>2, Invariance, ReplayInvariance, PTL DEF Spec

\* No output becomes complete without its file, and when nothing is being finalized no
\* .tmp file is left that no row names, wherever crashes have interrupted finalize, repair
\* and sweeps, and whatever was deleted or lost of the events meanwhile.
THEOREM FilesMatchRows == ASSUME NoDamage, AllCallsWork PROVE Spec => []OutputFilesMatchRows
<1>1. FinalizeInv /\ ReplayInv /\ TmpTracked => OutputFilesMatchRows
  <2> SUFFICES ASSUME FinalizeInv, ReplayInv, TmpTracked PROVE OutputFilesMatchRows
    BY Zenon
  <2>1. CommittedOutputsOnDisk
    BY Zenon DEF ReplayInv, RowsHaveFiles
  <2>2. NoStrandedTmp
    BY Zenon DEF ReplayInv, RowsHaveFiles, TmpTracked, NoStrandedTmp, Quiet, InPhaseB, At
  <2> QED BY <2>1, <2>2, Zenon DEF OutputFilesMatchRows
<1> QED BY <1>1, Invariance, ReplayInvariance, TmpInvariance, PTL

=============================================================================
