---------------------------- MODULE OutcomeProofs ----------------------------
(***************************************************************************)
(* What a mission's outcome promises, for every set of outputs, every      *)
(* number of concurrent kill requests and every number of crashes:         *)
(*   - Finalize implements MissionOutcome, with failing system calls,      *)
(*     damaged outputs and disconnecting clients, as long as nothing that  *)
(*     was synced is lost: neither the tail of the write-ahead log         *)
(*     (powerLoss) nor an events file (eventsLost).  The inductive         *)
(*     invariant is StoryInv, on top of FinalizeInv;                       *)
(*   - the stream of a done mission ends with its done event (Told);       *)
(*   - an output is committed with the declared content (IntactInv).       *)
(***************************************************************************)
EXTENDS FinalizeProofs

NothingLost == "powerLoss" \notin Faults /\ "eventsLost" \notin Faults

\* Writing, renaming, syncing and opening files works.
AllCallsWork == "ioError" \notin Faults

-----------------------------------------------------------------------------
(* Most steps neither tell nor store an outcome.                           *)

SameStream == seen' = seen /\ disk'.done = disk.done

\* The row may be picked up, and a live one may get an intent.
SameOutcome ==
    /\ db'.result = db.result
    /\ db'.status = db.status \/ (db.status = "queued" /\ db'.status = "running")
    /\ db'.intent = None => db.intent = None
    /\ db'.intent # None => db.intent # None \/ db.status \in {"queued", "running"}

NoNewCommit ==
    \A q \in Procs : job'[q].pc = "commit" => job[q].pc = "commit" /\ job'[q].ev = job[q].ev

Untold == SameStream /\ SameOutcome /\ NoNewCommit

\* The steps that tell, store, or remove.
Telling ==
    \/ \E p \in Procs : AppendDone(p) \/ CommitDone(p) \/ CommitDiscarded(p)
    \/ DeleteMark \/ CleanerMark \/ CleanerFiles \/ CleanerDelete
    \/ EnsureTerminalEvents \/ SweepOrphans

\* The steps of finalize between its two ends.
LEMMA FinalizeUntold ==
  ASSUME FinalizeInv, NEW p \in Procs, FinalizeStep(p)
  PROVE  Untold \/ AppendDone(p) \/ CommitDone(p) \/ CommitDiscarded(p)
<1> TypeOK BY Zenon DEF FinalizeInv
<1>1. CASE PhaseA2(p)
  <2>1. SameStream BY <1>1, Zenon DEF PhaseA2, SameStream
  <2>2. SameOutcome
    BY <1>1, Zenon DEF PhaseA2, SameOutcome, TypeOK, Database, FinalizeInv, OneOwner, Owns, At
  <2>3. NoNewCommit BY <1>1, Zenon DEF PhaseA2, NoNewCommit, TypeOK, Job, At
  <2> QED BY <2>1, <2>2, <2>3, Zenon DEF Untold
<1>2. CASE PhaseB1(p)
  <2>1. SameStream BY <1>2, Zenon DEF PhaseB1, SameStream
  <2>2. SameOutcome BY <1>2, ConstantsOK, Zenon DEF PhaseB1, SameOutcome, TypeOK, Database, Intent
  <2>3. NoNewCommit BY <1>2, Zenon DEF PhaseB1, NoNewCommit, TypeOK, Job, At
  <2> QED BY <2>1, <2>2, <2>3, Zenon DEF Untold
<1>3. CASE RevertTx(p)
  <2>1. SameStream BY <1>3, Zenon DEF RevertTx, SameStream
  <2>2. db.intent # None /\ db'.intent # None
    <3>1. db.intent # None BY <1>3, Zenon DEF RevertTx, FinalizeInv, OneFinalizer, Holds, At
    <3>2. Now("output_commit_failed") \in Event BY EventType, Zenon DEF Verdicts
    <3>3. db'.intent = [phase |-> "prepared", ev |-> Now("output_commit_failed"), outs |-> {}]
      BY <1>3, <3>1, Zenon DEF RevertTx, TypeOK, Database
    <3> QED BY <3>1, <3>2, <3>3, ConstantsOK DEF Intent
  <2>4. db'.result = db.result /\ db'.status = db.status
    BY <1>3, Zenon DEF RevertTx, TypeOK, Database
  <2>5. SameOutcome BY <2>2, <2>4, Zenon DEF SameOutcome
  <2>3. NoNewCommit BY <1>3, Zenon DEF RevertTx, NoNewCommit, TypeOK, Job, At
  <2> QED BY <2>1, <2>3, <2>5, Zenon DEF Untold
<1>4. CASE PhaseA2Fails(p) \/ RenamesDone(p) \/ GiveUp(p)
  <2>1. SameStream BY <1>4, Zenon DEF PhaseA2Fails, RenamesDone, GiveUp, SameStream, TypeOK, Disk
  <2>2. SameOutcome BY <1>4, Zenon DEF PhaseA2Fails, RenamesDone, GiveUp, SameOutcome
  <2>3. NoNewCommit
    BY <1>4 DEF PhaseA2Fails, RenamesDone, GiveUp, NoNewCommit, TypeOK, Job, At, IdleJob
  <2> QED BY <2>1, <2>2, <2>3, Zenon DEF Untold
<1>5. ASSUME NEW o \in Outputs, Rename(p, o) \/ SyncRenamed(p, o) \/ RenameFails(p, o)
                                \/ RevertRemove(p, o)
      PROVE  Untold
  <2>1. SameStream
    BY <1>5, ZenonT(30) DEF Rename, SyncRenamed, RenameFails, RevertRemove, SameStream, TypeOK, Disk
  <2>2. SameOutcome BY <1>5, Zenon DEF Rename, SyncRenamed, RenameFails, RevertRemove, SameOutcome
  <2>3. NoNewCommit
    BY <1>5 DEF Rename, SyncRenamed, RenameFails, RevertRemove, NoNewCommit, TypeOK, Job, At
  <2> QED BY <2>1, <2>2, <2>3, Zenon DEF Untold
<1>6. ASSUME NEW o \in Outputs, RecalcTTL(p, o) PROVE Untold
  <2>1. SameStream BY <1>6, Zenon DEF RecalcTTL, SameStream
  <2>2. SameOutcome BY <1>6, Zenon DEF RecalcTTL, SameOutcome, TypeOK, Database
  <2>3. NoNewCommit BY <1>6, Zenon DEF RecalcTTL, NoNewCommit, TypeOK, Job, At, IdleJob
  <2> QED BY <2>1, <2>2, <2>3, Zenon DEF Untold
<1> QED BY <1>1, <1>2, <1>3, <1>4, <1>5, <1>6, Zenon DEF FinalizeStep

\* The kill requests, the waiter, and the first half of a deletion.
LEMMA RequestUntold ==
  ASSUME FinalizeInv,
         (\E k \in Killers : KillOpen(k) \/ KillTx(k) \/ Disconnect(k))
            \/ PickUp \/ ProcessExit \/ CapOutcome \/ DeleteRead
  PROVE  Untold
<1> TypeOK BY Zenon DEF FinalizeInv
<1>0. ASSUME NEW p \in Procs, NEW j, job' = [job EXCEPT ![p] = j], j.pc # "commit"
      PROVE  NoNewCommit
  BY <1>0, Zenon DEF NoNewCommit, TypeOK
<1>1. ASSUME NEW k \in Killers, KillOpen(k) \/ Disconnect(k) PROVE Untold
  <2>1. SameStream /\ SameOutcome BY <1>1, Zenon DEF KillOpen, Disconnect, SameStream, SameOutcome
  <2>2. NoNewCommit
    <3>1. k \in Procs BY Zenon DEF Procs
    <3>2. CASE KillOpen(k)
      <4>1. job' = [job EXCEPT ![k] = [IdleJob EXCEPT !.pc = "kill", !.ev = Now("killed")]]
        BY <3>2, Zenon DEF KillOpen
      <4>2. [IdleJob EXCEPT !.pc = "kill", !.ev = Now("killed")].pc # "commit" BY Zenon DEF IdleJob
      <4> QED BY <1>0, <3>1, <4>1, <4>2, ZenonT(30)
    <3>3. CASE Disconnect(k)
      <4>1. job' = [job EXCEPT ![k] = IdleJob] BY <3>3, Zenon DEF Disconnect
      <4>2. IdleJob.pc # "commit" BY Zenon DEF IdleJob
      <4> QED BY <1>0, <3>1, <4>1, <4>2, ZenonT(30)
    <3> QED BY <1>1, <3>2, <3>3, Zenon
  <2> QED BY <2>1, <2>2, Zenon DEF Untold
<1>2. ASSUME NEW k \in Killers, KillTx(k) PROVE Untold
  <2>1. SameStream BY <1>2, ZenonT(60) DEF KillTx, SameStream
  <2>2. SameOutcome BY <1>2, ZenonT(60) DEF KillTx, SameOutcome, TypeOK, Database
  <2>3. NoNewCommit
    <3>1. k \in Procs BY Zenon DEF Procs
    <3>2. [IdleJob EXCEPT !.pc = "append", !.ev = job[k].ev].pc # "commit" /\ IdleJob.pc # "commit"
      BY Zenon DEF IdleJob
    <3>3. \/ job' = [job EXCEPT ![k] = [IdleJob EXCEPT !.pc = "append", !.ev = job[k].ev]]
          \/ job' = [job EXCEPT ![k] = IdleJob]
      BY <1>2, ZenonT(60) DEF KillTx
    <3> QED BY <1>0, <3>1, <3>2, <3>3, ZenonT(30)
  <2> QED BY <2>1, <2>2, <2>3, Zenon DEF Untold
<1>3. CASE PickUp
  <2>1. SameStream BY <1>3, Zenon DEF PickUp, SameStream
  <2>2. SameOutcome BY <1>3, Zenon DEF PickUp, SameOutcome, TypeOK, Database
  <2>3. NoNewCommit BY <1>3, Zenon DEF PickUp, NoNewCommit, TypeOK, Job, Procs
  <2> QED BY <2>1, <2>2, <2>3, Zenon DEF Untold
<1>4. CASE ProcessExit \/ CapOutcome
  <2> "waiter" \in Procs BY Zenon DEF Procs
  <2>1. SameStream BY <1>4, ZenonT(60) DEF ProcessExit, CapOutcome, SameStream, TypeOK, Disk
  <2>2. SameOutcome BY <1>4, ZenonT(60) DEF ProcessExit, CapOutcome, SameOutcome
  <2>3. NoNewCommit
    <3>1. CASE ProcessExit
      <4>1. PICK v \in Verdicts, outs \in SUBSET Outputs :
              job' = [job EXCEPT !["waiter"] =
                        [pc |-> "a2", ev |-> Now(v), outs |-> outs, todo |-> {}]]
        BY <3>1, Zenon DEF ProcessExit, Verdicts
      <4>2. [pc |-> "a2", ev |-> Now(v), outs |-> outs, todo |-> {}].pc # "commit"
        BY Zenon
      <4> QED BY <1>0, <4>1, <4>2, ZenonT(30)
    <3>2. CASE CapOutcome
      BY <3>2, Zenon DEF CapOutcome, NoNewCommit, TypeOK, Job, At
    <3> QED BY <1>4, <3>1, <3>2, Zenon
  <2> QED BY <2>1, <2>2, <2>3, Zenon DEF Untold
<1>5. CASE DeleteRead
  BY <1>5, Zenon DEF DeleteRead, Untold, SameStream, SameOutcome, NoNewCommit
<1> QED BY <1>1, <1>2, <1>3, <1>4, <1>5, Zenon

\* The cleaner's and the collector's steps on staging rows and files.
LEMMA GarbageUntold ==
  ASSUME FinalizeInv,
         CleanerPick \/ CleanerRecalc \/ (\E o \in Outputs : CollectGarbage(o))
  PROVE  Untold
<1> TypeOK BY Zenon DEF FinalizeInv
<1>1. CASE CleanerPick
  BY <1>1, Zenon DEF CleanerPick, Untold, SameStream, SameOutcome, NoNewCommit
<1>2. CASE CleanerRecalc
  <2>1. SameStream /\ NoNewCommit BY <1>2, Zenon DEF CleanerRecalc, SameStream, NoNewCommit
  <2>2. SameOutcome BY <1>2, Zenon DEF CleanerRecalc, SameOutcome, TypeOK, Database
  <2> QED BY <2>1, <2>2, Zenon DEF Untold
<1>3. ASSUME NEW o \in Outputs, DrainNeedsRecalc(o) \/ ExpireTTL(o) \/ DropStagingRow(o)
      PROVE  Untold
  <2>1. SameStream /\ NoNewCommit
    BY <1>3, Zenon DEF DrainNeedsRecalc, ExpireTTL, DropStagingRow, SameStream, NoNewCommit
  <2>2. SameOutcome
    BY <1>3, Zenon DEF DrainNeedsRecalc, ExpireTTL, DropStagingRow, SameOutcome, TypeOK, Database
  <2> QED BY <2>1, <2>2, Zenon DEF Untold
<1>4. ASSUME NEW o \in Outputs, Tombstone(o) \/ UnlinkTombstone(o) PROVE Untold
  <2>1. SameStream BY <1>4, ZenonT(30) DEF Tombstone, UnlinkTombstone, SameStream, TypeOK, Disk
  <2>2. SameOutcome /\ NoNewCommit
    BY <1>4, Zenon DEF Tombstone, UnlinkTombstone, SameOutcome, NoNewCommit
  <2> QED BY <2>1, <2>2, Zenon DEF Untold
<1> QED BY <1>1, <1>2, <1>3, <1>4, Zenon DEF CollectGarbage

\* The sweeps of a start that resume an intent, or find none.
LEMMA StartUntold ==
  ASSUME FinalizeInv,
         \/ StartDaemon \/ RepairIntent \/ CatchUpDone \/ IntentsRepaired \/ SweepRunningToLost
         \/ \E o \in Outputs : CatchUp(o) \/ CatchUpFails(o)
  PROVE  Untold
<1> TypeOK BY Zenon DEF FinalizeInv
<1> "repair" \in Procs BY Zenon DEF Procs
<1>0. ASSUME NEW j, job' = [job EXCEPT !["repair"] = j], j.pc # "commit" PROVE NoNewCommit
  BY <1>0, Zenon DEF NoNewCommit, TypeOK
<1>1. CASE StartDaemon \/ IntentsRepaired
  BY <1>1, Zenon DEF StartDaemon, IntentsRepaired, Untold, SameStream, SameOutcome, NoNewCommit
<1>2. CASE RepairIntent
  <2>1. SameStream /\ SameOutcome
    BY <1>2, Zenon DEF RepairIntent, SameStream, SameOutcome, TypeOK, Disk
  <2>2. PICK pc \in {"catchup", "append", "b1", "revert"} :
          job' = [job EXCEPT !["repair"] = [pc |-> pc, ev |-> db.intent.ev,
                                            outs |-> db.intent.outs, todo |-> db.intent.outs]]
    BY <1>2, ZenonT(30) DEF RepairIntent, ResumePoint
  <2>3. [pc |-> pc, ev |-> db.intent.ev,
         outs |-> db.intent.outs, todo |-> db.intent.outs].pc # "commit"
    BY Zenon
  <2> QED BY <1>0, <2>1, <2>2, <2>3, ZenonT(30) DEF Untold
<1>3. CASE CatchUpDone
  <2>1. NoNewCommit BY <1>3, Zenon DEF CatchUpDone, NoNewCommit, TypeOK, Job, At
  <2> QED BY <1>3, <2>1, Zenon DEF CatchUpDone, Untold, SameStream, SameOutcome
<1>4. CASE SweepRunningToLost
  <2>1. SameStream /\ SameOutcome
    BY <1>4, Zenon DEF SweepRunningToLost, SameStream, SameOutcome, TypeOK, Disk
  <2>2. [IdleJob EXCEPT !.pc = "a2", !.ev = Now("lost")].pc # "commit" BY Zenon DEF IdleJob
  <2>3. \/ job' = [job EXCEPT !["repair"] = [IdleJob EXCEPT !.pc = "a2", !.ev = Now("lost")]]
        \/ job' = job
    BY <1>4, Zenon DEF SweepRunningToLost
  <2>4. NoNewCommit BY <1>0, <2>2, <2>3, ZenonT(30) DEF NoNewCommit
  <2> QED BY <2>1, <2>4, Zenon DEF Untold
<1>5. ASSUME NEW o \in Outputs, CatchUp(o) \/ CatchUpFails(o) PROVE Untold
  <2>1. SameStream BY <1>5, ZenonT(60) DEF CatchUp, CatchUpFails, SameStream, TypeOK, Disk
  <2>2. SameOutcome BY <1>5, ZenonT(60) DEF CatchUp, CatchUpFails, SameOutcome
  <2>3. NoNewCommit BY <1>5, ZenonT(60) DEF CatchUp, CatchUpFails, NoNewCommit, TypeOK, Job, At
  <2> QED BY <2>1, <2>2, <2>3, Zenon DEF Untold
<1> QED BY <1>1, <1>2, <1>3, <1>4, <1>5, Zenon

\* A crash loses what is in memory, and no more.
LEMMA FailureUntold ==
  ASSUME FinalizeInv, NothingLost, Failure
  PROVE  Untold
<1> TypeOK BY Zenon DEF FinalizeInv
<1>1. CASE Crash
  <2>1. \A q \in Procs : job'[q] = IdleJob BY <1>1, Zenon DEF Crash, Die
  <2>2. NoNewCommit BY <2>1 DEF NoNewCommit, IdleJob
  <2> QED BY <1>1, <2>2, Zenon DEF Crash, Die, Untold, SameStream, SameOutcome
<1>2. ASSUME NEW o \in Outputs, DiskDamage(o) PROVE Untold
  <2>1. SameStream BY <1>2, ZenonT(30) DEF DiskDamage, SameStream, TypeOK, Disk
  <2> QED BY <1>2, <2>1, Zenon DEF DiskDamage, Untold, SameOutcome, NoNewCommit
<1> QED BY <1>1, <1>2, ZenonT(60) DEF Failure, NothingLost, Checkpoint, PowerLoss, EventsLost

\* Every step tells nothing, or is one of the nine that do more.
LEMMA StepKinds ==
  ASSUME FinalizeInv, NothingLost, [Next]_vars
  PROVE  Untold \/ Telling
<1>1. CASE UNCHANGED vars
  BY <1>1, Zenon DEF vars, Untold, SameStream, SameOutcome, NoNewCommit
<1>2. CASE \E p \in Procs : FinalizeStep(p)
  BY <1>2, FinalizeUntold, Zenon DEF Telling
<1>3. CASE Cleanup
  BY <1>3, GarbageUntold, Zenon DEF Cleanup, Telling
<1>4. CASE StartUp
  BY <1>4, StartUntold, Zenon DEF StartUp, Telling
<1>5. CASE DeleteMark
  BY <1>5, Zenon DEF Telling
<1> QED BY <1>1, <1>2, <1>3, <1>4, <1>5, RequestUntold, GarbageUntold, FailureUntold, Zenon DEF Next

-----------------------------------------------------------------------------
(* StoryInv is inductive, and every step is one of MissionOutcome's.       *)

AbstractStep == [Outcome!OutcomeNext]_<<seen, RowView, db.result>>

\* A step that tells and stores nothing.
LEMMA UntoldStory ==
  ASSUME StoryInv, Untold
  PROVE  StoryInv' /\ AbstractStep
<1> USE DEF Untold
<1>1. seen' = seen /\ disk'.done = disk.done /\ db'.result = db.result
  BY Zenon DEF SameStream, SameOutcome
<1>2. /\ OneStory' /\ (disk'.done # None => disk'.done \in seen')
      /\ db'.result # None => db'.result \in seen'
  BY <1>1, Zenon DEF StoryInv, OneStory
<1>3. seen' # {} /\ disk'.done = None => db'.status \in {"deleting", "gone"} /\ db'.intent = None
  BY <1>1, Zenon DEF StoryInv, SameOutcome
<1>4. \A q \in Procs : job'[q].pc = "commit" => job'[q].ev \in seen'
  BY <1>1, Zenon DEF StoryInv, NoNewCommit, At
<1>5. db'.status \in {"queued", "running"} /\ db'.intent = None => seen' = {}
  BY <1>1, Zenon DEF StoryInv, SameOutcome
<1>6. RowView' = RowView
  BY Zenon DEF SameOutcome, RowView
<1> QED BY <1>1, <1>2, <1>3, <1>4, <1>5, <1>6, Zenon DEF StoryInv, At, AbstractStep

\* The done event is appended: it is the first, or the one that is there, or it is
\* refused.
LEMMA AppendDoneStory ==
  ASSUME FinalizeInv, StoryInv, NEW p \in Procs, AppendDone(p)
  PROVE  StoryInv' /\ AbstractStep
<1> TypeOK BY Zenon DEF FinalizeInv
<1>1. db' = db /\ db.intent # None /\ job[p].ev \in Event
  BY Zenon DEF AppendDone, FinalizeInv, OneFinalizer, JobsCarryEvents, Holds, At
<1>2. CASE disk.done \in {None, job[p].ev}
  <2>1. disk'.done = job[p].ev /\ seen' = seen \cup {job[p].ev}
    BY <1>2, Zenon DEF AppendDone, TypeOK, Disk
  <2>2. seen \in {{}, {job[p].ev}} /\ seen' = {job[p].ev}
    <3>1. seen \subseteq {job[p].ev} BY <1>1, <1>2, Zenon DEF StoryInv, OneStory
    <3> QED BY <2>1, <3>1, Zenon
  <2>3. \A q \in Procs : job'[q].pc = "commit" => job'[q].ev \in seen'
    <3>1. job' = [job EXCEPT ![p].pc = "commit"] BY <1>2, Zenon DEF AppendDone
    <3>2. \A q \in Procs : job[q].pc = "commit" => q = p
      BY Zenon DEF AppendDone, FinalizeInv, OneFinalizer, Holds, At
    <3> QED BY <2>2, <3>1, <3>2, Zenon DEF TypeOK, Job
  <2>4. job[p].ev # None BY <1>1, ConstantsOK, Zenon
  <2>5. StoryInv'
    BY <1>1, <2>1, <2>2, <2>3, <2>4, Zenon DEF StoryInv, OneStory, At
  <2>6. RowView' = RowView BY <1>1, Zenon DEF RowView
  <2>7. AbstractStep
    BY <1>1, <2>2, <2>6, Zenon DEF AbstractStep, Outcome!OutcomeNext, Outcome!Publish
  <2> QED BY <2>5, <2>7, Zenon
<1>3. CASE disk.done \notin {None, job[p].ev}
  <2>1. job' = [job EXCEPT ![p] = IdleJob] /\ UNCHANGED <<db, disk, seen>>
    BY <1>3, Zenon DEF AppendDone
  <2>2. NoNewCommit
    BY <2>1, Zenon DEF NoNewCommit, TypeOK, IdleJob
  <2>3. Untold
    BY <2>1, <2>2, Zenon DEF Untold, SameStream, SameOutcome
  <2> QED BY <2>3, UntoldStory, Zenon
<1> QED BY <1>2, <1>3, Zenon

\* The outcome that was told is stored.
LEMMA CommitDoneStory ==
  ASSUME FinalizeInv, StoryInv, NEW p \in Procs, CommitDone(p)
  PROVE  StoryInv' /\ AbstractStep
<1> TypeOK BY Zenon DEF FinalizeInv
<1>1. /\ db.status \in {"queued", "running"} /\ db'.status = "done"
      /\ db'.result = job[p].ev /\ UNCHANGED <<disk, seen>>
  BY ZenonT(60) DEF CommitDone
<1>2. job[p].ev \in seen BY ZenonT(60) DEF CommitDone, StoryInv
<1>3. \A q \in Procs : job'[q].pc # "commit"
  <2>1. \A q \in Procs : job[q].pc = "commit" => q = p
    BY ZenonT(60) DEF CommitDone, FinalizeInv, OneFinalizer, Holds, At
  <2>2. \A q \in Procs : q # p => job'[q] = job[q]
    BY ZenonT(60) DEF CommitDone, TypeOK
  <2>3. job'[p].pc # "commit"
    BY ZenonT(60) DEF CommitDone, TypeOK, Job, IdleJob
  <2> QED BY <2>1, <2>2, <2>3, Zenon
<1>4. StoryInv'
  BY <1>1, <1>2, <1>3, Zenon DEF StoryInv, OneStory, At
<1>5. RowView = "live" /\ RowView' = "done"
  BY <1>1, Zenon DEF RowView
<1>6. AbstractStep
  BY <1>1, <1>2, <1>5, Zenon DEF AbstractStep, Outcome!OutcomeNext, Outcome!Settle
<1> QED BY <1>4, <1>6, Zenon

\* The outcome of a mission that is being deleted is discarded.
LEMMA CommitDiscardedStory ==
  ASSUME FinalizeInv, StoryInv, NEW p \in Procs, CommitDiscarded(p)
  PROVE  StoryInv' /\ AbstractStep
<1> TypeOK BY Zenon DEF FinalizeInv
<1>1. db.intent # None
  BY Zenon DEF CommitDiscarded, FinalizeInv, OneFinalizer, Holds, At
<1>2. db.status = "deleting"
  BY <1>1, Zenon DEF CommitDiscarded, FinalizeInv, RowsConsistent, TypeOK, Database
<1>3. /\ db'.status = db.status /\ db'.result = db.result /\ db'.intent = None
      /\ UNCHANGED <<disk, seen>>
  BY Zenon DEF CommitDiscarded, TypeOK, Database
<1>4. NoNewCommit
  BY Zenon DEF CommitDiscarded, NoNewCommit, TypeOK, IdleJob
<1>5. \A q \in Procs : job'[q].pc = "commit" => job'[q].ev \in seen'
  BY <1>3, <1>4, Zenon DEF StoryInv, NoNewCommit, At
<1>6. StoryInv'
  BY <1>2, <1>3, <1>5, Zenon DEF StoryInv, OneStory, At
<1>7. RowView' = RowView BY <1>3, Zenon DEF RowView
<1> QED BY <1>3, <1>6, <1>7, Zenon DEF AbstractStep

\* A row is marked for deletion, or was so already.
LEMMA MarkStory ==
  ASSUME FinalizeInv, StoryInv, DeleteMark \/ CleanerMark
  PROVE  StoryInv' /\ AbstractStep
<1> TypeOK BY Zenon DEF FinalizeInv
<1>1. UNCHANGED <<disk, seen, job>>
  BY Zenon DEF DeleteMark, CleanerMark
<1>2. CASE db' = db
  BY <1>1, <1>2, UntoldStory, Zenon DEF Untold, SameStream, SameOutcome, NoNewCommit
<1>3. CASE db.status \in {"queued", "done"} /\ db' = [db EXCEPT !.status = "deleting"]
  <2>1. /\ db'.status = "deleting" /\ db'.result = db.result /\ db'.intent = db.intent
    BY <1>3, Zenon DEF TypeOK, Database
  <2>2. StoryInv'
    BY <1>1, <1>3, <2>1 DEF StoryInv, OneStory, At
  <2>3. RowView # "removed" /\ RowView' = "removed"
    BY <1>3, <2>1, Zenon DEF RowView
  <2> QED BY <1>1, <2>1, <2>2, <2>3, Zenon DEF AbstractStep, Outcome!OutcomeNext, Outcome!Remove
<1> QED BY <1>2, <1>3, Zenon DEF DeleteMark, CleanerMark

\* The cleaner takes the events file, then the row.
LEMMA CleanerStory ==
  ASSUME FinalizeInv, StoryInv, CleanerFiles \/ CleanerDelete
  PROVE  StoryInv' /\ AbstractStep
<1> TypeOK BY Zenon DEF FinalizeInv
<1>1. db.status = "deleting" /\ db.intent = None
  BY Zenon DEF CleanerFiles, CleanerDelete, FinalizeInv, CleanerOwnsRow
<1>2. /\ UNCHANGED <<seen, job>> /\ db'.result = db.result
      /\ db'.status \in {"deleting", "gone"} /\ db'.intent = None
      /\ disk'.done \in {None, disk.done}
  BY <1>1, ZenonT(30) DEF CleanerFiles, CleanerDelete, TypeOK, Database, Disk
<1>3. StoryInv'
  BY <1>1, <1>2, Zenon DEF StoryInv, OneStory, At
<1>4. RowView' = RowView BY <1>1, <1>2, Zenon DEF RowView
<1> QED BY <1>2, <1>3, <1>4, Zenon DEF AbstractStep

\* The two sweeps of a start that touch the stream find nothing to add, and nothing to
\* remove that somebody could still follow.
LEMMA SweepStory ==
  ASSUME FinalizeInv, StoryInv, EnsureTerminalEvents \/ SweepOrphans
  PROVE  StoryInv' /\ AbstractStep
<1> TypeOK BY Zenon DEF FinalizeInv
<1>1. CASE EnsureTerminalEvents
  <2>1. ~(db.status = "done" /\ disk.done = None)
    BY Zenon DEF FinalizeInv, RowsConsistent, StoryInv
  <2>2. UNCHANGED <<db, disk, job, seen>> BY <1>1, <2>1, Zenon DEF EnsureTerminalEvents
  <2> QED BY <2>2, UntoldStory, Zenon DEF Untold, SameStream, SameOutcome, NoNewCommit
<1>2. CASE SweepOrphans
  <2>1. /\ UNCHANGED <<seen, job>> /\ db'.result = db.result
        /\ db'.status = db.status /\ db'.intent = db.intent
    BY <1>2, Zenon DEF SweepOrphans, TypeOK, Database
  <2>2. disk'.done = IF db.status # "gone" THEN disk.done ELSE None
    BY <1>2, Zenon DEF SweepOrphans, TypeOK, Disk
  <2>3. db.status = "gone" => db.intent = None
    BY Zenon DEF FinalizeInv, RowsConsistent
  <2>4. StoryInv'
    BY <2>1, <2>2, <2>3, Zenon DEF StoryInv, OneStory, At
  <2>5. RowView' = RowView BY <2>1, Zenon DEF RowView
  <2> QED BY <2>1, <2>4, <2>5, Zenon DEF AbstractStep
<1> QED BY <1>1, <1>2, Zenon

\* Every step preserves StoryInv and is a step of MissionOutcome, or none.
LEMMA NextStory ==
  ASSUME NothingLost, FinalizeInv, StoryInv, [Next]_vars
  PROVE  StoryInv' /\ AbstractStep
BY StepKinds, UntoldStory, AppendDoneStory, CommitDoneStory, CommitDiscardedStory, MarkStory, CleanerStory,
   SweepStory, Zenon DEF Telling

\* Nothing has been told of a mission just dispatched.
LEMMA InitStory ==
  ASSUME Init
  PROVE  StoryInv /\ Outcome!OutcomeInit
<1>1. StoryInv
  BY Zenon DEF Init, StoryInv, OneStory, At, IdleJob
<1>2. Outcome!OutcomeInit
  BY Zenon DEF Init, Outcome!OutcomeInit, RowView
<1> QED BY <1>1, <1>2, Zenon

-----------------------------------------------------------------------------
(* The theorems.                                                           *)

\* StoryInv holds in every reachable state.
THEOREM StoryInvariance == ASSUME NothingLost PROVE Spec => []StoryInv
<1>1. Init => StoryInv
  BY InitStory, Zenon
<1>2. FinalizeInv /\ StoryInv /\ [Next]_vars => StoryInv'
  BY NextStory, Zenon
<1> QED BY <1>1, <1>2, Invariance, PTL DEF Spec

\* No two readers of the stream are ever told different outcomes, however many crashes,
\* failing calls and damaged outputs the daemon meets between the two phases of a
\* finalize (AppendDoneIdempotent, repairOne).
THEOREM StoryIsOne == ASSUME NothingLost PROVE Spec => []OneStory
<1>1. StoryInv => OneStory
  BY Zenon DEF StoryInv
<1> QED BY <1>1, StoryInvariance, PTL

\* A mission whose outcome was told is never executed (again): neither the queued one
\* that was killed, nor the one that a crash has left half finalized.
THEOREM NeverRunsAgain == ASSUME NothingLost PROVE Spec => []NeverRunsAfterDone
<1>1. FinalizeInv /\ StoryInv => NeverRunsAfterDone
  <2>1. "waiter" \in Procs BY Zenon DEF Procs
  <2> QED BY <2>1, Zenon DEF FinalizeInv, OneOwner, Owns, StoryInv, NeverRunsAfterDone, At
<1> QED BY <1>1, Invariance, StoryInvariance, PTL

\* The two-phase finalize, the kills, deletion, cleanup and repair together implement the
\* abstract outcome: told once, stored as told, removed for good.
THEOREM Refinement == ASSUME NothingLost PROVE Spec => ImplementsOutcome
<1>1. Init => Outcome!OutcomeInit
  BY InitStory, Zenon
<1>2. FinalizeInv /\ StoryInv /\ [Next]_vars
        => [Outcome!OutcomeNext]_<<seen, RowView, db.result>>
  BY NextStory, Zenon DEF AbstractStep
<1> QED BY <1>1, <1>2, Invariance, StoryInvariance, PTL
        DEF Spec, ImplementsOutcome, Outcome!OutcomeSpec

-----------------------------------------------------------------------------
(* The stream of a done mission ends with its done event.                  *)

\* Only the orphan sweep opens the listener, and only EnsureTerminalEvents lets the
\* sweeps after it begin.
LEMMA Boots ==
  ASSUME [Next]_vars
  PROVE  /\ boot' = "up" => boot = "up" \/ SweepOrphans
         /\ boot' \in {"lost", "sweeping", "up"} =>
               boot \in {"lost", "sweeping", "up"} \/ EnsureTerminalEvents
<1>1. CASE StartUp
  BY <1>1, ZenonT(60) DEF StartUp, StartDaemon, RepairIntent, CatchUpDone, IntentsRepaired,
              EnsureTerminalEvents, SweepRunningToLost, SweepOrphans, CatchUp, CatchUpFails, life
<1>2. ASSUME NEW p \in Procs, FinalizeStep(p) PROVE boot' = boot
  BY <1>2, ZenonT(60) DEF FinalizeStep, PhaseA2, PhaseA2Fails, PhaseB1, RenamesDone, RevertTx, AppendDone,
              CommitDone, CommitDiscarded, GiveUp, Rename, SyncRenamed, RenameFails, RevertRemove,
              RecalcTTL, life
<1>3. CASE Failure
  BY <1>3, ZenonT(60) DEF Failure, Crash, PowerLoss, Die, Checkpoint, EventsLost, DiskDamage, life
<1>4. ASSUME NEW o \in Outputs, CollectGarbage(o) PROVE boot' = boot
  BY <1>4, Zenon DEF CollectGarbage, DrainNeedsRecalc, ExpireTTL, Tombstone, UnlinkTombstone, DropStagingRow, life
<1>5. CASE Cleanup \/ DeleteRead \/ DeleteMark \/ PickUp \/ ProcessExit \/ CapOutcome
            \/ UNCHANGED vars
  BY <1>5, ZenonT(60) DEF Cleanup, CleanerPick, CleanerMark, CleanerFiles, CleanerDelete, CleanerRecalc,
              DeleteRead, DeleteMark, PickUp, ProcessExit, CapOutcome, life, vars
<1>6. ASSUME NEW k \in Killers, KillOpen(k) \/ KillTx(k) \/ Disconnect(k) PROVE boot' = boot
  BY <1>6, Zenon DEF KillOpen, KillTx, Disconnect, life
<1> QED BY <1>1, <1>2, <1>3, <1>4, <1>5, <1>6, Zenon DEF Next

\* Steps that tell and store nothing, a power loss and the loss of the events included.
LEMMA UntoldTold ==
  ASSUME Told, Untold, boot' \in {"lost", "sweeping", "up"} => boot \in {"lost", "sweeping", "up"}
  PROVE  Told'
BY Zenon DEF Told, Untold, SameStream, SameOutcome, NoNewCommit, At

\* A daemon that is down stores nothing and serves nobody.
LEMMA DownTold ==
  ASSUME FinalizeInv, EventsLost \/ Crash \/ PowerLoss
  PROVE  Told'
<1>1. boot' = "down" /\ \A q \in Procs : job'[q].pc = "idle"
  <2>1. CASE EventsLost
    BY <2>1, Zenon DEF EventsLost, FinalizeInv, BootAlone, At, life
  <2>2. CASE Die
    BY <2>2, Zenon DEF Die, IdleJob
  <2> QED BY <2>1, <2>2, ZenonT(60) DEF Crash, PowerLoss
<1> QED BY <1>1, Zenon DEF Told, At

\* Neither a checkpoint nor a damaged output touches rows or stream.
LEMMA DamageUntold ==
  ASSUME FinalizeInv, Checkpoint \/ \E o \in Outputs : DiskDamage(o)
  PROVE  Untold
<1>1. /\ db' = db /\ job' = job /\ seen' = seen
  BY ZenonT(60) DEF Checkpoint, DiskDamage
<1>2. disk'.done = disk.done
  <2>1. disk \in Disk BY Zenon DEF FinalizeInv, TypeOK
  <2> QED BY <2>1, ZenonT(30) DEF Checkpoint, DiskDamage, Disk
<1> QED BY <1>1, <1>2, Zenon DEF Untold, SameStream, SameOutcome, NoNewCommit

\* The nine steps that do more.
LEMMA TellingTold ==
  ASSUME AllCallsWork, FinalizeInv, FinalizeInv', Told, Telling
  PROVE  Told'
<1>0. TypeOK /\ "repair" \in Procs
  BY Zenon DEF FinalizeInv, Procs
<1>1. ASSUME NEW p \in Procs, AppendDone(p) PROVE Told'
  <2>1. /\ db' = db /\ boot' = boot /\ \A q \in Procs : q # p => job'[q] = job[q]
    BY <1>0, <1>1, Zenon DEF AppendDone, TypeOK
  <2>2. Holds(p) /\ db.status # "done" /\ \A q \in Procs : q # p => job[q].pc # "commit"
    BY <1>1, Zenon DEF AppendDone, At, Holds, FinalizeInv, OneFinalizer, RowsConsistent
  <2>3. job'[p].pc = "commit" => disk'.done = job'[p].ev
    BY <1>0, <1>1 DEF AppendDone, TypeOK, Job, Disk, IdleJob
  <2> QED BY <2>1, <2>2, <2>3, Zenon DEF Told, At
<1>2. ASSUME NEW p \in Procs, CommitDone(p) \/ CommitDiscarded(p) PROVE Told'
  <2>1. disk' = disk /\ boot' = boot
    BY <1>2, ZenonT(60) DEF CommitDone, CommitDiscarded, life
  <2>2. \A q \in Procs : q # p => job[q].pc # "commit"
    BY <1>2, ZenonT(60) DEF CommitDone, CommitDiscarded, At, Holds, FinalizeInv, OneFinalizer
  <2>3. job'[p].pc # "commit" /\ \A q \in Procs : q # p => job'[q] = job[q]
    <3>1. CASE CommitDone(p)
      BY <1>0, <3>1, ZenonT(60) DEF CommitDone, TypeOK, Job, IdleJob
    <3>2. CASE CommitDiscarded(p)
      BY <1>0, <3>2, Zenon DEF CommitDiscarded, TypeOK, IdleJob
    <3> QED BY <1>2, <3>1, <3>2, Zenon
  <2>4. disk.done = job[p].ev
    BY <1>2, ZenonT(60) DEF Told, CommitDone, CommitDiscarded
  <2>5. db'.status = "done" => db'.result = job[p].ev \/ (db.status = "done" /\ db'.result = db.result)
    <3>1. CASE CommitDone(p)
      BY <3>1, ZenonT(60) DEF CommitDone
    <3>2. CASE CommitDiscarded(p)
      BY <1>0, <3>2, Zenon DEF CommitDiscarded, TypeOK, Database
    <3> QED BY <1>2, <3>1, <3>2, Zenon
  <2> QED BY <2>1, <2>2, <2>3, <2>4, <2>5, Zenon DEF Told, At
<1>3. CASE DeleteMark \/ CleanerMark \/ CleanerDelete
  <2>1. disk' = disk /\ job' = job /\ boot' = boot
    BY <1>3, Zenon DEF DeleteMark, CleanerMark, CleanerDelete, life
  <2>2. db'.status = "done" => db.status = "done" /\ db'.result = db.result
    BY <1>0, <1>3, ZenonT(60) DEF DeleteMark, CleanerMark, CleanerDelete, TypeOK, Database
  <2> QED BY <2>1, <2>2, Zenon DEF Told, At
<1>4. CASE CleanerFiles
  <2>1. db.status = "deleting" /\ db' = db /\ job' = job
    BY <1>4, Zenon DEF CleanerFiles, FinalizeInv, CleanerOwnsRow
  <2>2. \A q \in Procs : job[q].pc # "commit"
    BY <1>4, Zenon DEF CleanerFiles, FinalizeInv, CleanerOwnsRow, OneFinalizer, Holds
  <2> QED BY <2>1, <2>2, Zenon DEF Told, At
<1>5. CASE EnsureTerminalEvents
  <2>1. db' = db /\ job' = job /\ (db.status = "done" /\ disk.done = None => disk'.done = db.result)
    BY <1>0, <1>5, ZenonT(60) DEF EnsureTerminalEvents, AllCallsWork, TypeOK, Disk
  <2>2. \A q \in Procs : job[q].pc # "commit"
    BY <1>5, Zenon DEF EnsureTerminalEvents, FinalizeInv, BootAlone, At
  <2>3. db.status = "done" => disk.done \in {None, db.result}
    BY Zenon DEF FinalizeInv, StreamMatches, RowsConsistent
  <2>4. ~(db.status = "done" /\ disk.done = None) => disk' = disk
    BY <1>5, Zenon DEF EnsureTerminalEvents
  <2> QED BY <2>1, <2>2, <2>3, <2>4, Zenon DEF Told, At
<1>6. CASE SweepOrphans
  <2>1. db'.status = db.status /\ db'.result = db.result /\ job' = job /\ boot = "sweeping"
    BY <1>0, <1>6, Zenon DEF SweepOrphans, TypeOK, Database
  <2>2. db.status # "gone" => disk'.done = disk.done
    BY <1>0, <1>6, Zenon DEF SweepOrphans, TypeOK, Disk
  <2>3. \A q \in Procs : job[q].pc # "commit"
    BY <1>6, Zenon DEF SweepOrphans, FinalizeInv, BootAlone, At
  <2> QED BY <2>1, <2>2, <2>3, Zenon DEF Told, At
<1> QED BY <1>1, <1>2, <1>3, <1>4, <1>5, <1>6, Zenon DEF Telling

\* Told holds in every reachable state, whatever power losses, damaged outputs and lost
\* events files come between.
THEOREM ToldInvariance == ASSUME AllCallsWork PROVE Spec => []Told
<1>1. Init => Told
  BY DEF Init, Told, At, IdleJob
<1>2. ASSUME FinalizeInv, FinalizeInv', Told, [Next]_vars PROVE Told'
  <2>1. CASE Untold
    <3>1. CASE EnsureTerminalEvents
      BY <1>2, <3>1, TellingTold, Zenon DEF Telling
    <3> QED BY <1>2, <2>1, <3>1, Boots, UntoldTold, Zenon
  <2>2. CASE Telling
    BY <1>2, <2>2, TellingTold, Zenon
  <2>3. CASE UNCHANGED vars
    BY <1>2, <2>1, <2>3, Zenon DEF vars, Untold, SameStream, SameOutcome, NoNewCommit
  <2>4. CASE \E p \in Procs : FinalizeStep(p)
    BY <1>2, <2>1, <2>2, <2>4, FinalizeUntold, Zenon DEF Telling
  <2>5. CASE Cleanup
    BY <1>2, <2>1, <2>2, <2>5, GarbageUntold, Zenon DEF Cleanup, Telling
  <2>6. CASE StartUp
    BY <1>2, <2>1, <2>2, <2>6, StartUntold, Zenon DEF StartUp, Telling
  <2>7. CASE Failure
    BY <1>2, <2>1, <2>7, DownTold, DamageUntold, Zenon DEF Failure
  <2>8. CASE DeleteMark
    BY <2>2, <2>8, Zenon DEF Telling
  <2> QED BY <1>2, <2>1, <2>3, <2>4, <2>5, <2>6, <2>7, <2>8, RequestUntold, GarbageUntold, Zenon DEF Next
<1> QED BY <1>1, <1>2, Invariance, PTL DEF Spec

\* While the daemon serves requests the stream of every done mission ends with its done
\* event, so a follower ends: either because every start writes what is missing, or, if
\* that may fail, because nothing that was synced is lost.
THEOREM DoneRowsAreTold ==
  ASSUME AllCallsWork \/ NothingLost
  PROVE  Spec => []DoneRowHasDoneEvent
<1>1. CASE AllCallsWork
  <2>1. Told => DoneRowHasDoneEvent
    BY Zenon DEF Told, DoneRowHasDoneEvent
  <2>2. Spec => []Told
    BY <1>1, ToldInvariance, Zenon
  <2> QED BY <2>1, <2>2, PTL
<1>2. CASE NothingLost
  <2>1. FinalizeInv /\ StoryInv => DoneRowHasDoneEvent
    BY Zenon DEF FinalizeInv, RowsConsistent, StreamMatches, StoryInv, DoneRowHasDoneEvent
  <2>2. Spec => []StoryInv
    BY <1>2, StoryInvariance, Zenon
  <2> QED BY <2>1, <2>2, Invariance, PTL
<1> QED BY <1>1, <1>2, Zenon

-----------------------------------------------------------------------------
(* What was committed has the declared content.                            *)

\* Steps that leave the output files and the state of their rows alone, and no goroutine
\* with new work on them.
Bystander ==
    /\ db'.intent = db.intent
    /\ \A o \in Outputs : db'.staging[o].state = db.staging[o].state
    /\ disk'.tmp = disk.tmp /\ disk'.final = disk.final /\ disk'.bad = disk.bad
    /\ disk'.unsynced = disk.unsynced
    /\ disk'.done \in {None, disk.done}
    /\ db'.status \in {"queued", "running"} => db.status \in {"queued", "running"}
    /\ critical' => critical
    /\ \A q \in Procs : job'[q] = job[q] \/ (~Holds(q)' /\ (job'[q].pc = "a2" => job'[q].outs = {}))

\* RecalcStagingTTL leaves the state of a row alone.
LEMMA RecalculatedState ==
  ASSUME NEW r \in StagingRow
  PROVE  Recalculated(r).state = r.state
BY Zenon DEF Recalculated, StagingRow

\* A mission picked up, a goroutine that ends, and a kill request that is opened or cut off.
LEMMA GoroutineBystander ==
  ASSUME FinalizeInv,
         \/ PickUp \/ (\E p \in Procs : GiveUp(p))
         \/ (\E k \in Killers : KillOpen(k) \/ Disconnect(k))
  PROVE  Bystander
<1>0. TypeOK /\ disk \in Disk /\ "waiter" \in Procs /\ Killers \subseteq Procs
  BY Zenon DEF FinalizeInv, TypeOK, Procs
<1>1. PICK p \in Procs : (PickUp /\ p = "waiter") \/ GiveUp(p) \/ KillOpen(p) \/ Disconnect(p)
  BY <1>0, Zenon
<1>2. disk' = disk /\ critical' = critical
  BY <1>1, Zenon DEF PickUp, GiveUp, KillOpen, Disconnect, life
<1>3. db'.intent = db.intent /\ db'.staging = db.staging
  BY <1>0, <1>1, Zenon DEF PickUp, GiveUp, KillOpen, Disconnect, TypeOK, Database
<1>4. db'.status \in {"queued", "running"} => db.status \in {"queued", "running"}
  BY <1>0, <1>1, Zenon DEF PickUp, GiveUp, KillOpen, Disconnect, TypeOK, Database
<1>5. ~Holds(p)' /\ job'[p].pc # "a2" /\ \A q \in Procs : q # p => job'[q] = job[q]
  <2>1. CASE PickUp /\ p = "waiter"
    BY <1>0, <2>1, Zenon DEF PickUp, TypeOK, Job, Holds
  <2>2. CASE GiveUp(p)
    BY <1>0, <2>2, Zenon DEF GiveUp, TypeOK, IdleJob, Holds
  <2>3. CASE KillOpen(p)
    BY <1>0, <2>3, Zenon DEF KillOpen, TypeOK, IdleJob, Holds
  <2>4. CASE Disconnect(p)
    BY <1>0, <2>4, Zenon DEF Disconnect, TypeOK, IdleJob, Holds
  <2> QED BY <1>1, <2>1, <2>2, <2>3, <2>4, Zenon
<1> QED BY <1>0, <1>2, <1>3, <1>4, <1>5, Zenon DEF Bystander

\* RecalcStagingTTL, wherever it is called, only replaces expiries.
LEMMA RecalcBystander ==
  ASSUME FinalizeInv,
         \/ (\E p \in Procs, o \in Outputs : RecalcTTL(p, o))
         \/ CleanerRecalc \/ (\E o \in Outputs : DrainNeedsRecalc(o))
  PROVE  Bystander
<1>0. TypeOK /\ disk \in Disk /\ \A o \in Outputs : db.staging[o] \in StagingRow
  BY Zenon DEF FinalizeInv, TypeOK, Database
<1>1. disk' = disk /\ critical' = critical
  BY Zenon DEF RecalcTTL, CleanerRecalc, DrainNeedsRecalc, life
<1>2. /\ db'.intent = db.intent /\ db'.status = db.status
      /\ \A o \in Outputs : db'.staging[o] \in {db.staging[o], Recalculated(db.staging[o])}
  BY <1>0 DEF RecalcTTL, CleanerRecalc, DrainNeedsRecalc, TypeOK, Database
<1>3. \A o \in Outputs : db'.staging[o].state = db.staging[o].state
  BY <1>0, <1>2, RecalculatedState, Zenon
<1>4. \A q \in Procs : job'[q] = job[q] \/ (~Holds(q)' /\ job'[q].pc # "a2")
  <2>1. CASE job' = job
    BY <2>1, Zenon
  <2>2. ASSUME NEW p \in Procs, NEW o \in Outputs, RecalcTTL(p, o)
        PROVE  ~Holds(p)' /\ job'[p].pc # "a2" /\ \A q \in Procs : q # p => job'[q] = job[q]
    BY <1>0, <2>2, Zenon DEF RecalcTTL, TypeOK, Job, IdleJob, Holds, At
  <2> QED BY <2>1, <2>2, Zenon DEF CleanerRecalc, DrainNeedsRecalc
<1> QED BY <1>0, <1>1, <1>2, <1>3, <1>4, Zenon DEF Bystander

\* A deletion and the cleaner change the row of the mission, not those of its outputs.
LEMMA RowBystander ==
  ASSUME FinalizeInv, DeleteRead \/ DeleteMark \/ CleanerPick \/ CleanerMark \/ CleanerDelete
  PROVE  Bystander
<1>0. TypeOK /\ disk \in Disk
  BY Zenon DEF FinalizeInv, TypeOK
<1>1. disk' = disk /\ critical' = critical /\ job' = job
  BY Zenon DEF DeleteRead, DeleteMark, CleanerPick, CleanerMark, CleanerDelete, life
<1>2. /\ db'.intent = db.intent
      /\ \A o \in Outputs : db'.staging[o].state = db.staging[o].state
      /\ db'.status \in {"queued", "running"} => db.status \in {"queued", "running"}
  <2>1. CASE CleanerDelete
    BY <1>0, <2>1, SMTT(40) DEF CleanerDelete, FinalizeInv, CleanerOwnsRow, TypeOK, Database, StagingRow
  <2>2. CASE DeleteRead \/ DeleteMark \/ CleanerPick \/ CleanerMark
    BY <1>0, <2>2, Zenon DEF DeleteRead, DeleteMark, CleanerPick, CleanerMark, TypeOK, Database
  <2> QED BY <2>1, <2>2, Zenon
<1> QED BY <1>0, <1>1, <1>2, Zenon DEF Bystander

\* Steps of a start, the end of the daemon, and steps on the events file.
LEMMA BootBystander ==
  ASSUME FinalizeInv,
         \/ CleanerFiles \/ EventsLost \/ Crash \/ StartDaemon \/ IntentsRepaired
         \/ SweepRunningToLost \/ (\E o \in Outputs : UnlinkTombstone(o)) \/ UNCHANGED vars
  PROVE  Bystander
<1>0. TypeOK /\ disk \in Disk /\ "repair" \in Procs
  BY Zenon DEF FinalizeInv, TypeOK, Procs
<1>1. db' = db /\ (critical' => critical)
  BY DEF CleanerFiles, EventsLost, Crash, Die, StartDaemon, IntentsRepaired, SweepRunningToLost,
         UnlinkTombstone, life, vars
<1>2. /\ disk'.tmp = disk.tmp /\ disk'.final = disk.final /\ disk'.bad = disk.bad
      /\ disk'.unsynced = disk.unsynced /\ disk'.done \in {None, disk.done}
  BY <1>0, ZenonT(60) DEF CleanerFiles, EventsLost, Crash, Die, StartDaemon, IntentsRepaired, SweepRunningToLost,
         UnlinkTombstone, vars, Disk
<1>3. \A q \in Procs : job'[q] = job[q] \/ (~Holds(q)' /\ job'[q].outs = {})
  <2>1. CASE Crash
    BY <2>1, Zenon DEF Crash, Die, Holds, IdleJob
  <2>2. CASE SweepRunningToLost
    BY <1>0, <2>2, ZenonT(60) DEF SweepRunningToLost, TypeOK, Holds, IdleJob
  <2>3. CASE job' = job
    BY <2>3, Zenon
  <2> QED BY <2>1, <2>2, <2>3, Zenon DEF CleanerFiles, EventsLost, StartDaemon, IntentsRepaired, UnlinkTombstone, vars
<1> QED BY <1>0, <1>1, <1>2, <1>3, Zenon DEF Bystander

\* Where no claim is made on a goroutine's outputs.
Unclaimed(q) == job[q].pc \notin {"a2", "b1", "rename", "catchup", "append", "commit"}
                \/ job[q].outs = {}

\* Steps that only take files away, and none of those an intent names.
LEMMA IntactFrame ==
  ASSUME FinalizeInv, IntactInv, db'.intent = db.intent,
         \A o \in Outputs : InPhaseB(o) => InPhaseB(o)',
         disk'.tmp \subseteq disk.tmp, disk'.final \subseteq disk.final,
         disk'.bad \subseteq disk.bad, disk'.bad \subseteq disk'.final, disk'.unsynced \subseteq disk'.final,
         \A o \in disk.final : InPhaseB(o) => o \in disk'.final,
         \A q \in Procs : job'[q] = job[q] \/ Unclaimed(q)'
  PROVE  IntactInv'
<1>1. db.intent # None => db.intent.outs \subseteq Outputs
  BY Zenon DEF FinalizeInv, TypeOK, Database, Intent
<1>2. ASSUME NEW q \in Procs PROVE Verified(q)'
  <2>1. CASE Unclaimed(q)'
    BY <2>1, Zenon DEF Unclaimed, Verified
  <2>2. CASE job'[q] = job[q] /\ Holds(q)
    <3>1. \A o \in job[q].outs : o \in Outputs /\ InPhaseB(o)
      BY <1>1, <2>2, Zenon DEF FinalizeInv, OneFinalizer, IntactInv
    <3>2. \A o \in job[q].outs : o \in disk.final => o \in disk'.final
      BY <3>1, Zenon
    <3> QED BY <2>2, <3>2, ZenonT(60) DEF IntactInv, Verified
  <2>3. CASE job'[q] = job[q] /\ ~Holds(q)
    BY <2>3, Zenon DEF IntactInv, Verified, Holds
  <2> QED BY <2>1, <2>2, <2>3, Zenon
<1>3. db'.intent # None => \A o \in db'.intent.outs : InPhaseB(o)'
  BY <1>1, Zenon DEF IntactInv
<1> QED BY <1>2, <1>3, ZenonT(60) DEF IntactInv

\* A goroutine that works on the intent, or is about to write it, is alone in that.
LEMMA OthersUnclaimed ==
  ASSUME FinalizeInv, NEW p \in Procs, \A q \in Procs : q # p => job'[q] = job[q],
         Holds(p) \/ Owns(p) \/ (db.intent = None /\ db.status # "running")
  PROVE  \A q \in Procs : q # p => Unclaimed(q)'
<1>1. \A q \in Procs : q # p => ~Holds(q) /\ ~Owns(q)
  BY Zenon DEF FinalizeInv, OneFinalizer, OneOwner
<1> QED BY <1>1, Zenon DEF Holds, Owns, Unclaimed

\* So only its own outputs and the rows of the intent are left to look at.
LEMMA IntactAlone ==
  ASSUME NEW p \in Procs, \A q \in Procs : q # p => Unclaimed(q)',
         disk'.bad \subseteq disk'.final, disk'.unsynced \subseteq disk'.final,
         disk'.tmp \cap disk'.final = {},
         db'.intent # None => \A o \in db'.intent.outs : InPhaseB(o)',
         Verified(p)'
  PROVE  IntactInv'
<1>1. ASSUME NEW q \in Procs, q # p PROVE Verified(q)'
  BY <1>1, Zenon DEF Unclaimed, Verified
<1> QED BY <1>1, Zenon DEF IntactInv

\* A renamed output is one this life has copied; a reverted one is gone.
LEMMA RenameIntact ==
  ASSUME FinalizeInv, IntactInv, NEW p \in Procs, NEW o \in Outputs,
         Rename(p, o) \/ SyncRenamed(p, o) \/ RevertRemove(p, o)
  PROVE  IntactInv'
<1>0. TypeOK /\ Holds(p) /\ db' = db /\ o \in job[p].todo
  BY Zenon DEF FinalizeInv, Rename, SyncRenamed, RevertRemove, At, Holds
<1>1. \A q \in Procs : q # p => job'[q] = job[q]
  BY <1>0, Zenon DEF Rename, SyncRenamed, RevertRemove, TypeOK
<1>2. \A q \in Procs : q # p => Unclaimed(q)'
  BY <1>0, <1>1, OthersUnclaimed, Zenon
<1>3. CASE Rename(p, o)
  <2>1. /\ disk'.tmp = disk.tmp \ {o} /\ disk'.final = disk.final \cup {o} /\ disk'.bad = disk.bad
        /\ disk'.unsynced = disk.unsynced \cup {o} /\ job' = job
    BY <1>0, <1>3, Zenon DEF TypeOK, Disk, Rename
  <2>2. Verified(p)'
    BY <1>0, <2>1, ZenonT(60) DEF IntactInv, Verified
  <2> QED BY <1>0, <1>2, <2>1, <2>2, IntactAlone, ZenonT(60) DEF IntactInv, InPhaseB
<1>4. CASE SyncRenamed(p, o)
  <2>1. /\ disk'.tmp = disk.tmp /\ disk'.final = disk.final /\ disk'.bad = disk.bad
        /\ disk'.unsynced \subseteq disk.unsynced
    BY <1>0, <1>4, Zenon DEF TypeOK, Disk, SyncRenamed
  <2>2. job'[p].pc = "rename" /\ job'[p].outs = job[p].outs /\ job'[p].todo = job[p].todo \ {o}
    BY <1>0, <1>4, Zenon DEF TypeOK, Job, SyncRenamed, At
  <2>3. job[p].pc = "rename" /\ o \in disk.final
    BY <1>4, Zenon DEF SyncRenamed, At, IntactInv
  <2>4. Verified(p)'
    BY <2>1, <2>2, <2>3, Zenon DEF IntactInv, Verified
  <2> QED BY <1>0, <1>2, <2>1, <2>4, IntactAlone, ZenonT(60) DEF IntactInv, InPhaseB
<1>5. CASE RevertRemove(p, o)
  <2>1. /\ disk'.tmp = disk.tmp \ {o} /\ disk'.final = disk.final \ {o} /\ disk'.bad = disk.bad \ {o}
        /\ disk'.unsynced = disk.unsynced \ {o}
    BY <1>0, <1>5, Zenon DEF TypeOK, Disk, RevertRemove
  <2>2. job'[p].pc = "revert"
    BY <1>0, <1>5, Zenon DEF TypeOK, Job, RevertRemove, At
  <2>3. Verified(p)'
    BY <2>2, ZenonT(60) DEF Verified
  <2> QED BY <1>0, <1>2, <2>1, <2>3, IntactAlone, ZenonT(60) DEF IntactInv, InPhaseB
<1> QED BY <1>3, <1>4, <1>5, Zenon

\* The repair takes a renamed file only with the declared content.
LEMMA CatchUpIntact ==
  ASSUME FinalizeInv, IntactInv, NEW o \in Outputs, CatchUp(o)
  PROVE  IntactInv'
<1> DEFINE p == "repair"
<1>0. /\ p \in Procs /\ TypeOK /\ Holds(p) /\ db' = db /\ o \in job[p].todo
      /\ job[p].pc = "catchup"
  BY Zenon DEF Procs, FinalizeInv, CatchUp, At, Holds
<1>1. \A q \in Procs : q # p => job'[q] = job[q]
  BY <1>0, Zenon DEF CatchUp, TypeOK
<1>2. \A q \in Procs : q # p => Unclaimed(q)'
  BY <1>0, <1>1, OthersUnclaimed, Zenon
<1>3. CASE (o \in disk.final /\ o \notin disk.bad) \/ o \in disk.tmp \ disk.final
  <2>1. /\ disk'.tmp = disk.tmp \ {o} /\ disk'.final = disk.final \cup {o} /\ disk'.bad = disk.bad
        /\ disk'.unsynced \subseteq disk.unsynced \cup {o}
    BY <1>0, <1>3, ZenonT(60) DEF TypeOK, Disk, CatchUp
  <2>2. job'[p].pc = "catchup" /\ job'[p].outs = job[p].outs /\ job'[p].todo = job[p].todo \ {o}
    BY <1>0, <1>3 DEF TypeOK, Job, CatchUp
  <2>3. o \notin disk.bad
    BY <1>3, ZenonT(60) DEF IntactInv
  <2>4. Verified(p)'
    BY <1>0, <2>1, <2>2, <2>3, ZenonT(60) DEF IntactInv, Verified
  <2> QED BY <1>0, <1>2, <2>1, <2>4, IntactAlone, ZenonT(60) DEF IntactInv, InPhaseB
<1>4. CASE ~(o \in disk.final /\ o \notin disk.bad) /\ o \notin disk.tmp \ disk.final
  <2>1. disk' = disk /\ job'[p].pc = "revert"
    BY <1>0, <1>4 DEF TypeOK, Job, CatchUp
  <2>2. Verified(p)'
    BY <2>1, Zenon DEF Verified
  <2> QED BY <1>0, <1>2, <2>1, <2>2, IntactAlone, Zenon DEF IntactInv, InPhaseB
<1> QED BY <1>3, <1>4, Zenon

\* Steps that move the goroutine on and touch no file.
LEMMA MovesIntact ==
  ASSUME FinalizeInv, IntactInv, NEW p \in Procs,
         \/ RenamesDone(p) \/ (\E o \in Outputs : RenameFails(p, o)) \/ AppendDone(p)
         \/ (p = "repair" /\ (CatchUpDone \/ \E o \in Outputs : CatchUpFails(o)))
  PROVE  IntactInv'
<1>0. TypeOK /\ Holds(p) /\ db' = db
  BY Zenon DEF FinalizeInv, RenamesDone, RenameFails, AppendDone, CatchUpDone, CatchUpFails, At, Holds
<1>1. \A q \in Procs : q # p => job'[q] = job[q]
  BY <1>0, Zenon DEF RenamesDone, RenameFails, AppendDone, CatchUpDone, CatchUpFails, TypeOK
<1>2. \A q \in Procs : q # p => Unclaimed(q)'
  BY <1>0, <1>1, OthersUnclaimed, Zenon
<1>3. /\ disk'.tmp = disk.tmp /\ disk'.final = disk.final /\ disk'.bad = disk.bad
      /\ disk'.unsynced = disk.unsynced
  BY <1>0, Zenon DEF RenamesDone, RenameFails, AppendDone, CatchUpDone, CatchUpFails, TypeOK, Disk
<1>4. Verified(p)'
  <2>1. CASE RenamesDone(p) \/ (p = "repair" /\ CatchUpDone)
    <3>1. /\ job[p].pc \in {"rename", "catchup"} /\ job[p].todo = {}
          /\ job'[p].pc = "append" /\ job'[p].outs = job[p].outs
      BY <1>0, <2>1 DEF RenamesDone, CatchUpDone, TypeOK, Job, At
    <3> QED BY <1>3, <3>1, Zenon DEF IntactInv, Verified
  <2>2. CASE (\E o \in Outputs : RenameFails(p, o)) \/ (p = "repair" /\ \E o \in Outputs : CatchUpFails(o))
    <3>1. job'[p].pc = "revert"
      BY <1>0, <2>2, SMTT(40) DEF RenameFails, CatchUpFails, TypeOK, Job
    <3> QED BY <3>1, Zenon DEF Verified
  <2>3. CASE AppendDone(p)
    <3>1. job[p].pc = "append" /\ job'[p].pc \in {"commit", "idle"} /\ (job'[p].pc = "commit" => job'[p].outs = job[p].outs)
      BY <1>0, <2>3 DEF AppendDone, TypeOK, Job, At, IdleJob
    <3> QED BY <1>3, <3>1, Zenon DEF IntactInv, Verified
  <2> QED BY <2>1, <2>2, <2>3, Zenon
<1> QED BY <1>0, <1>2, <1>3, <1>4, IntactAlone, Zenon DEF IntactInv, InPhaseB

\* The transactions of finalize.
LEMMA TxIntact ==
  ASSUME FinalizeInv, IntactInv, NEW p \in Procs,
         PhaseA2(p) \/ PhaseB1(p) \/ RevertTx(p) \/ CommitDone(p) \/ CommitDiscarded(p)
  PROVE  IntactInv'
<1>0. TypeOK /\ (Holds(p) \/ Owns(p)) /\ disk' = disk
  BY ZenonT(60) DEF FinalizeInv, PhaseA2, PhaseB1, RevertTx, CommitDone, CommitDiscarded, At, Holds, Owns
<1>a. \A o \in Outputs : db.staging[o] \in StagingRow
  BY <1>0, Zenon DEF TypeOK, Database
<1>1. CASE PhaseA2(p)
  <2>1. db'.intent = [phase |-> "prepared", ev |-> job[p].ev, outs |-> job[p].outs]
    BY <1>0, <1>1, Zenon DEF PhaseA2, TypeOK, Database
  <2>2. \A o \in Outputs : o \in job[p].outs => db'.staging[o].state = "pending_output"
    BY <1>0, <1>1, Zenon DEF PhaseA2, TypeOK, Database
  <2>3. job[p].outs \subseteq Outputs
    BY <1>0, Zenon DEF TypeOK, Job
  <2>4. /\ job'[p].pc = (IF job[p].outs = {} THEN "append" ELSE "b1") /\ job'[p].outs = job[p].outs
        /\ \A q \in Procs : q # p => job'[q] = job[q]
    BY <1>0, <1>1, Zenon DEF PhaseA2, TypeOK, Job
  <2>5. job[p].pc = "a2"
    BY <1>1, Zenon DEF PhaseA2, At
  <2>6. Verified(p)'
    BY <1>0, <2>4, <2>5, ZenonT(60) DEF IntactInv, Verified
  <2>7. \A o \in db'.intent.outs : InPhaseB(o)'
    BY <2>1, <2>2, <2>3 DEF InPhaseB
  <2> QED BY <1>0, <2>4, <2>6, <2>7, OthersUnclaimed, IntactAlone, ZenonT(60) DEF IntactInv
<1>2. CASE PhaseB1(p)
  <2>1. db.intent \in Intent
    BY <1>0, <1>2, Zenon DEF PhaseB1, TypeOK, Database
  <2>2. db'.intent = [db.intent EXCEPT !.phase = "committing"]
    BY <1>0, <1>2, Zenon DEF PhaseB1, TypeOK, Database
  <2>3. db'.intent.outs = db.intent.outs /\ db.intent.outs \subseteq Outputs
    BY <2>1, <2>2, Zenon DEF Intent
  <2>4. \A o \in Outputs : db'.staging[o] = IF o \in job[p].outs /\ db.staging[o].state = "pending_output"
                   THEN [db.staging[o] EXCEPT !.state = "committing"]
                   ELSE db.staging[o]
    BY <1>0, <1>2, Zenon DEF PhaseB1, TypeOK, Database
  <2>5. \A o \in Outputs : InPhaseB(o) => InPhaseB(o)'
    BY <1>a, <2>4, ZenonT(60) DEF InPhaseB, StagingRow
  <2>6. /\ job'[p].pc = "rename" /\ job'[p].outs = job[p].outs /\ job'[p].todo = job[p].outs
        /\ \A q \in Procs : q # p => job'[q] = job[q]
    BY <1>0, <1>2, Zenon DEF PhaseB1, TypeOK, Job
  <2>7. job[p].pc = "b1" /\ db.intent # None
    BY <1>2, Zenon DEF PhaseB1, At
  <2>8. Verified(p)'
    BY <1>0, <2>6, <2>7, ZenonT(60) DEF IntactInv, Verified
  <2>9. \A o \in db'.intent.outs : InPhaseB(o)'
    BY <2>3, <2>5, <2>7, ZenonT(60) DEF IntactInv
  <2> QED BY <1>0, <2>6, <2>8, <2>9, OthersUnclaimed, IntactAlone, ZenonT(60) DEF IntactInv
<1>3. CASE RevertTx(p)
  <2>1. db.intent # None
    BY <1>3, Zenon DEF RevertTx, At, Holds, FinalizeInv, OneFinalizer
  <2>2. db'.intent = [phase |-> "prepared", ev |-> Now("output_commit_failed"), outs |-> {}]
    BY <1>0, <1>3, <2>1, Zenon DEF RevertTx, TypeOK, Database
  <2>3. /\ job'[p].outs = {} /\ job'[p].pc = "append"
        /\ \A q \in Procs : q # p => job'[q] = job[q]
    BY <1>0, <1>3, Zenon DEF RevertTx, TypeOK
  <2>4. Verified(p)'
    BY <2>3, ZenonT(60) DEF Verified
  <2>5. \A o \in db'.intent.outs : InPhaseB(o)'
    BY <2>2
  <2> QED BY <1>0, <2>3, <2>4, <2>5, OthersUnclaimed, IntactAlone, ZenonT(60) DEF IntactInv
<1>4. CASE CommitDone(p) \/ CommitDiscarded(p)
  <2>1. db'.intent = None
    <3>1. CASE CommitDone(p)
      BY <3>1, ZenonT(60) DEF CommitDone
    <3>2. CASE CommitDiscarded(p)
      BY <1>0, <3>2, Zenon DEF CommitDiscarded, TypeOK, Database
    <3> QED BY <1>4, <3>1, <3>2, Zenon
  <2>2. /\ job'[p].pc \in {"idle", "recalc"}
        /\ \A q \in Procs : q # p => job'[q] = job[q]
    <3>1. CASE CommitDone(p)
      BY <1>0, <3>1, ZenonT(60) DEF CommitDone, TypeOK, Job, IdleJob
    <3>2. CASE CommitDiscarded(p)
      BY <1>0, <3>2, Zenon DEF CommitDiscarded, TypeOK, IdleJob
    <3> QED BY <1>4, <3>1, <3>2, Zenon
  <2>3. Verified(p)'
    BY <2>2, Zenon DEF Verified
  <2> QED BY <1>0, <2>1, <2>2, <2>3, OthersUnclaimed, IntactAlone, ZenonT(60) DEF IntactInv
<1> QED BY <1>1, <1>2, <1>3, <1>4, Zenon

\* The intent of a kill names no output.
LEMMA KillTxIntact ==
  ASSUME FinalizeInv, IntactInv, NEW p \in Killers, KillTx(p)
  PROVE  IntactInv'
<1>0. TypeOK /\ p \in Procs /\ disk' = disk
  BY Zenon DEF FinalizeInv, Procs, KillTx
<1>1. CASE db.status = "queued" /\ db.intent = None
  <2>1. db'.intent = [phase |-> "prepared", ev |-> job[p].ev, outs |-> {}]
    BY <1>0, <1>1, Zenon DEF KillTx, TypeOK, Database
  <2>2. job'[p].pc = "append" /\ job'[p].outs = {} /\ \A q \in Procs : q # p => job'[q] = job[q]
    BY <1>0, <1>1, ZenonT(60) DEF KillTx, TypeOK, IdleJob
  <2>3. Verified(p)'
    BY <2>2, Zenon DEF Verified
  <2>4. \A o \in db'.intent.outs : InPhaseB(o)'
    BY <2>1
  <2> QED BY <1>0, <1>1, <2>2, <2>3, <2>4, OthersUnclaimed, IntactAlone, Zenon DEF IntactInv
<1>2. CASE ~(db.status = "queued" /\ db.intent = None)
  <2>1. db' = db /\ job'[p].pc = "idle" /\ \A q \in Procs : q # p => job'[q] = job[q]
    BY <1>0, <1>2 DEF KillTx, TypeOK, IdleJob
  <2> QED BY <1>0, <2>1, IntactFrame, ZenonT(60) DEF IntactInv, InPhaseB, Unclaimed
<1> QED BY <1>1, <1>2, Zenon

\* A prepared intent is resumed only with every output still at its .tmp path; otherwise
\* the outputs are verified or given up.
LEMMA RepairIntentIntact ==
  ASSUME FinalizeInv, IntactInv, RepairIntent
  PROVE  IntactInv'
<1> DEFINE p == "repair"
<1>0. TypeOK /\ p \in Procs /\ db' = db /\ db.intent # None
  BY Zenon DEF FinalizeInv, Procs, RepairIntent
<1>1. /\ disk'.tmp = disk.tmp /\ disk'.final = disk.final /\ disk'.bad = disk.bad
      /\ disk'.unsynced = disk.unsynced
  BY <1>0, Zenon DEF RepairIntent, TypeOK, Disk
<1>2. /\ job'[p].pc = ResumePoint(db.intent) /\ job'[p].outs = db.intent.outs
      /\ job'[p].todo = db.intent.outs
      /\ \A q \in Procs : q # p => job'[q] = job[q]
  BY <1>0, Zenon DEF RepairIntent, TypeOK
<1>3. \A q \in Procs : q # p => Unclaimed(q)'
  BY <1>2, Zenon DEF RepairIntent, FinalizeInv, BootAlone, At, Unclaimed
<1>4. Verified(p)'
  BY <1>1, <1>2, ZenonT(60) DEF Verified, ResumePoint, IntactInv
<1> QED BY <1>0, <1>1, <1>3, <1>4, IntactAlone, ZenonT(60) DEF IntactInv, InPhaseB

\* Outputs are collected into files that did not exist, or dropped.
LEMMA WaiterIntact ==
  ASSUME FinalizeInv, IntactInv, ProcessExit \/ CapOutcome
  PROVE  IntactInv'
<1> DEFINE p == "waiter"
<1>0. p \in Procs /\ TypeOK /\ db' = db /\ Owns(p)
  BY ZenonT(60) DEF Procs, FinalizeInv, ProcessExit, CapOutcome, Owns, At
<1>1. CASE ProcessExit
  <2>1. PICK v \in {"success", "failed", "killed", "crashed"}, outs \in SUBSET Outputs :
          /\ \A o \in outs : o \notin disk.final
          /\ job' = [job EXCEPT ![p] = [pc |-> "a2", ev |-> Now(v), outs |-> outs, todo |-> {}]]
          /\ disk' = [disk EXCEPT !.tmp = @ \cup outs, !.file = TRUE]
    BY <1>1, ZenonT(60) DEF ProcessExit
  <2>2. /\ disk'.tmp = disk.tmp \cup outs /\ disk'.final = disk.final /\ disk'.bad = disk.bad
        /\ disk'.unsynced = disk.unsynced
    BY <1>0, <2>1, Zenon DEF TypeOK, Disk
  <2>3. job'[p].pc = "a2" /\ job'[p].outs = outs /\ \A q \in Procs : q # p => job'[q] = job[q]
    BY <1>0, <2>1, Zenon DEF TypeOK
  <2>4. outs \cap disk.final = {}
    BY <2>1, Zenon
  <2>5. Verified(p)'
    BY <2>2, <2>3, <2>4, Zenon DEF IntactInv, Verified
  <2> QED BY <1>0, <2>2, <2>3, <2>4, <2>5, OthersUnclaimed, IntactAlone, ZenonT(60) DEF IntactInv, InPhaseB
<1>2. CASE CapOutcome
  <2>1. /\ disk'.tmp \subseteq disk.tmp /\ disk'.final = disk.final /\ disk'.bad = disk.bad
        /\ disk'.unsynced = disk.unsynced
    BY <1>0, <1>2, Zenon DEF CapOutcome, TypeOK, Disk
  <2>2. job'[p].outs = {} /\ \A q \in Procs : q # p => job'[q] = job[q]
    BY <1>0, <1>2 DEF CapOutcome, TypeOK, Job
  <2> QED BY <1>0, <2>1, <2>2, IntactFrame, Zenon DEF IntactInv, InPhaseB, Unclaimed
<1> QED BY <1>1, <1>2, Zenon

\* A file is damaged only while nobody has a claim on it.
LEMMA DamageIntact ==
  ASSUME FinalizeInv, IntactInv, NEW o \in Outputs, DiskDamage(o)
  PROVE  IntactInv'
<1>0. TypeOK /\ db' = db /\ job' = job
  BY Zenon DEF FinalizeInv, DiskDamage
<1>1. \A q \in Procs : job[q].pc = "idle"
  BY Zenon DEF DiskDamage, FinalizeInv, BootAlone, At
<1>2. disk'.bad \subseteq disk'.final /\ disk'.unsynced \subseteq disk'.final /\ disk'.tmp \cap disk'.final = {}
  <2>1. CASE o \in disk.final /\ disk' = [disk EXCEPT !.bad = @ \cup {o}]
    BY <1>0, <2>1, Zenon DEF TypeOK, Disk, IntactInv
  <2>2. CASE disk' = [disk EXCEPT !.tmp = @ \ {o}, !.final = @ \ {o}, !.bad = @ \ {o},
                                  !.unsynced = @ \ {o}]
    BY <1>0, <2>2, Zenon DEF TypeOK, Disk, IntactInv
  <2> QED BY <2>1, <2>2, Zenon DEF DiskDamage
<1>3. \A q \in Procs : Verified(q)'
  BY <1>0, <1>1, Zenon DEF Verified
<1> QED BY <1>0, <1>2, <1>3, ZenonT(60) DEF IntactInv, InPhaseB

\* A bystander preserves IntactInv.
LEMMA BystanderIntact ==
  ASSUME FinalizeInv, IntactInv, Bystander
  PROVE  IntactInv'
BY IntactFrame, ZenonT(60) DEF Bystander, IntactInv, InPhaseB, Holds, Unclaimed

\* The collector and the orphan sweep leave the files of an intent alone.
LEMMA CollectIntact ==
  ASSUME FinalizeInv, IntactInv,
         \/ (\E o \in Outputs : ExpireTTL(o) \/ Tombstone(o) \/ DropStagingRow(o)) \/ SweepOrphans
         \/ \E p \in Procs : PhaseA2Fails(p)
  PROVE  IntactInv'
<1>0. TypeOK /\ disk \in Disk /\ \A o \in Outputs : db.staging[o] \in StagingRow
  BY Zenon DEF FinalizeInv, TypeOK, Database
<1>1. CASE SweepOrphans
  <2>1. db'.intent = db.intent /\ job' = job
    BY <1>0, <1>1, Zenon DEF SweepOrphans, TypeOK, Database
  <2>2. \A o \in Outputs : db'.staging[o].state = db.staging[o].state
    <3>1. \A o \in Outputs : db'.staging[o] \in {db.staging[o], Recalculated(db.staging[o])}
      BY <1>0, <1>1, Zenon DEF SweepOrphans, TypeOK, Database
    <3> QED BY <1>0, <3>1, RecalculatedState, Zenon
  <2> DEFINE known == {o \in Outputs : db.staging[o].state # "none"}
  <2>3. /\ disk'.tmp = disk.tmp \cap known /\ disk'.final = disk.final \cap known
        /\ disk'.bad = disk.bad \cap known /\ disk'.unsynced = disk.unsynced \cap known
    BY <1>0, <1>1, Zenon DEF SweepOrphans, Disk
  <2>4. \A o \in disk.final : InPhaseB(o) => o \in known
    BY <1>0, Zenon DEF Disk, InPhaseB
  <2> HIDE DEF known
  <2>5. \A o \in Outputs : InPhaseB(o) => InPhaseB(o)'
    BY <2>2, Zenon DEF InPhaseB
  <2> QED BY <2>1, <2>3, <2>4, <2>5, IntactFrame, Zenon DEF IntactInv
<1>2. ASSUME NEW o \in Outputs, ExpireTTL(o) \/ Tombstone(o) \/ DropStagingRow(o)
      PROVE  IntactInv'
  <2>1. db'.intent = db.intent /\ job' = job
    BY <1>0, <1>2, ZenonT(60) DEF ExpireTTL, Tombstone, DropStagingRow, TypeOK, Database
  <2>2. ~InPhaseB(o) /\ \A x \in Outputs : x # o => db'.staging[x] = db.staging[x]
    <3>1. CASE ExpireTTL(o)
      BY <1>0, <3>1, Zenon DEF ExpireTTL, TypeOK, Database, InPhaseB
    <3>2. CASE Tombstone(o)
      BY <1>0, <3>2, ZenonT(60) DEF Tombstone, InPhaseB
    <3>3. CASE DropStagingRow(o)
      BY <1>0, <3>3, Zenon DEF DropStagingRow, TypeOK, Database, InPhaseB
    <3> QED BY <1>2, <3>1, <3>2, <3>3, ZenonT(60)
  <2>3. /\ disk'.tmp \subseteq disk.tmp /\ disk'.final \subseteq disk.final /\ disk'.bad \subseteq disk.bad
        /\ disk'.unsynced \subseteq disk.unsynced
        /\ disk' = disk \/ o \notin disk'.bad \cup disk'.unsynced
        /\ \A x \in disk.final : x # o => x \in disk'.final
    <3>1. CASE disk' = disk
      BY <3>1, Zenon
    <3>2. CASE Tombstone(o)
      BY <1>0, <3>2, ZenonT(60) DEF Tombstone, Disk
    <3> QED BY <1>2, <3>1, <3>2, Zenon DEF ExpireTTL, DropStagingRow
  <2>4. disk'.bad \subseteq disk'.final /\ disk'.unsynced \subseteq disk'.final
    BY <2>3, Zenon DEF IntactInv
  <2>5. \A x \in Outputs : InPhaseB(x) => InPhaseB(x)'
    BY <2>2, Zenon DEF InPhaseB
  <2>6. \A x \in disk.final : InPhaseB(x) => x \in disk'.final
    BY <2>2, <2>3, Zenon
  <2> QED BY <2>1, <2>3, <2>4, <2>5, <2>6, IntactFrame, ZenonT(60)
<1>3. ASSUME NEW p \in Procs, PhaseA2Fails(p) PROVE IntactInv'
  <2>1. /\ disk'.tmp \subseteq disk.tmp /\ disk'.final = disk.final /\ disk'.bad = disk.bad
        /\ disk'.unsynced = disk.unsynced /\ db' = db
    BY <1>0, <1>3, Zenon DEF PhaseA2Fails, Disk
  <2>2. job'[p].pc = "idle" /\ \A q \in Procs : q # p => job'[q] = job[q]
    BY <1>0, <1>3, Zenon DEF PhaseA2Fails, TypeOK, IdleJob
  <2> QED BY <2>1, <2>2, IntactFrame, ZenonT(60) DEF IntactInv, InPhaseB, Unclaimed
<1> QED BY <1>1, <1>2, <1>3, Zenon

\* The sweep of the terminal events touches no output.
LEMMA EnsureTerminalIntact ==
  ASSUME FinalizeInv, IntactInv, EnsureTerminalEvents
  PROVE  IntactInv'
<1>1. disk \in Disk BY Zenon DEF FinalizeInv, TypeOK
<1>2. /\ disk'.tmp = disk.tmp /\ disk'.final = disk.final /\ disk'.bad = disk.bad
      /\ disk'.unsynced = disk.unsynced /\ db' = db /\ job' = job
  BY <1>1, ZenonT(60) DEF EnsureTerminalEvents, Disk
<1> QED BY <1>2, IntactFrame, ZenonT(60) DEF IntactInv, InPhaseB

\* Every step preserves IntactInv.
LEMMA NextIntact ==
  ASSUME "powerLoss" \notin Faults, FinalizeInv, IntactInv, [Next]_vars
  PROVE  IntactInv'
<1>1. ASSUME NEW p \in Procs, FinalizeStep(p) PROVE IntactInv'
  <2>1. ASSUME NEW o \in Outputs, RecalcTTL(p, o) PROVE IntactInv'
    BY <2>1, RecalcBystander, BystanderIntact, Zenon
  <2>2. CASE GiveUp(p)
    BY <2>2, GoroutineBystander, BystanderIntact, Zenon
  <2>3. CASE PhaseA2Fails(p)
    BY <2>3, CollectIntact, Zenon
  <2>4. CASE \E o \in Outputs : Rename(p, o) \/ SyncRenamed(p, o) \/ RevertRemove(p, o)
    BY <2>4, RenameIntact, Zenon
  <2>5. CASE RenamesDone(p) \/ (\E o \in Outputs : RenameFails(p, o)) \/ AppendDone(p)
    BY <2>5, MovesIntact, Zenon
  <2> QED BY <1>1, <2>1, <2>2, <2>3, <2>4, <2>5, TxIntact, Zenon DEF FinalizeStep
<1>2. ASSUME NEW k \in Killers, KillOpen(k) \/ KillTx(k) \/ Disconnect(k) PROVE IntactInv'
  BY <1>2, GoroutineBystander, BystanderIntact, KillTxIntact, Zenon
<1>3. CASE Cleanup
  BY <1>3, RowBystander, RecalcBystander, BootBystander, BystanderIntact, Zenon DEF Cleanup
<1>4. ASSUME NEW o \in Outputs, CollectGarbage(o) PROVE IntactInv'
  BY <1>4, CollectIntact, RecalcBystander, BootBystander, BystanderIntact, Zenon DEF CollectGarbage
<1>5. CASE StartUp
  <2>0. "repair" \in Procs BY Zenon DEF Procs
  <2>1. CASE CatchUpDone \/ \E o \in Outputs : CatchUpFails(o)
    BY <2>0, <2>1, MovesIntact, Zenon
  <2>2. ASSUME NEW o \in Outputs, CatchUp(o) PROVE IntactInv'
    BY <2>2, CatchUpIntact, Zenon
  <2>3. CASE StartDaemon \/ IntentsRepaired \/ SweepRunningToLost
    BY <2>3, BootBystander, BystanderIntact, Zenon
  <2>4. CASE SweepOrphans
    BY <2>4, CollectIntact, Zenon
  <2> QED BY <1>5, <2>1, <2>2, <2>3, <2>4, RepairIntentIntact, EnsureTerminalIntact, Zenon DEF StartUp
<1>6. CASE Failure
  <2>1. CASE Crash \/ EventsLost
    BY <2>1, BootBystander, BystanderIntact, Zenon
  <2> QED BY <1>6, <2>1, DamageIntact, ZenonT(60) DEF Failure, Checkpoint, PowerLoss
<1>7. CASE DeleteRead \/ DeleteMark
  BY <1>7, RowBystander, BystanderIntact, Zenon
<1>8. CASE PickUp \/ UNCHANGED vars
  BY <1>8, GoroutineBystander, BootBystander, BystanderIntact, Zenon
<1> QED BY <1>1, <1>2, <1>3, <1>4, <1>5, <1>6, <1>7, <1>8, WaiterIntact, Zenon DEF Next

\* IntactInv holds in every reachable state.
THEOREM IntactInvariance == ASSUME "powerLoss" \notin Faults PROVE Spec => []IntactInv
<1>1. ASSUME Init PROVE IntactInv
  <2>1. \A p \in Procs : job[p].pc = "idle"
    BY <1>1, Zenon DEF Init, IdleJob
  <2>2. \A p \in Procs : Verified(p)
    BY <2>1, Zenon DEF Verified
  <2>3. disk.bad = {} /\ disk.final = {} /\ disk.unsynced = {} /\ disk.tmp = {} /\ db.intent = None
    BY <1>1, Zenon DEF Init
  <2> QED BY <2>2, <2>3, Zenon DEF IntactInv
<1>2. FinalizeInv /\ IntactInv /\ [Next]_vars => IntactInv'
  BY NextIntact, Zenon
<1> QED BY <1>1, <1>2, Invariance, PTL DEF Spec

\* Only commitFinalize makes a row complete.
LEMMA OnlyCommitCompletes ==
  ASSUME "powerLoss" \notin Faults, FinalizeInv, [Next]_vars, \A p \in Procs : ~CommitDone(p),
         NEW o \in Outputs, db'.staging[o].state = "complete"
  PROVE  db.staging[o].state = "complete"
<1>0. TypeOK /\ \A x \in Outputs : db.staging[x] \in StagingRow
  BY Zenon DEF FinalizeInv, TypeOK, Database
<1>1. CASE db' = db
  BY <1>1, Zenon
<1>2. CASE Bystander
  BY <1>2, Zenon DEF Bystander
<1>3. ASSUME NEW p \in Procs, PhaseA2(p) PROVE db.staging[o].state = "complete"
  BY <1>0, <1>3, Zenon DEF PhaseA2, TypeOK, Database
<1>4. ASSUME NEW p \in Procs, PhaseB1(p) PROVE db.staging[o].state = "complete"
  BY <1>0, <1>4, Zenon DEF PhaseB1, TypeOK, Database, StagingRow
<1>5. ASSUME NEW p \in Procs, RevertTx(p) PROVE db.staging[o].state = "complete"
  BY <1>0, <1>5, Zenon DEF RevertTx, TypeOK, Database, StagingRow
<1>6. ASSUME NEW p \in Procs, CommitDiscarded(p) PROVE db.staging[o].state = "complete"
  BY <1>0, <1>6, Zenon DEF CommitDiscarded, TypeOK, Database, StagingRow
<1>7. ASSUME NEW p \in Procs, FinalizeStep(p) PROVE db.staging[o].state = "complete"
  <2>1. CASE PhaseA2Fails(p) \/ RenamesDone(p) \/ AppendDone(p)
    BY <1>1, <2>1, Zenon DEF PhaseA2Fails, RenamesDone, AppendDone
  <2>2. ASSUME NEW x \in Outputs,
               Rename(p, x) \/ SyncRenamed(p, x) \/ RenameFails(p, x) \/ RevertRemove(p, x)
        PROVE  db.staging[o].state = "complete"
    BY <1>1, <2>2, Zenon DEF Rename, SyncRenamed, RenameFails, RevertRemove
  <2>3. CASE GiveUp(p) \/ \E x \in Outputs : RecalcTTL(p, x)
    BY <1>2, <2>3, GoroutineBystander, RecalcBystander, Zenon
  <2> QED BY <1>3, <1>4, <1>5, <1>6, <1>7, <2>1, <2>2, <2>3, ZenonT(60) DEF FinalizeStep
<1>8. ASSUME NEW k \in Killers, KillOpen(k) \/ KillTx(k) \/ Disconnect(k)
      PROVE  db.staging[o].state = "complete"
  <2>1. CASE KillTx(k)
    BY <1>0, <2>1, Zenon DEF KillTx, TypeOK, Database
  <2> QED BY <1>2, <1>8, <2>1, GoroutineBystander, Zenon
<1>9. CASE Cleanup
  BY <1>2, <1>9, RowBystander, RecalcBystander, BootBystander, Zenon DEF Cleanup
<1>10. ASSUME NEW x \in Outputs, CollectGarbage(x) PROVE db.staging[o].state = "complete"
  <2>1. CASE ExpireTTL(x)
    BY <1>0, <2>1, Zenon DEF ExpireTTL, TypeOK, Database, StagingRow
  <2>2. CASE DropStagingRow(x)
    BY <1>0, <2>2, Zenon DEF DropStagingRow, TypeOK, Database, NoRow
  <2>3. CASE Tombstone(x)
    BY <1>1, <2>3, Zenon DEF Tombstone
  <2> QED BY <1>2, <1>10, <2>1, <2>2, <2>3, RecalcBystander, BootBystander, ZenonT(60) DEF CollectGarbage
<1>11. CASE StartUp
  <2>1. CASE SweepOrphans
    <3>1. db'.staging[o] \in {db.staging[o], Recalculated(db.staging[o])}
      BY <1>0, <2>1, Zenon DEF SweepOrphans, TypeOK, Database
    <3> QED BY <1>0, <3>1, RecalculatedState, Zenon
  <2> QED BY <1>1, <1>11, <2>1, ZenonT(60) DEF StartUp, StartDaemon, RepairIntent, CatchUpDone, IntentsRepaired,
             EnsureTerminalEvents, SweepRunningToLost, CatchUp, CatchUpFails
<1>12. CASE Failure
  BY <1>1, <1>12, ZenonT(60) DEF Failure, Crash, Checkpoint, PowerLoss, EventsLost, DiskDamage
<1>13. CASE PickUp \/ UNCHANGED vars \/ DeleteRead \/ DeleteMark
  BY <1>2, <1>13, GoroutineBystander, BootBystander, RowBystander, Zenon
<1>14. CASE ProcessExit \/ CapOutcome
  BY <1>1, <1>14, ZenonT(60) DEF ProcessExit, CapOutcome
<1> QED BY <1>7, <1>8, <1>9, <1>10, <1>11, <1>12, <1>13, <1>14, Zenon DEF Next

\* Whatever happens to the files while the daemon is down, an output becomes complete only
\* with the declared content at its final path: repairOne verifies what an earlier life
\* has renamed before the commit.  Only a power loss may bring back rows.
THEOREM OutputsIntact == ASSUME "powerLoss" \notin Faults PROVE Spec => CommittedOutputsIntact
<1>1. ASSUME FinalizeInv, IntactInv, [Next]_vars, NEW o \in Outputs,
             db.staging[o].state # "complete", db'.staging[o].state = "complete"
      PROVE  o \in disk.final \ disk.bad
  <2>1. PICK p \in Procs : CommitDone(p)
    BY <1>1, OnlyCommitCompletes, Zenon
  <2>2. o \in job[p].outs
    BY <1>1, <2>1, ZenonT(60) DEF CommitDone
  <2>3. job[p].outs \subseteq disk.final \ disk.bad
    BY <1>1, <2>1, ZenonT(60) DEF CommitDone, At, IntactInv, Verified
  <2> QED BY <2>2, <2>3, Zenon
<1>2. FinalizeInv /\ IntactInv /\ [Next]_vars =>
        [\A o \in Outputs :
          db.staging[o].state # "complete" /\ db'.staging[o].state = "complete"
             => o \in disk.final \ disk.bad]_vars
  BY <1>1, Zenon
<1> QED BY <1>2, Invariance, IntactInvariance, PTL DEF Spec, CommittedOutputsIntact

=============================================================================
