--------------------------- MODULE FinalizeProofs ---------------------------
(***************************************************************************)
(* Finalize, proved for every set of outputs, every number of concurrent   *)
(* kill requests, every set of faults and every number of crashes.  The    *)
(* inductive invariant is FinalizeInv: one goroutine at a time owns the    *)
(* running row or the stored intent, and what is stored agrees with the    *)
(* stream.                                                                 *)
(***************************************************************************)
EXTENDS Finalize, TLAPS

-----------------------------------------------------------------------------
(* A frame lemma for the steps that neither write the outcome nor insert,  *)
(* rewrite or delete an intent.                                            *)

\* Goroutine q goes on in the same role, or ends.
SameRole(q) ==
    \/ job'[q].pc = "idle"
    \/ /\ Holds(q)' <=> Holds(q)
       /\ Owns(q)' <=> Owns(q)
       /\ Holds(q) => job'[q].ev = job[q].ev /\ job'[q].outs = job[q].outs
       /\ job'[q].pc = "commit" => job[q].pc = "commit"
       /\ job'[q].pc \notin {"idle", "exec"} => job'[q].ev \in Event

SameRow ==
    /\ db'.status = db.status /\ db'.result = db.result /\ db'.intent = db.intent
    /\ \A o \in Outputs : db'.staging[o].state \in {"pending_output", "committing"}
                            => db.staging[o].state \in {"pending_output", "committing"}

\* The invariant is preserved when no role and no row changes and the stream is
\* kept or removed.
LEMMA Frame ==
  ASSUME FinalizeInv, TypeOK', BootAlone', CleanerOwnsRow', durable' = durable,
         SameRow, disk'.done \in {None, disk.done}, \A q \in Procs : SameRole(q)
  PROVE  FinalizeInv'
<1>1. JobsCarryEvents'
  BY Zenon DEF JobsCarryEvents, SameRole
<1>2. RowsConsistent(db)' /\ RowsConsistent(durable)'
  BY Zenon DEF FinalizeInv, RowsConsistent, SameRow
<1>3. OneFinalizer'
  BY DEF FinalizeInv, OneFinalizer, SameRow, SameRole, Holds
<1>4. OneOwner'
  BY Zenon DEF FinalizeInv, OneOwner, SameRow, SameRole, Owns
<1>5. StreamMatches'
  BY Zenon DEF FinalizeInv, StreamMatches, OneFinalizer, SameRow, SameRole, Holds, At
<1> QED BY <1>1, <1>2, <1>3, <1>4, <1>5, Zenon DEF FinalizeInv

-----------------------------------------------------------------------------
(* What RecalcStagingTTL and the single-row updates preserve.              *)

\* RecalcStagingTTL yields a staging row.
LEMMA RecalculatedType ==
  ASSUME NEW r \in StagingRow
  PROVE  Recalculated(r) \in StagingRow
BY Zenon DEF Recalculated, StagingRow

\* Replacing the staging table.
LEMMA StagingType ==
  ASSUME NEW d \in Database, NEW s \in [Outputs -> StagingRow]
  PROVE  [d EXCEPT !.staging = s] \in Database
BY Zenon DEF Database

\* Replacing one staging row.
LEMMA StagingRowType ==
  ASSUME NEW d \in Database, NEW o \in Outputs, NEW r \in StagingRow
  PROVE  [d EXCEPT !.staging[o] = r] \in Database
BY Zenon DEF Database

-----------------------------------------------------------------------------
(* The steps of this kind, one lemma each.                                 *)

\* Rename preserves the invariant.
LEMMA RenameStep ==
  ASSUME NEW p \in Procs, NEW o \in Outputs, FinalizeInv, Rename(p, o)
  PROVE  FinalizeInv'
<1> USE DEF Rename
<1>1. TypeOK'
  BY ConstantsOK, ZenonT(60) DEF FinalizeInv, TypeOK, Disk, life, admin
<1>2. BootAlone' /\ CleanerOwnsRow'
  BY Zenon DEF FinalizeInv, BootAlone, CleanerOwnsRow, At, life, admin, TypeOK
<1>3. SameRow
  BY Zenon DEF FinalizeInv, SameRow, TypeOK
<1>4. \A r \in Procs : SameRole(r)
  BY Zenon DEF FinalizeInv, SameRole, Holds, Owns, At, TypeOK, JobsCarryEvents
<1>5. disk'.done \in {None, disk.done}
  BY Zenon DEF FinalizeInv, TypeOK, Disk
<1> QED BY <1>1, <1>2, <1>3, <1>4, <1>5, Frame, Zenon DEF life, admin

\* SyncRenamed preserves the invariant.
LEMMA SyncRenamedStep ==
  ASSUME NEW p \in Procs, NEW o \in Outputs, FinalizeInv, SyncRenamed(p, o)
  PROVE  FinalizeInv'
<1> USE DEF SyncRenamed
<1>1. TypeOK'
  BY ConstantsOK DEF FinalizeInv, TypeOK, Disk, Job, life, admin
<1>2. BootAlone' /\ CleanerOwnsRow'
  BY DEF FinalizeInv, BootAlone, CleanerOwnsRow, At, life, admin, TypeOK
<1>3. SameRow
  BY Zenon DEF FinalizeInv, SameRow, TypeOK
<1>4. \A r \in Procs : SameRole(r)
  BY DEF FinalizeInv, SameRole, Holds, Owns, At, TypeOK, JobsCarryEvents
<1>5. disk'.done \in {None, disk.done}
  BY Zenon DEF FinalizeInv, TypeOK, Disk
<1> QED BY <1>1, <1>2, <1>3, <1>4, <1>5, Frame, Zenon DEF life, admin

\* RenamesDone preserves the invariant.
LEMMA RenamesDoneStep ==
  ASSUME NEW p \in Procs, FinalizeInv, RenamesDone(p)
  PROVE  FinalizeInv'
<1> USE DEF RenamesDone
<1>1. TypeOK'
  BY ConstantsOK DEF FinalizeInv, TypeOK, Job, PCs, life, admin
<1>2. BootAlone' /\ CleanerOwnsRow'
  BY DEF FinalizeInv, BootAlone, CleanerOwnsRow, At, life, admin, TypeOK
<1>3. SameRow
  BY Zenon DEF FinalizeInv, SameRow, TypeOK
<1>4. \A r \in Procs : SameRole(r)
  BY DEF FinalizeInv, SameRole, Holds, Owns, At, TypeOK, JobsCarryEvents
<1>5. disk'.done \in {None, disk.done}
  BY Zenon DEF FinalizeInv, TypeOK, Disk
<1> QED BY <1>1, <1>2, <1>3, <1>4, <1>5, Frame, Zenon DEF life, admin

\* RenameFails preserves the invariant.
LEMMA RenameFailsStep ==
  ASSUME NEW p \in Procs, NEW o \in Outputs, FinalizeInv, RenameFails(p, o)
  PROVE  FinalizeInv'
<1> USE DEF RenameFails
<1>1. TypeOK'
  BY ConstantsOK, ZenonT(60) DEF FinalizeInv, TypeOK, Job, PCs, life, admin
<1>2. BootAlone' /\ CleanerOwnsRow'
  <2>1. \A q \in Procs : job'[q].pc = "idle" <=> job[q].pc = "idle"
    BY Zenon DEF FinalizeInv, TypeOK, At, Job
  <2>2. "repair" \in Procs /\ UNCHANGED <<db, boot, cleaner>>
    BY Zenon DEF Procs, life, admin
  <2> HIDE DEF RenameFails
  <2> QED BY <2>1, <2>2, Zenon DEF FinalizeInv, BootAlone, CleanerOwnsRow, At
<1>3. SameRow
  BY Zenon DEF FinalizeInv, SameRow, TypeOK
<1>4. \A r \in Procs : SameRole(r)
  BY DEF FinalizeInv, SameRole, Holds, Owns, At, TypeOK, JobsCarryEvents
<1>5. disk'.done \in {None, disk.done}
  BY Zenon DEF FinalizeInv, TypeOK, Disk
<1> QED BY <1>1, <1>2, <1>3, <1>4, <1>5, Frame, Zenon DEF life, admin

\* RevertRemove preserves the invariant.
LEMMA RevertRemoveStep ==
  ASSUME NEW p \in Procs, NEW o \in Outputs, FinalizeInv, RevertRemove(p, o)
  PROVE  FinalizeInv'
<1> USE DEF RevertRemove
<1>1. TypeOK'
  BY ConstantsOK, ZenonT(60) DEF FinalizeInv, TypeOK, Disk, Job, life, admin
<1>2. BootAlone' /\ CleanerOwnsRow'
  BY DEF FinalizeInv, BootAlone, CleanerOwnsRow, At, life, admin, TypeOK
<1>3. SameRow
  BY Zenon DEF FinalizeInv, SameRow, TypeOK
<1>4. \A r \in Procs : SameRole(r)
  BY DEF FinalizeInv, SameRole, Holds, Owns, At, TypeOK, JobsCarryEvents
<1>5. disk'.done \in {None, disk.done}
  BY Zenon DEF FinalizeInv, TypeOK, Disk
<1> QED BY <1>1, <1>2, <1>3, <1>4, <1>5, Frame, Zenon DEF life, admin

\* PhaseA2Fails preserves the invariant.
LEMMA PhaseA2FailsStep ==
  ASSUME NEW p \in Procs, FinalizeInv, PhaseA2Fails(p)
  PROVE  FinalizeInv'
<1> USE DEF PhaseA2Fails
<1>1. TypeOK'
  BY ConstantsOK, Zenon DEF FinalizeInv, TypeOK, Disk, Job, PCs, IdleJob, life, admin
<1>2. BootAlone' /\ CleanerOwnsRow'
  BY DEF FinalizeInv, BootAlone, CleanerOwnsRow, At, life, admin, TypeOK, IdleJob
<1>3. SameRow
  BY Zenon DEF FinalizeInv, SameRow, TypeOK
<1>4. \A r \in Procs : SameRole(r)
  BY Zenon DEF FinalizeInv, SameRole, Holds, Owns, At, TypeOK, JobsCarryEvents, IdleJob
<1>5. disk'.done \in {None, disk.done}
  BY Zenon DEF FinalizeInv, TypeOK, Disk
<1> QED BY <1>1, <1>2, <1>3, <1>4, <1>5, Frame, Zenon DEF life, admin

\* GiveUp preserves the invariant.
LEMMA GiveUpStep ==
  ASSUME NEW p \in Procs, FinalizeInv, GiveUp(p)
  PROVE  FinalizeInv'
<1> USE DEF GiveUp
<1>1. TypeOK'
  BY ConstantsOK, Zenon DEF FinalizeInv, TypeOK, Job, PCs, IdleJob, life, admin
<1>2. BootAlone' /\ CleanerOwnsRow'
  BY DEF FinalizeInv, BootAlone, CleanerOwnsRow, At, life, admin, TypeOK, IdleJob
<1>3. SameRow
  BY Zenon DEF FinalizeInv, SameRow, TypeOK
<1>4. \A r \in Procs : SameRole(r)
  BY Zenon DEF FinalizeInv, SameRole, Holds, Owns, At, TypeOK, JobsCarryEvents, IdleJob
<1>5. disk'.done \in {None, disk.done}
  BY Zenon DEF FinalizeInv, TypeOK, Disk
<1> QED BY <1>1, <1>2, <1>3, <1>4, <1>5, Frame, Zenon DEF life, admin

\* RecalcTTL preserves the invariant.
LEMMA RecalcTTLStep ==
  ASSUME NEW p \in Procs, NEW o \in Outputs, FinalizeInv, RecalcTTL(p, o)
  PROVE  FinalizeInv'
<1> USE DEF RecalcTTL
<1>1. TypeOK'
  <2>1. db' \in Database
    <3>1. Recalculated(db.staging[o]) \in StagingRow
      BY RecalculatedType, Zenon DEF FinalizeInv, TypeOK, Database
    <3> QED BY <3>1, StagingRowType DEF FinalizeInv, TypeOK
  <2>2. job' \in [Procs -> Job]
    BY ConstantsOK DEF FinalizeInv, TypeOK, Job, PCs, IdleJob
  <2> QED BY <2>1, <2>2, Zenon DEF FinalizeInv, TypeOK, BootSteps, life, admin
<1>2. BootAlone' /\ CleanerOwnsRow'
  BY DEF FinalizeInv, BootAlone, CleanerOwnsRow, At, life, admin, TypeOK, IdleJob, Job, Database, StagingRow, Recalculated
<1>3. SameRow
  BY DEF FinalizeInv, SameRow, TypeOK, Database, StagingRow, Recalculated
<1>4. \A r \in Procs : SameRole(r)
  BY Zenon DEF FinalizeInv, SameRole, Holds, Owns, At, TypeOK, JobsCarryEvents, IdleJob, Job
<1>5. disk'.done \in {None, disk.done}
  BY Zenon DEF FinalizeInv, TypeOK, Disk
<1> QED BY <1>1, <1>2, <1>3, <1>4, <1>5, Frame, Zenon DEF life, admin

\* Disconnect preserves the invariant.
LEMMA DisconnectStep ==
  ASSUME NEW k \in Killers, FinalizeInv, Disconnect(k)
  PROVE  FinalizeInv'
<1> USE DEF Disconnect
<1>1. TypeOK'
  BY ConstantsOK, Zenon DEF FinalizeInv, TypeOK, Job, PCs, IdleJob, Procs, life, admin
<1>2. BootAlone' /\ CleanerOwnsRow'
  BY Zenon DEF FinalizeInv, BootAlone, CleanerOwnsRow, At, life, admin, TypeOK, IdleJob, Procs
<1>3. SameRow
  BY Zenon DEF FinalizeInv, SameRow, TypeOK
<1>4. \A r \in Procs : SameRole(r)
  BY Zenon DEF FinalizeInv, SameRole, Holds, Owns, At, TypeOK, JobsCarryEvents, IdleJob, Procs
<1>5. disk'.done \in {None, disk.done}
  BY Zenon DEF FinalizeInv, TypeOK, Disk
<1> QED BY <1>1, <1>2, <1>3, <1>4, <1>5, Frame, Zenon DEF life, admin

\* KillOpen preserves the invariant.
LEMMA KillOpenStep ==
  ASSUME NEW k \in Killers, FinalizeInv, KillOpen(k)
  PROVE  FinalizeInv'
<1> USE DEF KillOpen
<1>1. TypeOK'
  BY ConstantsOK, Zenon DEF FinalizeInv, TypeOK, Job, PCs, IdleJob, Procs, Now, Event, Verdicts, life, admin
<1>2. BootAlone' /\ CleanerOwnsRow'
  BY ConstantsOK, Zenon DEF FinalizeInv, BootAlone, CleanerOwnsRow, At, life, admin, TypeOK, IdleJob, Procs, Now,
     Event, Verdicts
<1>3. SameRow
  BY Zenon DEF FinalizeInv, SameRow, TypeOK
<1>4. \A r \in Procs : SameRole(r)
  BY Zenon DEF FinalizeInv, SameRole, Holds, Owns, At, TypeOK, JobsCarryEvents, IdleJob, Procs, Now, Event, Verdicts
<1>5. disk'.done \in {None, disk.done}
  BY Zenon DEF FinalizeInv, TypeOK, Disk
<1> QED BY <1>1, <1>2, <1>3, <1>4, <1>5, Frame, Zenon DEF life, admin

\* ProcessExit preserves the invariant.
LEMMA ProcessExitStep ==
  ASSUME FinalizeInv, ProcessExit
  PROVE  FinalizeInv'
<1> USE DEF ProcessExit
<1>1. TypeOK'
  <2>1. disk' \in Disk
    <3>1. PICK outs \in SUBSET Outputs :
            disk' = [disk EXCEPT !.tmp = @ \cup outs, !.file = TRUE]
      BY ZenonT(60)
    <3> QED BY <3>1, ZenonT(60) DEF FinalizeInv, TypeOK, Disk
  <2>2. job' \in [Procs -> Job]
    BY ConstantsOK DEF FinalizeInv, TypeOK, Job, PCs, Procs, At, Now, Event, Verdicts
  <2> QED BY <2>1, <2>2, Zenon DEF FinalizeInv, TypeOK, BootSteps, life, admin
<1>2. BootAlone' /\ CleanerOwnsRow'
  BY Zenon DEF FinalizeInv, BootAlone, CleanerOwnsRow, At, life, admin, TypeOK, Procs, Now, Event, Verdicts
<1>3. SameRow
  BY Zenon DEF FinalizeInv, SameRow, TypeOK
<1>4. \A r \in Procs : SameRole(r)
  BY DEF FinalizeInv, SameRole, Holds, Owns, At, TypeOK, JobsCarryEvents, Procs, Now, Event, Verdicts
<1>5. disk'.done \in {None, disk.done}
  BY Zenon DEF FinalizeInv, TypeOK, Disk
<1> QED BY <1>1, <1>2, <1>3, <1>4, <1>5, Frame, Zenon DEF life, admin

\* CapOutcome preserves the invariant.
LEMMA CapOutcomeStep ==
  ASSUME FinalizeInv, CapOutcome
  PROVE  FinalizeInv'
<1> USE DEF CapOutcome
<1>1. TypeOK'
  BY ConstantsOK DEF FinalizeInv, TypeOK, Disk, Job, PCs, Procs, Now, Event, Verdicts, At, life, admin
<1>2. BootAlone' /\ CleanerOwnsRow'
  BY Zenon DEF FinalizeInv, BootAlone, CleanerOwnsRow, At, life, admin, TypeOK, Procs, Now, Event, Verdicts, Job
<1>3. SameRow
  BY Zenon DEF FinalizeInv, SameRow, TypeOK
<1>4. \A r \in Procs : SameRole(r)
  BY DEF FinalizeInv, SameRole, Holds, Owns, At, TypeOK, JobsCarryEvents, Procs, Now, Event, Verdicts, Job
<1>5. disk'.done \in {None, disk.done}
  BY Zenon DEF FinalizeInv, TypeOK, Disk
<1> QED BY <1>1, <1>2, <1>3, <1>4, <1>5, Frame, Zenon DEF life, admin

\* CatchUp preserves the invariant.
LEMMA CatchUpStep ==
  ASSUME NEW o \in Outputs, FinalizeInv, CatchUp(o)
  PROVE  FinalizeInv'
<1> USE DEF CatchUp
<1>1. TypeOK'
  <2>1. disk' \in Disk
    <3>1. CASE disk' = [disk EXCEPT !.tmp = @ \ {o}]
      BY <3>1, Zenon DEF FinalizeInv, TypeOK, Disk
    <3>2. CASE disk' = [disk EXCEPT !.tmp = @ \ {o}, !.final = @ \cup {o}]
      BY <3>2, ZenonT(60) DEF FinalizeInv, TypeOK, Disk
    <3>3. CASE disk' = [disk EXCEPT !.tmp = @ \ {o}, !.final = @ \cup {o},
                                    !.unsynced = @ \cup {o}]
      BY <3>3, Zenon DEF FinalizeInv, TypeOK, Disk
    <3>4. CASE disk' = disk
      BY <3>4, Zenon DEF FinalizeInv, TypeOK
    <3> QED BY <3>1, <3>2, <3>3, <3>4, Zenon
  <2>2. job' \in [Procs -> Job]
    BY ConstantsOK DEF FinalizeInv, TypeOK, Job, PCs, Procs, At
  <2> QED BY <2>1, <2>2, Zenon DEF FinalizeInv, TypeOK, BootSteps, life, admin
<1>2. BootAlone' /\ CleanerOwnsRow'
  BY Zenon DEF FinalizeInv, BootAlone, CleanerOwnsRow, At, life, admin, TypeOK, Procs, Job
<1>3. SameRow
  BY Zenon DEF FinalizeInv, SameRow, TypeOK
<1>4. \A r \in Procs : SameRole(r)
  BY DEF FinalizeInv, SameRole, Holds, Owns, At, TypeOK, JobsCarryEvents, Procs, Job
<1>5. disk'.done \in {None, disk.done}
  BY ZenonT(60) DEF FinalizeInv, TypeOK, Disk
<1> QED BY <1>1, <1>2, <1>3, <1>4, <1>5, Frame, Zenon DEF life, admin

\* CatchUpFails preserves the invariant.
LEMMA CatchUpFailsStep ==
  ASSUME NEW o \in Outputs, FinalizeInv, CatchUpFails(o)
  PROVE  FinalizeInv'
<1> USE DEF CatchUpFails
<1>1. TypeOK'
  <2>1. job' \in [Procs -> Job]
    <3>1. job["repair"] \in Job
      BY Zenon DEF FinalizeInv, TypeOK, Procs
    <3>2. [job["repair"] EXCEPT !.pc = "revert", !.todo = job["repair"].outs] \in Job
      BY <3>1, Zenon DEF Job, PCs
    <3> QED BY <3>2, Zenon DEF FinalizeInv, TypeOK
  <2> QED BY <2>1, Zenon DEF FinalizeInv, TypeOK, BootSteps, life, admin
<1>2. BootAlone' /\ CleanerOwnsRow'
  BY Zenon DEF FinalizeInv, BootAlone, CleanerOwnsRow, At, life, admin, TypeOK, Procs, Job
<1>3. SameRow
  BY Zenon DEF FinalizeInv, SameRow, TypeOK
<1>4. \A r \in Procs : SameRole(r)
  BY DEF FinalizeInv, SameRole, Holds, Owns, At, TypeOK, JobsCarryEvents, Procs, Job
<1>5. disk'.done \in {None, disk.done}
  BY Zenon DEF FinalizeInv, TypeOK, Disk
<1> QED BY <1>1, <1>2, <1>3, <1>4, <1>5, Frame, Zenon DEF life, admin

\* CatchUpDone preserves the invariant.
LEMMA CatchUpDoneStep ==
  ASSUME FinalizeInv, CatchUpDone
  PROVE  FinalizeInv'
<1> USE DEF CatchUpDone
<1>1. TypeOK'
  BY ConstantsOK DEF FinalizeInv, TypeOK, Job, PCs, Procs, At, life, admin
<1>2. BootAlone' /\ CleanerOwnsRow'
  BY Zenon DEF FinalizeInv, BootAlone, CleanerOwnsRow, At, life, admin, TypeOK, Procs, Job
<1>3. SameRow
  BY Zenon DEF FinalizeInv, SameRow, TypeOK
<1>4. \A r \in Procs : SameRole(r)
  BY DEF FinalizeInv, SameRole, Holds, Owns, At, TypeOK, JobsCarryEvents, Procs, Job
<1>5. disk'.done \in {None, disk.done}
  BY Zenon DEF FinalizeInv, TypeOK, Disk
<1> QED BY <1>1, <1>2, <1>3, <1>4, <1>5, Frame, Zenon DEF life, admin

\* DeleteRead preserves the invariant.
LEMMA DeleteReadStep ==
  ASSUME FinalizeInv, DeleteRead
  PROVE  FinalizeInv'
<1> USE DEF DeleteRead
<1>1. TypeOK'
  BY ConstantsOK, Zenon DEF FinalizeInv, TypeOK, life, admin
<1>2. BootAlone' /\ CleanerOwnsRow'
  BY Zenon DEF FinalizeInv, BootAlone, CleanerOwnsRow, At, life, admin, TypeOK
<1>3. SameRow
  BY Zenon DEF FinalizeInv, SameRow, TypeOK
<1>4. \A r \in Procs : SameRole(r)
  BY Zenon DEF FinalizeInv, SameRole, Holds, Owns, At, TypeOK, JobsCarryEvents
<1>5. disk'.done \in {None, disk.done}
  BY Zenon DEF FinalizeInv, TypeOK, Disk
<1> QED BY <1>1, <1>2, <1>3, <1>4, <1>5, Frame, Zenon DEF life, admin

\* CleanerPick preserves the invariant.
LEMMA CleanerPickStep ==
  ASSUME FinalizeInv, CleanerPick
  PROVE  FinalizeInv'
<1> USE DEF CleanerPick
<1>1. TypeOK'
  BY ConstantsOK, Zenon DEF FinalizeInv, TypeOK, life, admin
<1>2. BootAlone' /\ CleanerOwnsRow'
  BY Zenon DEF FinalizeInv, BootAlone, CleanerOwnsRow, At, life, admin, TypeOK
<1>3. SameRow
  BY Zenon DEF FinalizeInv, SameRow, TypeOK
<1>4. \A r \in Procs : SameRole(r)
  BY Zenon DEF FinalizeInv, SameRole, Holds, Owns, At, TypeOK, JobsCarryEvents
<1>5. disk'.done \in {None, disk.done}
  BY Zenon DEF FinalizeInv, TypeOK, Disk
<1> QED BY <1>1, <1>2, <1>3, <1>4, <1>5, Frame, Zenon DEF life, admin

\* CleanerFiles preserves the invariant.
LEMMA CleanerFilesStep ==
  ASSUME FinalizeInv, CleanerFiles
  PROVE  FinalizeInv'
<1> USE DEF CleanerFiles
<1>1. TypeOK'
  BY ConstantsOK, Zenon DEF FinalizeInv, TypeOK, Disk, life, admin
<1>2. BootAlone' /\ CleanerOwnsRow'
  BY Zenon DEF FinalizeInv, BootAlone, CleanerOwnsRow, At, life, admin, TypeOK
<1>3. SameRow
  BY Zenon DEF FinalizeInv, SameRow, TypeOK
<1>4. \A r \in Procs : SameRole(r)
  BY Zenon DEF FinalizeInv, SameRole, Holds, Owns, At, TypeOK, JobsCarryEvents
<1>5. disk'.done \in {None, disk.done}
  BY Zenon DEF FinalizeInv, TypeOK, Disk
<1> QED BY <1>1, <1>2, <1>3, <1>4, <1>5, Frame, Zenon DEF life, admin

\* CleanerRecalc preserves the invariant.
LEMMA CleanerRecalcStep ==
  ASSUME FinalizeInv, CleanerRecalc
  PROVE  FinalizeInv'
<1> USE DEF CleanerRecalc
<1>1. TypeOK'
  <2>1. db' \in Database
    <3>1. \A o \in Outputs : db.staging[o] \in StagingRow
      BY Zenon DEF FinalizeInv, TypeOK, Database
    <3>2. [o \in Outputs |-> IF db.staging[o].ttl = "zero" THEN Recalculated(db.staging[o])
                            ELSE db.staging[o]] \in [Outputs -> StagingRow]
      BY <3>1, RecalculatedType, Zenon
    <3> QED BY <3>2, StagingType, Zenon DEF FinalizeInv, TypeOK
  <2> QED BY <2>1, Zenon DEF FinalizeInv, TypeOK, BootSteps, life, admin
<1>2. BootAlone' /\ CleanerOwnsRow'
  BY Zenon DEF FinalizeInv, BootAlone, CleanerOwnsRow, At, life, admin, TypeOK, Database, StagingRow, Recalculated
<1>3. SameRow
  BY DEF FinalizeInv, SameRow, TypeOK, Database, StagingRow, Recalculated
<1>4. \A r \in Procs : SameRole(r)
  BY Zenon DEF FinalizeInv, SameRole, Holds, Owns, At, TypeOK, JobsCarryEvents
<1>5. disk'.done \in {None, disk.done}
  BY Zenon DEF FinalizeInv, TypeOK, Disk
<1> QED BY <1>1, <1>2, <1>3, <1>4, <1>5, Frame, Zenon DEF life, admin

\* DrainNeedsRecalc preserves the invariant.
LEMMA DrainNeedsRecalcStep ==
  ASSUME NEW o \in Outputs, FinalizeInv, DrainNeedsRecalc(o)
  PROVE  FinalizeInv'
<1> USE DEF DrainNeedsRecalc
<1>1. TypeOK'
  <2>1. db' \in Database
    <3>1. Recalculated(db.staging[o]) \in StagingRow
      BY RecalculatedType, Zenon DEF FinalizeInv, TypeOK, Database
    <3> QED BY <3>1, StagingRowType, Zenon DEF FinalizeInv, TypeOK
  <2> QED BY <2>1, Zenon DEF FinalizeInv, TypeOK, BootSteps, life, admin
<1>2. BootAlone' /\ CleanerOwnsRow'
  BY Zenon DEF FinalizeInv, BootAlone, CleanerOwnsRow, At, life, admin, TypeOK, Database, StagingRow, Recalculated
<1>3. SameRow
  BY DEF FinalizeInv, SameRow, TypeOK, Database, StagingRow, Recalculated
<1>4. \A r \in Procs : SameRole(r)
  BY Zenon DEF FinalizeInv, SameRole, Holds, Owns, At, TypeOK, JobsCarryEvents
<1>5. disk'.done \in {None, disk.done}
  BY Zenon DEF FinalizeInv, TypeOK, Disk
<1> QED BY <1>1, <1>2, <1>3, <1>4, <1>5, Frame, Zenon DEF life, admin

\* ExpireTTL preserves the invariant.
LEMMA ExpireTTLStep ==
  ASSUME NEW o \in Outputs, FinalizeInv, ExpireTTL(o)
  PROVE  FinalizeInv'
<1> USE DEF ExpireTTL
<1>1. TypeOK'
  <2>1. db' \in Database
    <3>1. [db.staging[o] EXCEPT !.state = "deleting"] \in StagingRow
      BY SMTT(40) DEF FinalizeInv, TypeOK, Database, StagingRow, StagingStates
    <3> QED BY <3>1, StagingRowType, Zenon DEF FinalizeInv, TypeOK
  <2> QED BY <2>1, Zenon DEF FinalizeInv, TypeOK, BootSteps, life, admin
<1>2. BootAlone' /\ CleanerOwnsRow'
  BY Zenon DEF FinalizeInv, BootAlone, CleanerOwnsRow, At, life, admin, TypeOK, Database, StagingRow
<1>3. SameRow
  BY DEF FinalizeInv, SameRow, TypeOK, Database, StagingRow
<1>4. \A r \in Procs : SameRole(r)
  BY Zenon DEF FinalizeInv, SameRole, Holds, Owns, At, TypeOK, JobsCarryEvents
<1>5. disk'.done \in {None, disk.done}
  BY Zenon DEF FinalizeInv, TypeOK, Disk
<1> QED BY <1>1, <1>2, <1>3, <1>4, <1>5, Frame, Zenon DEF life, admin

\* Tombstone preserves the invariant.
LEMMA TombstoneStep ==
  ASSUME NEW o \in Outputs, FinalizeInv, Tombstone(o)
  PROVE  FinalizeInv'
<1> USE DEF Tombstone
<1>1. TypeOK'
  BY ConstantsOK, ZenonT(60) DEF FinalizeInv, TypeOK, Disk, SourceExists, life, admin
<1>2. BootAlone' /\ CleanerOwnsRow'
  BY Zenon DEF FinalizeInv, BootAlone, CleanerOwnsRow, At, life, admin, TypeOK
<1>3. SameRow
  BY Zenon DEF FinalizeInv, SameRow, TypeOK
<1>4. \A r \in Procs : SameRole(r)
  BY Zenon DEF FinalizeInv, SameRole, Holds, Owns, At, TypeOK, JobsCarryEvents
<1>5. disk'.done \in {None, disk.done}
  BY Zenon DEF FinalizeInv, TypeOK, Disk
<1> QED BY <1>1, <1>2, <1>3, <1>4, <1>5, Frame, Zenon DEF life, admin

\* UnlinkTombstone preserves the invariant.
LEMMA UnlinkTombstoneStep ==
  ASSUME NEW o \in Outputs, FinalizeInv, UnlinkTombstone(o)
  PROVE  FinalizeInv'
<1> USE DEF UnlinkTombstone
<1>1. TypeOK'
  BY ConstantsOK, Zenon DEF FinalizeInv, TypeOK, Disk, life, admin
<1>2. BootAlone' /\ CleanerOwnsRow'
  BY Zenon DEF FinalizeInv, BootAlone, CleanerOwnsRow, At, life, admin, TypeOK
<1>3. SameRow
  BY Zenon DEF FinalizeInv, SameRow, TypeOK
<1>4. \A r \in Procs : SameRole(r)
  BY Zenon DEF FinalizeInv, SameRole, Holds, Owns, At, TypeOK, JobsCarryEvents
<1>5. disk'.done \in {None, disk.done}
  BY Zenon DEF FinalizeInv, TypeOK, Disk
<1> QED BY <1>1, <1>2, <1>3, <1>4, <1>5, Frame, Zenon DEF life, admin

\* DropStagingRow preserves the invariant.
LEMMA DropStagingRowStep ==
  ASSUME NEW o \in Outputs, FinalizeInv, DropStagingRow(o)
  PROVE  FinalizeInv'
<1> USE DEF DropStagingRow
<1>1. TypeOK'
  BY ConstantsOK, ZenonT(60) DEF FinalizeInv, TypeOK, Database, StagingRow, StagingStates, NoRow, life, admin
<1>2. BootAlone' /\ CleanerOwnsRow'
  BY Zenon DEF FinalizeInv, BootAlone, CleanerOwnsRow, At, life, admin, TypeOK, Database, StagingRow, NoRow
<1>3. SameRow
  BY Zenon DEF FinalizeInv, SameRow, TypeOK, Database, StagingRow, NoRow
<1>4. \A r \in Procs : SameRole(r)
  BY Zenon DEF FinalizeInv, SameRole, Holds, Owns, At, TypeOK, JobsCarryEvents
<1>5. disk'.done \in {None, disk.done}
  BY Zenon DEF FinalizeInv, TypeOK, Disk
<1> QED BY <1>1, <1>2, <1>3, <1>4, <1>5, Frame, Zenon DEF life, admin

\* DiskDamage preserves the invariant.
LEMMA DiskDamageStep ==
  ASSUME NEW o \in Outputs, FinalizeInv, DiskDamage(o)
  PROVE  FinalizeInv'
<1> USE DEF DiskDamage
<1>1. TypeOK'
  <2>1. disk' \in Disk
    <3>1. CASE disk' = [disk EXCEPT !.bad = @ \cup {o}]
      BY <3>1, Zenon DEF FinalizeInv, TypeOK, Disk
    <3>2. CASE disk' = [disk EXCEPT !.tmp = @ \ {o}, !.final = @ \ {o}, !.bad = @ \ {o},
                                    !.unsynced = @ \ {o}]
      BY <3>2, ZenonT(60) DEF FinalizeInv, TypeOK, Disk
    <3> QED BY <3>1, <3>2, Zenon
  <2> QED BY <2>1, Zenon DEF FinalizeInv, TypeOK, BootSteps, life, admin
<1>2. BootAlone' /\ CleanerOwnsRow'
  BY Zenon DEF FinalizeInv, BootAlone, CleanerOwnsRow, At, life, admin, TypeOK
<1>3. SameRow
  BY Zenon DEF FinalizeInv, SameRow, TypeOK
<1>4. \A r \in Procs : SameRole(r)
  BY Zenon DEF FinalizeInv, SameRole, Holds, Owns, At, TypeOK, JobsCarryEvents
<1>5. disk'.done \in {None, disk.done}
  BY Zenon DEF FinalizeInv, TypeOK, Disk
<1> QED BY <1>1, <1>2, <1>3, <1>4, <1>5, Frame, Zenon DEF life, admin

\* EventsLost preserves the invariant.
LEMMA EventsLostStep ==
  ASSUME FinalizeInv, EventsLost
  PROVE  FinalizeInv'
<1> USE DEF EventsLost
<1>1. TypeOK'
  BY ConstantsOK, Zenon DEF FinalizeInv, TypeOK, Disk, life, admin
<1>2. BootAlone' /\ CleanerOwnsRow'
  BY Zenon DEF FinalizeInv, BootAlone, CleanerOwnsRow, At, life, admin, TypeOK
<1>3. SameRow
  BY Zenon DEF FinalizeInv, SameRow, TypeOK
<1>4. \A r \in Procs : SameRole(r)
  BY Zenon DEF FinalizeInv, SameRole, Holds, Owns, At, TypeOK, JobsCarryEvents
<1>5. disk'.done \in {None, disk.done}
  BY Zenon DEF FinalizeInv, TypeOK, Disk
<1> QED BY <1>1, <1>2, <1>3, <1>4, <1>5, Frame, Zenon DEF life, admin

\* StartDaemon preserves the invariant.
LEMMA StartDaemonStep ==
  ASSUME FinalizeInv, StartDaemon
  PROVE  FinalizeInv'
<1> USE DEF StartDaemon
<1>1. TypeOK'
  BY ConstantsOK, Zenon DEF FinalizeInv, TypeOK, BootSteps, life, admin
<1>2. BootAlone' /\ CleanerOwnsRow'
  BY Zenon DEF FinalizeInv, BootAlone, CleanerOwnsRow, At, life, admin, TypeOK
<1>3. SameRow
  BY Zenon DEF FinalizeInv, SameRow, TypeOK
<1>4. \A r \in Procs : SameRole(r)
  BY Zenon DEF FinalizeInv, SameRole, Holds, Owns, At, TypeOK, JobsCarryEvents
<1>5. disk'.done \in {None, disk.done}
  BY Zenon DEF FinalizeInv, TypeOK, Disk
<1> QED BY <1>1, <1>2, <1>3, <1>4, <1>5, Frame, Zenon DEF life, admin

\* IntentsRepaired preserves the invariant.
LEMMA IntentsRepairedStep ==
  ASSUME FinalizeInv, IntentsRepaired
  PROVE  FinalizeInv'
<1> USE DEF IntentsRepaired
<1>1. TypeOK'
  BY ConstantsOK, Zenon DEF FinalizeInv, TypeOK, BootSteps, life, admin
<1>2. BootAlone' /\ CleanerOwnsRow'
  BY Zenon DEF FinalizeInv, BootAlone, CleanerOwnsRow, At, life, admin, TypeOK, Procs
<1>3. SameRow
  BY Zenon DEF FinalizeInv, SameRow, TypeOK
<1>4. \A r \in Procs : SameRole(r)
  BY Zenon DEF FinalizeInv, SameRole, Holds, Owns, At, TypeOK, JobsCarryEvents, Procs
<1>5. disk'.done \in {None, disk.done}
  BY Zenon DEF FinalizeInv, TypeOK, Disk
<1> QED BY <1>1, <1>2, <1>3, <1>4, <1>5, Frame, Zenon DEF life, admin

\* SweepOrphans preserves the invariant.
LEMMA SweepOrphansStep ==
  ASSUME FinalizeInv, SweepOrphans
  PROVE  FinalizeInv'
<1> USE DEF SweepOrphans
<1>1. TypeOK'
  <2>1. db' \in Database
    <3>1. \A o \in Outputs : db.staging[o] \in StagingRow
      BY Zenon DEF FinalizeInv, TypeOK, Database
    <3>2. [o \in Outputs |-> IF db.staging[o].ttl = "zero" THEN Recalculated(db.staging[o])
                            ELSE db.staging[o]] \in [Outputs -> StagingRow]
      BY <3>1, RecalculatedType, Zenon
    <3> QED BY <3>2, StagingType, Zenon DEF FinalizeInv, TypeOK
  <2>2. disk' \in Disk
    BY ConstantsOK, ZenonT(60) DEF FinalizeInv, TypeOK, Disk
  <2> QED BY <2>1, <2>2, Zenon DEF FinalizeInv, TypeOK, BootSteps, life, admin
<1>2. BootAlone' /\ CleanerOwnsRow'
  BY Zenon DEF FinalizeInv, BootAlone, CleanerOwnsRow, At, life, admin, TypeOK, Procs, Database, StagingRow,
     Recalculated
<1>3. SameRow
  BY DEF FinalizeInv, SameRow, TypeOK, Database, StagingRow, Recalculated
<1>4. \A r \in Procs : SameRole(r)
  BY Zenon DEF FinalizeInv, SameRole, Holds, Owns, At, TypeOK, JobsCarryEvents, Procs
<1>5. disk'.done \in {None, disk.done}
  BY Zenon DEF FinalizeInv, TypeOK, Disk
<1> QED BY <1>1, <1>2, <1>3, <1>4, <1>5, Frame, Zenon DEF life, admin

\* So does a step that changes nothing the invariant speaks of.
LEMMA UnchangedStep ==
  ASSUME FinalizeInv, TypeOK', UNCHANGED <<db, durable, disk, job, boot, cleaner>>
  PROVE  FinalizeInv'
<1>1. BootAlone' /\ CleanerOwnsRow'
  BY Zenon DEF FinalizeInv, BootAlone, CleanerOwnsRow, At
<1>2. SameRow /\ \A q \in Procs : SameRole(q)
  BY Zenon DEF FinalizeInv, JobsCarryEvents, SameRow, SameRole, Holds, Owns
<1> QED BY <1>1, <1>2, Frame, Zenon

-----------------------------------------------------------------------------
(* The steps that write the outcome, an intent, or the durable database.   *)

\* A done event stamped now is an event.
LEMMA EventType ==
  ASSUME TypeOK, NEW v \in Verdicts
  PROVE  Now(v) \in Event
BY Zenon DEF TypeOK, Now, Event

\* The goroutine inside Phase B or the commit works on the stored intent, and that
\* intent names every Phase B row.
LEMMA FinalizerOwnsIntent ==
  ASSUME FinalizeInv, NEW p \in Procs, Holds(p)
  PROVE  /\ db.intent # None /\ db.intent.ev = job[p].ev /\ db.intent.outs = job[p].outs
         /\ \A o \in Outputs : db.staging[o].state \in {"pending_output", "committing"}
                               => o \in job[p].outs
<1>1. db.intent # None /\ db.intent.ev = job[p].ev /\ db.intent.outs = job[p].outs
  BY Zenon DEF FinalizeInv, OneFinalizer
<1> QED BY <1>1, Zenon DEF FinalizeInv, RowsConsistent

\* The pickup makes the waiter the owner of a running row without an intent.
LEMMA PickUpStep ==
  ASSUME FinalizeInv, PickUp
  PROVE  FinalizeInv'
<1> USE DEF PickUp
<1>0. \A q \in Procs : /\ job'[q] = IF q = "waiter" THEN [job[q] EXCEPT !.pc = "exec"] ELSE job[q]
                       /\ job[q] \in Job
  BY Zenon DEF FinalizeInv, TypeOK
<1>1. TypeOK'
  <2>1. db' \in Database
    BY Zenon DEF FinalizeInv, TypeOK, Database
  <2>2. job' \in [Procs -> Job]
    BY ZenonT(60) DEF FinalizeInv, TypeOK, Job, PCs
  <2> QED BY <2>1, <2>2, Zenon DEF FinalizeInv, TypeOK, life, admin
<1>2. /\ db'.status = "running" /\ db'.result = db.result /\ db'.intent = db.intent
      /\ db'.staging = db.staging
  BY Zenon DEF FinalizeInv, TypeOK, Database
<1>3. JobsCarryEvents'
  BY <1>0 DEF FinalizeInv, JobsCarryEvents, Job
<1>4. RowsConsistent(db)' /\ RowsConsistent(durable)'
  BY <1>2, Zenon DEF FinalizeInv, RowsConsistent
<1>5. OneFinalizer' /\ OneOwner'
  BY <1>0, <1>2 DEF FinalizeInv, OneFinalizer, OneOwner, Holds, Owns, Job
<1>6. BootAlone' /\ CleanerOwnsRow'
  BY <1>0, <1>2 DEF FinalizeInv, BootAlone, CleanerOwnsRow, At, life, admin, Job, Procs
<1>7. StreamMatches'
  BY <1>0, <1>2 DEF FinalizeInv, StreamMatches, At, Job
<1> QED BY <1>1, <1>3, <1>4, <1>5, <1>6, <1>7, Zenon DEF FinalizeInv

\* Phase A2 turns the owner of the running row into the one finalizer.
LEMMA PhaseA2Step ==
  ASSUME NEW p \in Procs, FinalizeInv, PhaseA2(p)
  PROVE  FinalizeInv'
<1> USE DEF PhaseA2
<1>0. \A q \in Procs : /\ job[q] \in Job
                       /\ q # p => job'[q] = job[q]
  BY Zenon DEF FinalizeInv, TypeOK
<1>0a. /\ job'[p].pc \in {"append", "b1"} /\ job'[p].ev = job[p].ev /\ job'[p].outs = job[p].outs
       /\ job[p].ev \in Event /\ job[p].outs \in SUBSET Outputs
  BY <1>0, Zenon DEF FinalizeInv, TypeOK, Job, JobsCarryEvents, At
<1>1. TypeOK'
  <2>1. db' \in Database
    <3>1. [phase |-> "prepared", ev |-> job[p].ev, outs |-> job[p].outs] \in Intent
      BY <1>0a, Zenon DEF Intent
    <3>2. [o \in Outputs |-> IF o \in job[p].outs
              THEN [state |-> "pending_output", path |-> "tmp", ttl |-> "initial"]
              ELSE db.staging[o]] \in [Outputs -> StagingRow]
      BY Zenon DEF FinalizeInv, TypeOK, Database, StagingRow, StagingStates
    <3> QED BY <3>1, <3>2, ZenonT(60) DEF FinalizeInv, TypeOK, Database
  <2>2. job' \in [Procs -> Job]
    BY DEF FinalizeInv, TypeOK, Job, PCs
  <2> QED BY <2>1, <2>2, Zenon DEF FinalizeInv, TypeOK, life, admin
<1>2. /\ db'.status = db.status /\ db'.result = db.result
      /\ db'.intent = [phase |-> "prepared", ev |-> job[p].ev, outs |-> job[p].outs]
      /\ db'.intent # None
      /\ \A o \in Outputs : db'.staging[o].state \in {"pending_output", "committing"}
            => o \in job[p].outs \/ db.staging[o].state \in {"pending_output", "committing"}
  <2>1. db'.intent = [phase |-> "prepared", ev |-> job[p].ev, outs |-> job[p].outs]
    BY Zenon DEF FinalizeInv, TypeOK, Database
  <2>2. db'.intent # None
    BY <2>1, <1>0a, ConstantsOK DEF Intent
  <2> QED BY <2>1, <2>2, Zenon DEF FinalizeInv, TypeOK, Database
<1>3. JobsCarryEvents'
  BY <1>0, <1>0a, Zenon DEF FinalizeInv, JobsCarryEvents
<1>4a. db.status = "running" /\ db.intent = None
  BY Zenon DEF FinalizeInv, OneOwner, Owns, At
<1>4. RowsConsistent(db)' /\ RowsConsistent(durable)'
  BY <1>2, <1>4a DEF FinalizeInv, RowsConsistent
<1>5a. \A q \in Procs : q # p => ~Holds(q)' /\ ~Owns(q)'
  BY <1>0, <1>4a, Zenon DEF FinalizeInv, OneFinalizer, OneOwner, Holds, Owns, At
<1>5. OneFinalizer' /\ OneOwner'
  BY <1>0a, <1>5a, <1>2 DEF OneFinalizer, OneOwner, Holds, Owns
<1>6. BootAlone' /\ CleanerOwnsRow'
  BY <1>0, <1>2, <1>4a, SMTT(40) DEF FinalizeInv, BootAlone, CleanerOwnsRow, At, life, admin, Procs
<1>7. StreamMatches'
  BY <1>0, <1>0a, <1>2 DEF FinalizeInv, StreamMatches, At
<1> QED BY <1>1, <1>3, <1>4, <1>5, <1>6, <1>7, Zenon DEF FinalizeInv

\* Phase B step 1 keeps the intent's event and outputs.
LEMMA PhaseB1Step ==
  ASSUME NEW p \in Procs, FinalizeInv, PhaseB1(p)
  PROVE  FinalizeInv'
<1> USE DEF PhaseB1
<1>0. \A q \in Procs : /\ job[q] \in Job
                       /\ q # p => job'[q] = job[q]
  BY Zenon DEF FinalizeInv, TypeOK
<1>0a. job'[p].pc = "rename" /\ job'[p].ev = job[p].ev /\ job'[p].outs = job[p].outs
  BY <1>0, Zenon DEF FinalizeInv, TypeOK, Job
<1>0b. db.intent \in Intent
  BY Zenon DEF FinalizeInv, TypeOK, Database
<1>2. /\ db'.status = db.status /\ db'.result = db.result
      /\ db'.intent = [db.intent EXCEPT !.phase = "committing"]
      /\ \A o \in Outputs : db'.staging[o].state \in {"pending_output", "committing"}
            => db.staging[o].state \in {"pending_output", "committing"}
  BY Zenon DEF FinalizeInv, TypeOK, Database, StagingRow
<1>2a. /\ db'.intent \in Intent /\ db'.intent # None
       /\ db'.intent.ev = db.intent.ev /\ db'.intent.outs = db.intent.outs
  BY <1>0b, <1>2, ConstantsOK DEF Intent
<1>1. TypeOK'
  <2>1. db' \in Database
    <3>2. [o \in Outputs |->
                   IF o \in job[p].outs /\ db.staging[o].state = "pending_output"
                   THEN [db.staging[o] EXCEPT !.state = "committing"]
                   ELSE db.staging[o]] \in [Outputs -> StagingRow]
      BY SMTT(40) DEF FinalizeInv, TypeOK, Database, StagingRow, StagingStates
    <3> QED BY <1>2, <1>2a, <3>2, ZenonT(60) DEF FinalizeInv, TypeOK, Database
  <2>2. job' \in [Procs -> Job]
    BY ZenonT(60) DEF FinalizeInv, TypeOK, Job, PCs
  <2> QED BY <2>1, <2>2, Zenon DEF FinalizeInv, TypeOK, life, admin
<1>3. JobsCarryEvents'
  BY <1>0, <1>0a, Zenon DEF FinalizeInv, JobsCarryEvents, At
<1>4. RowsConsistent(db)' /\ RowsConsistent(durable)'
  BY <1>2, <1>2a, Zenon DEF FinalizeInv, RowsConsistent
<1>5. OneFinalizer' /\ OneOwner'
  <2>1. \A q \in Procs : Holds(q)' <=> Holds(q)
    BY <1>0, <1>0a, Zenon DEF Holds, At
  <2>2. \A q \in Procs : Owns(q)' <=> Owns(q)
    BY <1>0, <1>0a, ZenonT(60) DEF Owns, At
  <2>3. \A q \in Procs : job'[q].ev = job[q].ev /\ job'[q].outs = job[q].outs
    BY <1>0, <1>0a, Zenon
  <2>4. \A q \in Procs : ~Owns(q)
    BY Zenon DEF FinalizeInv, OneOwner
  <2> QED BY <2>1, <2>2, <2>3, <2>4, <1>2a, ZenonT(60) DEF FinalizeInv, OneFinalizer, OneOwner
<1>6. BootAlone' /\ CleanerOwnsRow'
  BY <1>0, <1>2, Zenon DEF FinalizeInv, BootAlone, CleanerOwnsRow, At, life, admin, Procs
<1>7. StreamMatches'
  BY <1>0, <1>0a, <1>2, ZenonT(60) DEF FinalizeInv, StreamMatches, At
<1> QED BY <1>1, <1>3, <1>4, <1>5, <1>6, <1>7, Zenon DEF FinalizeInv

\* The revert rewrites intent and goroutine alike, and leaves no Phase B row.
LEMMA RevertTxStep ==
  ASSUME NEW p \in Procs, FinalizeInv, RevertTx(p)
  PROVE  FinalizeInv'
<1> USE DEF RevertTx
<1> DEFINE ev == Now("output_commit_failed")
<1>0. \A q \in Procs : /\ job[q] \in Job
                       /\ q # p => job'[q] = job[q]
  BY Zenon DEF FinalizeInv, TypeOK
<1>0a. /\ job'[p] = [pc |-> "append", ev |-> ev, outs |-> {}, todo |-> {}]
       /\ ev \in Event
  BY EventType, Zenon DEF FinalizeInv, TypeOK, Verdicts
<1> HIDE DEF ev
<1>0b. db.intent # None /\ db.intent.outs = job[p].outs
  BY Zenon DEF FinalizeInv, OneFinalizer, Holds, At
<1>2. /\ db'.status = db.status /\ db'.result = db.result
      /\ db'.intent = [phase |-> "prepared", ev |-> ev, outs |-> {}]
      /\ \A o \in Outputs : db'.staging[o].state =
            IF o \in job[p].outs /\ db.staging[o].state # "none" THEN "deleting"
            ELSE db.staging[o].state
  BY <1>0b DEF FinalizeInv, TypeOK, Database, StagingRow, ev
<1>2a. db'.intent \in Intent /\ db'.intent # None
  BY <1>0a, <1>2, ConstantsOK DEF Intent
<1>1. TypeOK'
  <2>1. db' \in Database
    <3>2. [o \in Outputs |->
                   IF o \in job[p].outs /\ db.staging[o].state # "none"
                   THEN [db.staging[o] EXCEPT !.state = "deleting"]
                   ELSE db.staging[o]] \in [Outputs -> StagingRow]
      BY SMTT(40) DEF FinalizeInv, TypeOK, Database, StagingRow, StagingStates
    <3> QED BY <1>2, <1>2a, <3>2, ZenonT(60) DEF FinalizeInv, TypeOK, Database
  <2>2. job' \in [Procs -> Job]
    BY <1>0a, Zenon DEF FinalizeInv, TypeOK, Job, PCs, ev
  <2> QED BY <2>1, <2>2, Zenon DEF FinalizeInv, TypeOK, life, admin
<1>3. JobsCarryEvents'
  BY <1>0, <1>0a, SMTT(40) DEF FinalizeInv, JobsCarryEvents, At
<1>4a. \A o \in Outputs : db'.staging[o].state \notin {"pending_output", "committing"}
  BY <1>2, <1>0b, SMTT(40) DEF FinalizeInv, RowsConsistent
<1>4. RowsConsistent(db)' /\ RowsConsistent(durable)'
  BY <1>2, <1>2a, <1>4a, <1>0b, Zenon DEF FinalizeInv, RowsConsistent
<1>5. OneFinalizer' /\ OneOwner'
  BY <1>0, <1>0a, <1>0b, <1>2, <1>2a, SMTT(40) DEF FinalizeInv, OneFinalizer, OneOwner, Holds, Owns, At
<1>6. BootAlone' /\ CleanerOwnsRow'
  BY <1>0, <1>0b, <1>2, Zenon DEF FinalizeInv, BootAlone, CleanerOwnsRow, At, life, admin, Procs
<1>7. StreamMatches'
  BY <1>0, <1>0a, <1>2 DEF FinalizeInv, StreamMatches, At
<1> QED BY <1>1, <1>3, <1>4, <1>5, <1>6, <1>7, Zenon DEF FinalizeInv

\* The append either makes the stream agree with the event to be committed or ends
\* the goroutine.
LEMMA AppendDoneStep ==
  ASSUME NEW p \in Procs, FinalizeInv, AppendDone(p)
  PROVE  FinalizeInv'
<1> USE DEF AppendDone
<1>0. \A q \in Procs : /\ job[q] \in Job
                       /\ q # p => job'[q] = job[q]
  BY Zenon DEF FinalizeInv, TypeOK
<1>0b. /\ db.intent # None /\ db.intent.ev = job[p].ev /\ db.intent.outs = job[p].outs
       /\ job[p].ev \in Event
  BY Zenon DEF FinalizeInv, OneFinalizer, Holds, At, JobsCarryEvents
<1>0c. db.result = None /\ durable.result = None
  BY <1>0b, Zenon DEF FinalizeInv, RowsConsistent, StreamMatches
<1>a. CASE disk.done \in {None, job[p].ev}
  <2>1. /\ job'[p].pc = "commit" /\ job'[p].ev = job[p].ev /\ job'[p].outs = job[p].outs
        /\ disk'.done = job[p].ev
    BY <1>a, <1>0 DEF FinalizeInv, TypeOK, Job, Disk
  <2>2. TypeOK'
    <3>1. disk' \in Disk
      BY <1>a, <1>0b, Zenon DEF FinalizeInv, TypeOK, Disk
    <3>2. job' \in [Procs -> Job]
      BY <1>a DEF FinalizeInv, TypeOK, Job, PCs
    <3> QED BY <1>a, <1>0b, <3>1, <3>2, Zenon DEF FinalizeInv, TypeOK, admin
  <2>3. JobsCarryEvents'
    BY <1>0, <1>0b, <2>1, Zenon DEF FinalizeInv, JobsCarryEvents
  <2>4. RowsConsistent(db)' /\ RowsConsistent(durable)'
    BY Zenon DEF FinalizeInv, RowsConsistent
  <2>5. OneFinalizer' /\ OneOwner'
    BY <1>0, <2>1 DEF FinalizeInv, OneFinalizer, OneOwner, Holds, Owns, At
  <2>6. BootAlone' /\ CleanerOwnsRow'
    BY <1>0, <2>1, Zenon DEF FinalizeInv, BootAlone, CleanerOwnsRow, At, admin, Procs
  <2>7. StreamMatches'
    <3>1. \A q \in Procs : q # p => job[q].pc # "commit"
      BY Zenon DEF FinalizeInv, OneFinalizer, Holds, At
    <3> QED BY <3>1, <1>0, <1>0c, <2>1, Zenon DEF StreamMatches, At
  <2> QED BY <2>2, <2>3, <2>4, <2>5, <2>6, <2>7, Zenon DEF FinalizeInv
<1>b. CASE disk.done \notin {None, job[p].ev}
  <2>1. job'[p] = IdleJob
    BY <1>b, Zenon DEF FinalizeInv, TypeOK
  <2>2. TypeOK'
    <3>1. job' \in [Procs -> Job]
      BY <1>b DEF FinalizeInv, TypeOK, Job, PCs, IdleJob
    <3> QED BY <1>b, <3>1, Zenon DEF FinalizeInv, TypeOK, admin
  <2>3. JobsCarryEvents'
    BY <1>0, <2>1 DEF FinalizeInv, JobsCarryEvents, IdleJob
  <2>4. RowsConsistent(db)' /\ RowsConsistent(durable)'
    BY Zenon DEF FinalizeInv, RowsConsistent
  <2>5. OneFinalizer' /\ OneOwner'
    BY <1>0, <2>1 DEF FinalizeInv, OneFinalizer, OneOwner, Holds, Owns, IdleJob
  <2>6. BootAlone' /\ CleanerOwnsRow'
    BY <1>0, <2>1, Zenon DEF FinalizeInv, BootAlone, CleanerOwnsRow, At, admin, Procs, IdleJob
  <2>7. StreamMatches'
    BY <1>b, <1>0, <2>1 DEF FinalizeInv, StreamMatches, At, IdleJob
  <2> QED BY <2>2, <2>3, <2>4, <2>5, <2>6, <2>7, Zenon DEF FinalizeInv
<1> QED BY <1>a, <1>b, Zenon

\* The commit stores the event the stream already has, and leaves no Phase B row.
LEMMA CommitDoneStep ==
  ASSUME NEW p \in Procs, FinalizeInv, CommitDone(p)
  PROVE  FinalizeInv'
<1>h. Holds(p)
  BY ZenonT(60) DEF CommitDone, Holds, At
<1>t. \A o \in Outputs : db.staging[o].state \in {"pending_output", "committing"}
                           => o \in job[p].outs
  BY <1>h, FinalizerOwnsIntent, Zenon
<1> USE DEF CommitDone
<1>0. \A q \in Procs : /\ job[q] \in Job
                       /\ q # p => job'[q] = job[q]
  BY ZenonT(60) DEF FinalizeInv, TypeOK
<1>0a. job'[p].pc \in {"idle", "recalc"} /\ (job'[p].pc = "recalc" => job'[p].ev = job[p].ev)
  BY <1>0, ZenonT(60) DEF FinalizeInv, TypeOK, Job, IdleJob
<1>0b. /\ db.intent # None /\ db.intent.ev = job[p].ev /\ db.intent.outs = job[p].outs
       /\ job[p].ev \in Event
       /\ db.result = None /\ durable.result = None
       /\ disk.done \in {None, job[p].ev}
  BY ZenonT(60) DEF FinalizeInv, OneFinalizer, Holds, At, JobsCarryEvents, RowsConsistent, StreamMatches
<1>0c. \A q \in Procs : q # p => ~Holds(q)
  BY ZenonT(60) DEF FinalizeInv, OneFinalizer, Holds, At
<1>0d. \A q \in Procs : ~Owns(q)
  BY <1>0b, ZenonT(60) DEF FinalizeInv, OneOwner
<1>0e. \A q \in Procs : ~Holds(q)' /\ ~Owns(q)'
  BY <1>0, <1>0a, <1>0c, <1>0d, ZenonT(60) DEF Holds, Owns
<1>2. /\ db'.status = "done" /\ db'.result = job[p].ev /\ db'.intent = None
      /\ \A o \in Outputs : db'.staging[o].state =
            IF o \in job[p].outs THEN "complete" ELSE db.staging[o].state
  BY ZenonT(60) DEF FinalizeInv, TypeOK, Database, StagingRow
<1>1. TypeOK'
  <2>1. db' \in Database
    <3>2. [o \in Outputs |->
                  IF o \in job[p].outs
                  THEN [db.staging[o] EXCEPT !.state = "complete", !.path = "final"]
                  ELSE db.staging[o]] \in [Outputs -> StagingRow]
      BY ZenonT(60) DEF FinalizeInv, TypeOK, Database, StagingRow, StagingStates
    <3>3. db.refs \cup job[p].outs \in SUBSET Outputs
      BY <1>0, ZenonT(60) DEF FinalizeInv, TypeOK, Database, Job
    <3> QED BY <1>0b, <3>2, <3>3, ZenonT(60) DEF Database
  <2>2. job' \in [Procs -> Job]
    BY ZenonT(60) DEF FinalizeInv, TypeOK, Job, PCs, IdleJob
  <2> QED BY <2>1, <2>2, ZenonT(60) DEF FinalizeInv, TypeOK, life, admin
<1>3. JobsCarryEvents'
  BY <1>0, <1>0a, <1>0b, ZenonT(60) DEF FinalizeInv, JobsCarryEvents, At
<1> HIDE DEF CommitDone
<1>4a. \A o \in Outputs : db'.staging[o].state \notin {"pending_output", "committing"}
  BY <1>2, <1>t, Zenon
<1>4. RowsConsistent(db)' /\ RowsConsistent(durable)'
  <2>1. job[p].ev # None
    BY <1>0b, ConstantsOK, Zenon
  <2> QED BY <1>2, <1>4a, <2>1, ZenonT(60) DEF FinalizeInv, RowsConsistent, CommitDone
<1>5. OneFinalizer' /\ OneOwner'
  BY <1>0e, Zenon DEF OneFinalizer, OneOwner
<1>6. BootAlone' /\ CleanerOwnsRow'
  BY <1>0, <1>0a, <1>2, ZenonT(60) DEF CommitDone, FinalizeInv, BootAlone, CleanerOwnsRow, At, life, admin, Procs
<1>7. StreamMatches'
  BY <1>0e, <1>0b, <1>2, ZenonT(60) DEF CommitDone, StreamMatches, Holds, At
<1> QED BY <1>1, <1>3, <1>4, <1>5, <1>6, <1>7, Zenon DEF FinalizeInv

\* The discarding commit stores nothing and leaves no Phase B row.
LEMMA CommitDiscardedStep ==
  ASSUME NEW p \in Procs, FinalizeInv, CommitDiscarded(p)
  PROVE  FinalizeInv'
<1> USE DEF CommitDiscarded
<1>0. \A q \in Procs : /\ job[q] \in Job
                       /\ q # p => job'[q] = job[q]
  BY Zenon DEF FinalizeInv, TypeOK
<1>0a. job'[p].pc = "idle"
  BY Zenon DEF FinalizeInv, TypeOK, IdleJob
<1>0b. db.intent # None /\ db.intent.outs = job[p].outs
  BY Zenon DEF FinalizeInv, OneFinalizer, Holds, At
<1>0e. \A q \in Procs : ~Holds(q)' /\ ~Owns(q)'
  BY <1>0, <1>0a, <1>0b, Zenon DEF FinalizeInv, OneFinalizer, OneOwner, Holds, Owns, At
<1>2. /\ db'.status = db.status /\ db'.result = db.result /\ db'.intent = None
      /\ \A o \in Outputs : db'.staging[o].state =
            IF o \in job[p].outs /\ InPhaseB(o) THEN "deleting" ELSE db.staging[o].state
  BY DEF FinalizeInv, TypeOK, Database, StagingRow
<1>1. TypeOK'
  <2>1. db' \in Database
    <3>2. [o \in Outputs |->
                   IF o \in job[p].outs /\ InPhaseB(o)
                   THEN [db.staging[o] EXCEPT !.state = "deleting", !.path = "final"]
                   ELSE db.staging[o]] \in [Outputs -> StagingRow]
      BY ZenonT(60) DEF FinalizeInv, TypeOK, Database, StagingRow, StagingStates
    <3> QED BY <3>2, ZenonT(60) DEF FinalizeInv, TypeOK, Database
  <2>2. job' \in [Procs -> Job]
    BY Zenon DEF FinalizeInv, TypeOK, Job, PCs, IdleJob
  <2> QED BY <2>1, <2>2, Zenon DEF FinalizeInv, TypeOK, life, admin
<1>3. JobsCarryEvents'
  BY <1>0, <1>0a, Zenon DEF FinalizeInv, JobsCarryEvents
<1>4a. \A o \in Outputs : db'.staging[o].state \notin {"pending_output", "committing"}
  BY <1>2, <1>0b DEF FinalizeInv, RowsConsistent, InPhaseB
<1>4. RowsConsistent(db)' /\ RowsConsistent(durable)'
  BY <1>2, <1>4a, Zenon DEF FinalizeInv, RowsConsistent
<1>5. OneFinalizer' /\ OneOwner'
  BY <1>0e, Zenon DEF OneFinalizer, OneOwner
<1>6. BootAlone' /\ CleanerOwnsRow'
  BY <1>0, <1>0a, <1>2, Zenon DEF FinalizeInv, BootAlone, CleanerOwnsRow, At, life, admin, Procs
<1>7. StreamMatches'
  BY <1>0e, <1>2, Zenon DEF FinalizeInv, StreamMatches, Holds, At
<1> QED BY <1>1, <1>3, <1>4, <1>5, <1>6, <1>7, Zenon DEF FinalizeInv

\* KillQueued's transaction makes the request the one finalizer, or ends it.
LEMMA KillTxStep ==
  ASSUME NEW p \in Killers, FinalizeInv, KillTx(p)
  PROVE  FinalizeInv'
<1> USE DEF KillTx
<1>0. \A q \in Procs : /\ job[q] \in Job
                       /\ q # p => job'[q] = job[q]
  BY Zenon DEF FinalizeInv, TypeOK
<1>0p. p \in Procs /\ p # "repair"
  BY ConstantsOK, Zenon DEF Procs
<1>0e. boot = "up"
  BY <1>0p, Zenon DEF FinalizeInv, BootAlone, At
<1>a. CASE db.status = "queued" /\ db.intent = None
  <2> DEFINE i == [phase |-> "prepared", ev |-> job[p].ev, outs |-> {}]
  <2>1. /\ job'[p].pc = "append" /\ job'[p].ev = job[p].ev /\ job'[p].outs = {}
        /\ job[p].ev \in Event
    <3>1. job[p].ev \in Event
      BY <1>0p, Zenon DEF FinalizeInv, JobsCarryEvents, At
    <3>2. job'[p] = [IdleJob EXCEPT !.pc = "append", !.ev = job[p].ev]
      BY <1>0p, <1>a, Zenon DEF FinalizeInv, TypeOK
    <3> QED BY <3>1, <3>2, Zenon DEF IdleJob
  <2>2. i \in Intent /\ i # None
    BY <2>1, ConstantsOK DEF Intent
  <2>3. /\ db'.status = db.status /\ db'.result = db.result /\ db'.intent = i
        /\ db'.staging = db.staging
    BY <1>a, Zenon DEF FinalizeInv, TypeOK, Database
  <2>4. TypeOK'
    <3>1. db' \in Database
      BY <1>a, <2>2, ZenonT(60) DEF FinalizeInv, TypeOK, Database
    <3>2. job' \in [Procs -> Job]
      <4>1. [IdleJob EXCEPT !.pc = "append", !.ev = job[p].ev] \in Job
        BY <2>1, Zenon DEF Job, PCs, IdleJob
      <4> QED BY <1>a, <4>1, Zenon DEF FinalizeInv, TypeOK
    <3> QED BY <3>1, <3>2, Zenon DEF FinalizeInv, TypeOK, life, admin
  <2> HIDE DEF i
  <2>5. JobsCarryEvents'
    BY <1>0, <2>1, Zenon DEF FinalizeInv, JobsCarryEvents
  <2>6. RowsConsistent(db)' /\ RowsConsistent(durable)'
    BY <1>a, <2>2, <2>3, Zenon DEF FinalizeInv, RowsConsistent
  <2>7. \A q \in Procs : ~Owns(q)' /\ (Holds(q)' => q = p)
    BY <1>a, <1>0, <2>1, Zenon DEF FinalizeInv, OneFinalizer, OneOwner, Holds, Owns
  <2>8. OneFinalizer' /\ OneOwner'
    BY <2>1, <2>2, <2>3, <2>7 DEF OneFinalizer, OneOwner, i
  <2>9. BootAlone' /\ CleanerOwnsRow'
    BY <1>0, <1>0p, <1>0e, <1>a, <2>3, Zenon DEF FinalizeInv, BootAlone, CleanerOwnsRow, At, life, admin, Procs
  <2>10. StreamMatches'
    BY <1>0, <2>1, <2>3, Zenon DEF FinalizeInv, StreamMatches, At
  <2> QED BY <2>4, <2>5, <2>6, <2>8, <2>9, <2>10, Zenon DEF FinalizeInv
<1>b. CASE ~(db.status = "queued" /\ db.intent = None)
  <2>1. job'[p].pc = "idle" /\ UNCHANGED <<db, durable, disk, boot, cleaner>>
    BY <1>b, <1>0p DEF FinalizeInv, TypeOK, IdleJob, life, admin
  <2>2. TypeOK'
    <3>1. job' \in [Procs -> Job]
      BY <1>b DEF FinalizeInv, TypeOK, Job, PCs, IdleJob
    <3> QED BY <2>1, <3>1, Zenon DEF FinalizeInv, TypeOK, life, admin
  <2>3. JobsCarryEvents'
    BY <1>0, <2>1, Zenon DEF FinalizeInv, JobsCarryEvents
  <2>4. RowsConsistent(db)' /\ RowsConsistent(durable)'
    BY <2>1, Zenon DEF FinalizeInv, RowsConsistent
  <2>5. OneFinalizer' /\ OneOwner'
    BY <1>0, <2>1, Zenon DEF FinalizeInv, OneFinalizer, OneOwner, Holds, Owns
  <2>6. BootAlone' /\ CleanerOwnsRow'
    BY <1>0, <1>0e, <1>0p, <2>1, Zenon DEF FinalizeInv, BootAlone, CleanerOwnsRow, At, Procs
  <2>7. StreamMatches'
    BY <1>0, <2>1, Zenon DEF FinalizeInv, StreamMatches, At
  <2> QED BY <2>2, <2>3, <2>4, <2>5, <2>6, <2>7, Zenon DEF FinalizeInv
<1> QED BY <1>a, <1>b, Zenon

\* Marking a queued or done row as deleting, by a request or by the cleaner.
LEMMA DeletingStep ==
  ASSUME FinalizeInv, UNCHANGED <<durable, disk, job, boot, epoch, critical, seen>>,
         db' = [db EXCEPT !.status = "deleting"], db.status \in {"queued", "done"},
         cleaner' \in {"idle", "mark", "files", "delete", "recalc"},
         deleter' \in {"idle", "mark"}, acked' \in BOOLEAN, CleanerOwnsRow',
         boot # "up" => cleaner' = "idle"
  PROVE  FinalizeInv'
<1>2. /\ db'.status = "deleting" /\ db'.result = db.result /\ db'.intent = db.intent
      /\ db'.staging = db.staging
  BY Zenon DEF FinalizeInv, TypeOK, Database
<1>1. TypeOK'
  <2>1. db' \in Database
    BY Zenon DEF FinalizeInv, TypeOK, Database
  <2> QED BY <2>1, Zenon DEF FinalizeInv, TypeOK
<1>3. JobsCarryEvents'
  BY Zenon DEF FinalizeInv, JobsCarryEvents
<1>4. RowsConsistent(db)' /\ RowsConsistent(durable)'
  BY <1>2, Zenon DEF FinalizeInv, RowsConsistent
<1>5. OneFinalizer' /\ OneOwner'
  BY <1>2 DEF FinalizeInv, OneFinalizer, OneOwner, Holds, Owns
<1>6. BootAlone'
  BY Zenon DEF FinalizeInv, BootAlone, At
<1>7. StreamMatches'
  BY <1>2, Zenon DEF FinalizeInv, StreamMatches, At
<1> QED BY <1>1, <1>3, <1>4, <1>5, <1>6, <1>7, Zenon DEF FinalizeInv

\* The row goes when nobody finalizes it.
LEMMA CleanerDeleteStep ==
  ASSUME FinalizeInv, CleanerDelete
  PROVE  FinalizeInv'
<1> USE DEF CleanerDelete
<1>0. db.intent = None
  BY Zenon DEF FinalizeInv, CleanerOwnsRow
<1>0a. \A q \in Procs : ~Holds(q) /\ ~Owns(q)
  BY <1>0, Zenon DEF FinalizeInv, OneFinalizer, OneOwner, CleanerOwnsRow
<1>2. /\ db'.status = "gone" /\ db'.result = db.result /\ db'.intent = None
      /\ \A o \in Outputs : db'.staging[o].state = db.staging[o].state
  BY DEF FinalizeInv, TypeOK, Database, StagingRow
<1>1. TypeOK'
  <2>1. db' \in Database
    <3>1. [o \in Outputs |->
                   IF o \in db.refs THEN [db.staging[o] EXCEPT !.ttl = "zero"]
                   ELSE db.staging[o]] \in [Outputs -> StagingRow]
      BY DEF FinalizeInv, TypeOK, Database, StagingRow
    <3> QED BY <3>1, ZenonT(60) DEF FinalizeInv, TypeOK, Database
  <2> QED BY <2>1, Zenon DEF FinalizeInv, TypeOK, life
<1>3. JobsCarryEvents'
  BY Zenon DEF FinalizeInv, JobsCarryEvents
<1>4. RowsConsistent(db)' /\ RowsConsistent(durable)'
  BY <1>0, <1>2, Zenon DEF FinalizeInv, RowsConsistent
<1>5. OneFinalizer' /\ OneOwner'
  BY <1>0a, Zenon DEF OneFinalizer, OneOwner, Holds, Owns
<1>6. BootAlone' /\ CleanerOwnsRow'
  BY Zenon DEF FinalizeInv, BootAlone, CleanerOwnsRow, At, life
<1>7. StreamMatches'
  BY <1>2, Zenon DEF FinalizeInv, StreamMatches, At
<1> QED BY <1>1, <1>3, <1>4, <1>5, <1>6, <1>7, Zenon DEF FinalizeInv

\* The repair resumes as the one finalizer, with the stored event.
LEMMA RepairIntentStep ==
  ASSUME FinalizeInv, RepairIntent
  PROVE  FinalizeInv'
<1> USE DEF RepairIntent
<1>0. \A q \in Procs : /\ job[q] \in Job
                       /\ q # "repair" => job'[q] = job[q] /\ job[q].pc = "idle"
  BY Zenon DEF FinalizeInv, TypeOK, BootAlone, At
<1>0a. db.intent \in Intent
  BY Zenon DEF FinalizeInv, TypeOK, Database
<1>0b. ResumePoint(db.intent) \in {"catchup", "append", "b1", "revert"}
  BY Zenon DEF ResumePoint
<1>2. /\ job'["repair"] = [pc |-> ResumePoint(db.intent), ev |-> db.intent.ev,
                  outs |-> db.intent.outs, todo |-> db.intent.outs]
      /\ "repair" \in Procs
      /\ disk'.done = disk.done
  BY Zenon DEF FinalizeInv, TypeOK, Disk, Procs
<1>1. TypeOK'
  <2>1. disk' \in Disk
    BY ZenonT(60) DEF FinalizeInv, TypeOK, Disk
  <2>2. [pc |-> ResumePoint(db.intent), ev |-> db.intent.ev,
                  outs |-> db.intent.outs, todo |-> db.intent.outs] \in Job
    BY <1>0a, <1>0b, Zenon DEF Job, PCs, Intent
  <2>3. job' \in [Procs -> Job]
    BY <2>2, Zenon DEF FinalizeInv, TypeOK
  <2> QED BY <2>1, <2>3, Zenon DEF FinalizeInv, TypeOK, BootSteps, admin
<1>3. JobsCarryEvents'
  BY <1>0, <1>2, <1>0a DEF FinalizeInv, JobsCarryEvents, Intent
<1>4. RowsConsistent(db)' /\ RowsConsistent(durable)'
  BY Zenon DEF FinalizeInv, RowsConsistent
<1>5. OneFinalizer' /\ OneOwner'
  BY <1>0, <1>0b, <1>2 DEF OneFinalizer, OneOwner, Holds, Owns
<1>6. BootAlone' /\ CleanerOwnsRow'
  BY <1>0, Zenon DEF FinalizeInv, BootAlone, CleanerOwnsRow, At, admin
<1>7. StreamMatches'
  BY <1>0, <1>0b, <1>2 DEF FinalizeInv, StreamMatches, At
<1> QED BY <1>1, <1>3, <1>4, <1>5, <1>6, <1>7, Zenon DEF FinalizeInv

\* The reconstructed done event is the row's own outcome.
LEMMA EnsureTerminalEventsStep ==
  ASSUME FinalizeInv, EnsureTerminalEvents
  PROVE  FinalizeInv'
<1> USE DEF EnsureTerminalEvents
<1>0. \A q \in Procs : job[q].pc = "idle"
  BY Zenon DEF FinalizeInv, BootAlone, At
<1>1. TypeOK' /\ disk'.done \in {disk.done, db.result}
  <2>1. CASE UNCHANGED <<disk, seen>>
    BY <2>1, Zenon DEF FinalizeInv, TypeOK, BootSteps, admin
  <2>2. CASE /\ db.status = "done"
             /\ disk' = [disk EXCEPT !.file = TRUE, !.done = db.result]
             /\ seen' = seen \cup {db.result}
    <3>1. db.result \in Event
      BY <2>2, Zenon DEF FinalizeInv, TypeOK, Database, RowsConsistent
    <3> QED BY <2>2, <3>1, Zenon DEF FinalizeInv, TypeOK, Disk, BootSteps, admin
  <2> QED BY <2>1, <2>2, Zenon
<1>2. JobsCarryEvents' /\ OneFinalizer' /\ OneOwner'
  BY <1>0, Zenon DEF JobsCarryEvents, OneFinalizer, OneOwner, Holds, Owns
<1>3. RowsConsistent(db)' /\ RowsConsistent(durable)'
  BY Zenon DEF FinalizeInv, RowsConsistent
<1>4. BootAlone' /\ CleanerOwnsRow'
  BY <1>0, Zenon DEF FinalizeInv, BootAlone, CleanerOwnsRow, At, admin, Procs
<1>5. StreamMatches'
  BY <1>0, <1>1, Zenon DEF FinalizeInv, StreamMatches, At
<1> QED BY <1>1, <1>2, <1>3, <1>4, <1>5, Zenon DEF FinalizeInv

\* The sweep makes the repair the owner of a running row without an intent.
LEMMA SweepRunningToLostStep ==
  ASSUME FinalizeInv, SweepRunningToLost
  PROVE  FinalizeInv'
<1> USE DEF SweepRunningToLost
<1>0. \A q \in Procs : job[q].pc = "idle"
  BY Zenon DEF FinalizeInv, BootAlone, At
<1>0a. Now("lost") \in Event
  BY Zenon DEF FinalizeInv, TypeOK, Now, Event, Verdicts
<1>0b. "repair" \in Procs
  BY Zenon DEF Procs
<1>1. TypeOK' /\ disk'.done = disk.done
  <2>1. CASE UNCHANGED <<disk, job>>
    BY <2>1, Zenon DEF FinalizeInv, TypeOK, BootSteps, admin
  <2>2. CASE /\ disk' = [disk EXCEPT !.file = TRUE]
             /\ job' = [job EXCEPT !["repair"] =
                         [IdleJob EXCEPT !.pc = "a2", !.ev = Now("lost")]]
    <3>1. [IdleJob EXCEPT !.pc = "a2", !.ev = Now("lost")] \in Job
      BY <1>0a, Zenon DEF IdleJob, Job, PCs
    <3>2. job' \in [Procs -> Job]
      BY <2>2, <3>1, ZenonT(60) DEF FinalizeInv, TypeOK
    <3> QED BY <2>2, <3>2, ZenonT(60) DEF FinalizeInv, TypeOK, Disk, BootSteps, admin
  <2> QED BY <2>1, <2>2, Zenon
<1>2. \A q \in Procs : \/ job'[q].pc = "idle"
                       \/ /\ q = "repair" /\ job'[q].pc = "a2" /\ job'[q].ev = Now("lost")
                          /\ db.status = "running" /\ db.intent = None
  BY <1>0, ZenonT(60) DEF FinalizeInv, TypeOK, IdleJob
<1>3. JobsCarryEvents' /\ OneFinalizer' /\ OneOwner'
  BY <1>0a, <1>2, Zenon DEF JobsCarryEvents, OneFinalizer, OneOwner, Holds, Owns
<1>4. RowsConsistent(db)' /\ RowsConsistent(durable)'
  BY Zenon DEF FinalizeInv, RowsConsistent
<1>5. BootAlone' /\ CleanerOwnsRow'
  BY <1>2, Zenon DEF FinalizeInv, BootAlone, CleanerOwnsRow, At, admin
<1>6. StreamMatches'
  BY <1>1, <1>2, Zenon DEF FinalizeInv, StreamMatches, At
<1> QED BY <1>1, <1>3, <1>4, <1>5, <1>6, Zenon DEF FinalizeInv

\* What becomes durable is what is stored.
LEMMA CheckpointStep ==
  ASSUME FinalizeInv, Checkpoint
  PROVE  FinalizeInv'
<1> USE DEF Checkpoint
<1>1. TypeOK'
  BY Zenon DEF FinalizeInv, TypeOK, life, admin
<1>2. JobsCarryEvents' /\ OneFinalizer' /\ OneOwner'
  BY Zenon DEF FinalizeInv, JobsCarryEvents, OneFinalizer, OneOwner, Holds, Owns
<1>3. RowsConsistent(db)' /\ RowsConsistent(durable)'
  BY Zenon DEF FinalizeInv, RowsConsistent
<1>4. BootAlone' /\ CleanerOwnsRow' /\ StreamMatches'
  BY Zenon DEF FinalizeInv, BootAlone, CleanerOwnsRow, StreamMatches, At, life, admin
<1> QED BY <1>1, <1>2, <1>3, <1>4, Zenon DEF FinalizeInv

\* A death of the daemon leaves the stored or the durable database.
LEMMA DieStep ==
  ASSUME FinalizeInv, Die, db' \in {db, durable}, durable' = durable, disk' \in Disk, disk'.done = disk.done
  PROVE  FinalizeInv'
<1> USE DEF Die
<1>0. \A q \in Procs : job'[q].pc = "idle"
  BY Zenon DEF IdleJob
<1>1. TypeOK'
  <2>1. job' \in [Procs -> Job]
    BY Zenon DEF Job, PCs, IdleJob
  <2>2. db' \in Database /\ durable' \in Database
    BY Zenon DEF FinalizeInv, TypeOK
  <2>3. epoch' \in Nat
    BY DEF FinalizeInv, TypeOK
  <2> QED BY <2>1, <2>2, <2>3, ZenonT(60) DEF FinalizeInv, TypeOK, BootSteps
<1>2. JobsCarryEvents' /\ OneFinalizer' /\ OneOwner'
  BY <1>0, Zenon DEF JobsCarryEvents, OneFinalizer, OneOwner, Holds, Owns
<1>3. RowsConsistent(db)' /\ RowsConsistent(durable)'
  BY Zenon DEF FinalizeInv, RowsConsistent
<1>4. BootAlone' /\ CleanerOwnsRow'
  BY <1>0, Zenon DEF BootAlone, CleanerOwnsRow, At, Procs
<1>5. StreamMatches'
  BY <1>0, ZenonT(60) DEF FinalizeInv, StreamMatches, At
<1> QED BY <1>1, <1>2, <1>3, <1>4, <1>5, Zenon DEF FinalizeInv

-----------------------------------------------------------------------------
(* The invariant.                                                          *)

\* The invariant holds of a mission just dispatched.
LEMMA InitInv ==
  ASSUME Init
  PROVE  FinalizeInv
<1>1. TypeOK
  BY ConstantsOK, Zenon DEF Init, TypeOK, Database, Disk, Job, IdleJob, PCs, NoRow, StagingRow, StagingStates,
     BootSteps
<1> QED BY <1>1, ZenonT(60) DEF Init, FinalizeInv, JobsCarryEvents, RowsConsistent, OneFinalizer, OneOwner, BootAlone,
           StreamMatches, CleanerOwnsRow, Holds, Owns, At, IdleJob, NoRow, Procs

\* Every step of every goroutine, request, worker and failure preserves it.
LEMMA NextInv ==
  ASSUME FinalizeInv, [Next]_vars
  PROVE  FinalizeInv'
<1>1. ASSUME NEW p \in Procs, FinalizeStep(p) PROVE FinalizeInv'
  <2>1. CASE \E o \in Outputs : \/ Rename(p, o) \/ SyncRenamed(p, o) \/ RenameFails(p, o)
                                \/ RevertRemove(p, o) \/ RecalcTTL(p, o)
    BY <2>1, RenameStep, SyncRenamedStep, RenameFailsStep, RevertRemoveStep, RecalcTTLStep, Zenon
  <2> QED BY <1>1, <2>1, PhaseA2Step, PhaseA2FailsStep, PhaseB1Step, RenamesDoneStep, RevertTxStep, AppendDoneStep,
             CommitDoneStep, CommitDiscardedStep, GiveUpStep, Zenon DEF FinalizeStep
<1>2. ASSUME NEW k \in Killers, KillOpen(k) \/ KillTx(k) \/ Disconnect(k) PROVE FinalizeInv'
  BY <1>2, KillOpenStep, KillTxStep, DisconnectStep, Zenon
<1>3. CASE DeleteMark
  <2>1. CASE db.status \in {"queued", "done"}
    <3>1. /\ db' = [db EXCEPT !.status = "deleting"] /\ cleaner' = cleaner
          /\ UNCHANGED <<durable, disk, job, boot, epoch, critical, seen>>
      BY <1>3, <2>1, Zenon DEF DeleteMark, life
    <3>2. db'.status = "deleting" /\ db'.intent = db.intent
      BY <3>1, Zenon DEF FinalizeInv, TypeOK, Database
    <3>3. CleanerOwnsRow'
      BY <3>1, <3>2, Zenon DEF FinalizeInv, CleanerOwnsRow
    <3>4. boot # "up" => cleaner' = "idle"
      BY <3>1, Zenon DEF FinalizeInv, BootAlone
    <3>5. /\ cleaner' \in {"idle", "mark", "files", "delete", "recalc"}
          /\ deleter' \in {"idle", "mark"} /\ acked' \in BOOLEAN
      BY <1>3, <3>1, Zenon DEF DeleteMark, FinalizeInv, TypeOK
    <3> QED BY <2>1, <3>1, <3>3, <3>4, <3>5, DeletingStep, Zenon
  <2>2. CASE db.status \notin {"queued", "done"}
    <3>1. UNCHANGED <<db, durable, disk, job, boot, epoch, critical, cleaner, seen>>
      BY <1>3, <2>2, Zenon DEF DeleteMark, life
    <3>2. TypeOK'
      BY <1>3, <3>1, Zenon DEF DeleteMark, FinalizeInv, TypeOK
    <3> QED BY <3>1, <3>2, UnchangedStep, Zenon
  <2> QED BY <2>1, <2>2, Zenon
<1>4. CASE CleanerMark
  <2>1. CASE db.status = "done"
    <3>1. /\ db' = [db EXCEPT !.status = "deleting"] /\ cleaner' = "files"
          /\ UNCHANGED <<durable, disk, job, boot, epoch, critical, seen>>
      BY <1>4, <2>1, Zenon DEF CleanerMark, life
    <3>2. db'.status = "deleting" /\ db'.intent = None
      BY <1>4, <3>1, Zenon DEF CleanerMark, FinalizeInv, TypeOK, Database, CleanerOwnsRow
    <3>3. CleanerOwnsRow'
      BY <3>1, <3>2, Zenon DEF CleanerOwnsRow
    <3>4. boot = "up"
      BY <1>4, Zenon DEF CleanerMark, FinalizeInv, BootAlone
    <3>5. /\ cleaner' \in {"idle", "mark", "files", "delete", "recalc"}
          /\ deleter' \in {"idle", "mark"} /\ acked' \in BOOLEAN
      BY <1>4, <3>1, Zenon DEF CleanerMark, FinalizeInv, TypeOK
    <3> QED BY <2>1, <3>1, <3>3, <3>4, <3>5, DeletingStep, Zenon
  <2>2. CASE db.status # "done"
    <3>1. /\ cleaner' = "files"
          /\ UNCHANGED <<db, durable, disk, job, boot, epoch, critical, deleter, acked, seen>>
      BY <1>4, <2>2, Zenon DEF CleanerMark, life
    <3>2. TypeOK'
      BY <3>1, Zenon DEF FinalizeInv, TypeOK
    <3>3. BootAlone' /\ CleanerOwnsRow'
      BY <1>4, <2>2, <3>1, Zenon DEF CleanerMark, FinalizeInv, BootAlone, CleanerOwnsRow, At
    <3>4. SameRow /\ \A q \in Procs : SameRole(q)
      BY <3>1, Zenon DEF FinalizeInv, JobsCarryEvents, SameRow, SameRole, Holds, Owns
    <3> QED BY <3>1, <3>2, <3>3, <3>4, Frame, Zenon
  <2> QED BY <2>1, <2>2, Zenon
<1>5. CASE Cleanup
  BY <1>4, <1>5, CleanerPickStep, CleanerFilesStep, CleanerDeleteStep, CleanerRecalcStep, Zenon DEF Cleanup
<1>6. ASSUME NEW o \in Outputs, CollectGarbage(o) PROVE FinalizeInv'
  BY <1>6, DrainNeedsRecalcStep, ExpireTTLStep, TombstoneStep, UnlinkTombstoneStep, DropStagingRowStep, Zenon DEF
     CollectGarbage
<1>7. CASE StartUp
  BY <1>7, StartDaemonStep, RepairIntentStep, CatchUpStep, CatchUpFailsStep, CatchUpDoneStep, IntentsRepairedStep,
     EnsureTerminalEventsStep, SweepRunningToLostStep, SweepOrphansStep, Zenon DEF StartUp
<1>8. CASE Failure
  <2>1. CASE Crash
    <3>1. disk' \in Disk /\ disk'.done = disk.done
      BY <2>1, Zenon DEF Crash, FinalizeInv, TypeOK
    <3> QED BY <2>1, <3>1, DieStep, Zenon DEF Crash
  <2>2. CASE PowerLoss
    <3>1. PICK undone \in SUBSET disk.unsynced :
            disk' = [disk EXCEPT !.tmp = @ \cup undone, !.final = @ \ undone, !.unsynced = {}]
      BY <2>2, ZenonT(60) DEF PowerLoss
    <3>2. disk' \in Disk /\ disk'.done = disk.done
      BY <3>1, ZenonT(60) DEF FinalizeInv, TypeOK, Disk
    <3> QED BY <2>2, <3>2, DieStep, Zenon DEF PowerLoss
  <2> QED BY <1>8, <2>1, <2>2, CheckpointStep, EventsLostStep, DiskDamageStep, Zenon DEF Failure
<1>9. CASE UNCHANGED vars
  <2>1. /\ TypeOK'
        /\ UNCHANGED <<db, durable, disk, job, boot, cleaner>>
    BY <1>9, Zenon DEF FinalizeInv, TypeOK, vars
  <2> QED BY <2>1, UnchangedStep, Zenon
<1> QED BY <1>1, <1>2, <1>3, <1>5, <1>6, <1>7, <1>8, <1>9, PickUpStep, ProcessExitStep, CapOutcomeStep,
           DeleteReadStep, Zenon DEF Next

-----------------------------------------------------------------------------
(* The theorems.                                                           *)

\* FinalizeInv holds in every reachable state, for any outputs, any number of
\* concurrent kill requests, any set of faults and any number of crashes.
THEOREM Invariance == Spec => []FinalizeInv
<1>1. Init => FinalizeInv
  BY InitInv, Zenon
<1>2. FinalizeInv /\ [Next]_vars => FinalizeInv'
  BY NextInv, Zenon
<1> QED BY <1>1, <1>2, PTL DEF Spec

\* Type correctness.
THEOREM TypeCorrect == Spec => []TypeOK
<1>1. FinalizeInv => TypeOK
  BY Zenon DEF FinalizeInv
<1> QED BY <1>1, Invariance, PTL

\* The row of a done mission and its event stream never disagree, whatever dies
\* when: AppendDoneIdempotent before the guarded UPDATE of commitFinalize.
THEOREM StreamAgrees == Spec => []StreamAgreesWithRow
<1>1. FinalizeInv => StreamAgreesWithRow
  BY Zenon DEF FinalizeInv, RowsConsistent, StreamMatches, StreamAgreesWithRow
<1> QED BY <1>1, Invariance, PTL

\* No Phase B staging row is ever left without the intent that will resolve it.
THEOREM PhaseBTracked == Spec => []PhaseBRowsTracked
<1>1. FinalizeInv => PhaseBRowsTracked
  BY Zenon DEF FinalizeInv, RowsConsistent, PhaseBRowsTracked, InPhaseB
<1> QED BY <1>1, Invariance, PTL

\* The intent gate of pickVictims suffices to keep the cleaner off a mission that
\* some goroutine runs, finalizes, or will have to repair.
THEOREM CleanerExcluded == Spec => []CleanerNeverRacesFinalize
<1>1. FinalizeInv => CleanerNeverRacesFinalize
  <2> SUFFICES ASSUME FinalizeInv, cleaner \in {"files", "delete"}
               PROVE  /\ db.status = "deleting" /\ db.intent = None
                      /\ \A p \in Procs : job[p].pc \in {"idle", "kill", "recalc"}
    BY Zenon DEF CleanerNeverRacesFinalize
  <2>1. db.status = "deleting" /\ db.intent = None
    BY Zenon DEF FinalizeInv, CleanerOwnsRow
  <2>2. \A p \in Procs : ~Holds(p) /\ ~Owns(p) /\ job[p].pc \in PCs
    BY <2>1, Zenon DEF FinalizeInv, OneFinalizer, OneOwner, TypeOK, Job
  <2> QED BY <2>1, <2>2, Zenon DEF Holds, Owns, PCs
<1> QED BY <1>1, Invariance, PTL

-----------------------------------------------------------------------------
(* Action properties.                                                      *)

\* A step keeps the done event of the stream or removes the whole file.
LEMMA DoneKept ==
  ASSUME TypeOK, [Next]_vars, disk.done # None
  PROVE  disk'.done \in {None, disk.done}
<1> USE DEF TypeOK, Disk
<1>1. ASSUME NEW p \in Procs, FinalizeStep(p) PROVE disk'.done \in {None, disk.done}
  <2>1. CASE AppendDone(p)
    BY <2>1, Zenon DEF AppendDone
  <2>2. CASE PhaseA2(p) \/ PhaseB1(p) \/ RenamesDone(p) \/ RevertTx(p) \/ CommitDone(p)
             \/ CommitDiscarded(p) \/ GiveUp(p)
    BY <2>2, ZenonT(60) DEF PhaseA2, PhaseB1, RenamesDone, RevertTx, CommitDone, CommitDiscarded, GiveUp
  <2>3. CASE PhaseA2Fails(p)
    BY <2>3, Zenon DEF PhaseA2Fails
  <2>4. ASSUME NEW o \in Outputs, Rename(p, o) \/ SyncRenamed(p, o) \/ RenameFails(p, o)
                                  \/ RevertRemove(p, o) \/ RecalcTTL(p, o)
        PROVE  disk'.done \in {None, disk.done}
    BY <2>4, ZenonT(60) DEF Rename, SyncRenamed, RenameFails, RevertRemove, RecalcTTL
  <2> QED BY <1>1, <2>1, <2>2, <2>3, <2>4, Zenon DEF FinalizeStep
<1>2. ASSUME NEW k \in Killers, KillOpen(k) \/ KillTx(k) \/ Disconnect(k)
      PROVE  disk'.done \in {None, disk.done}
  BY <1>2, Zenon DEF KillOpen, KillTx, Disconnect
<1>3. CASE PickUp \/ ProcessExit \/ CapOutcome \/ DeleteRead \/ DeleteMark
  BY <1>3, ZenonT(60) DEF PickUp, ProcessExit, CapOutcome, DeleteRead, DeleteMark
<1>4. CASE Cleanup
  BY <1>4, ZenonT(60) DEF Cleanup, CleanerPick, CleanerMark, CleanerFiles, CleanerDelete, CleanerRecalc
<1>5. ASSUME NEW o \in Outputs, CollectGarbage(o) PROVE disk'.done \in {None, disk.done}
  BY <1>5, Zenon DEF CollectGarbage, DrainNeedsRecalc, ExpireTTL, Tombstone, UnlinkTombstone, DropStagingRow
<1>6. CASE StartUp
  <2>1. CASE EnsureTerminalEvents
    BY <2>1, Zenon DEF EnsureTerminalEvents
  <2>2. CASE StartDaemon \/ RepairIntent \/ CatchUpDone \/ IntentsRepaired \/ SweepRunningToLost
    BY <2>2, Zenon DEF StartDaemon, RepairIntent, CatchUpDone, IntentsRepaired, SweepRunningToLost
  <2>3. CASE SweepOrphans
    BY <2>3, Zenon DEF SweepOrphans
  <2>4. ASSUME NEW o \in Outputs, CatchUp(o) \/ CatchUpFails(o)
        PROVE  disk'.done \in {None, disk.done}
    BY <2>4, Zenon DEF CatchUp, CatchUpFails
  <2> QED BY <1>6, <2>1, <2>2, <2>3, <2>4, Zenon DEF StartUp
<1>7. CASE Failure
  <2>1. CASE Crash \/ Checkpoint \/ PowerLoss \/ EventsLost
    BY <2>1, ZenonT(60) DEF Crash, Checkpoint, PowerLoss, EventsLost
  <2>2. ASSUME NEW o \in Outputs, DiskDamage(o) PROVE disk'.done \in {None, disk.done}
    BY <2>2, ZenonT(60) DEF DiskDamage
  <2> QED BY <1>7, <2>1, <2>2, Zenon DEF Failure
<1>8. CASE UNCHANGED vars
  BY <1>8, Zenon DEF vars
<1> QED BY <1>1, <1>2, <1>3, <1>4, <1>5, <1>6, <1>7, <1>8, Zenon DEF Next

\* A public done event is never replaced by another one: AppendDoneIdempotent
\* refuses, and EnsureTerminalEvents writes only where there is none.
THEOREM DoneIsFinal == Spec => DoneNeverRewritten
<1>1. TypeOK /\ [Next]_vars => [disk.done # None => disk'.done \in {None, disk.done}]_vars
  BY DoneKept, Zenon
<1> QED BY <1>1, TypeCorrect, PTL DEF Spec, DoneNeverRewritten

\* Without a power loss no step takes a row out of deletion.
LEMMA DeletionKept ==
  ASSUME TypeOK, [Next]_vars, "powerLoss" \notin Faults, db.status \in {"deleting", "gone"}
  PROVE  db'.status \in {"deleting", "gone"}
<1> USE DEF TypeOK, Database
<1>1. ASSUME NEW p \in Procs, FinalizeStep(p) PROVE db'.status \in {"deleting", "gone"}
  <2>1. CASE PhaseA2(p) \/ PhaseB1(p) \/ RevertTx(p)
    BY <2>1, Zenon DEF PhaseA2, PhaseB1, RevertTx
  <2>2. CASE PhaseA2Fails(p) \/ RenamesDone(p) \/ AppendDone(p) \/ CommitDone(p) \/ GiveUp(p)
    BY <2>2, ZenonT(60) DEF PhaseA2Fails, RenamesDone, AppendDone, CommitDone, GiveUp
  <2>3. CASE CommitDiscarded(p)
    BY <2>3, Zenon DEF CommitDiscarded
  <2>4. ASSUME NEW o \in Outputs, Rename(p, o) \/ SyncRenamed(p, o) \/ RenameFails(p, o)
                                  \/ RevertRemove(p, o) \/ RecalcTTL(p, o)
        PROVE  db'.status \in {"deleting", "gone"}
    BY <2>4, Zenon DEF Rename, SyncRenamed, RenameFails, RevertRemove, RecalcTTL
  <2> QED BY <1>1, <2>1, <2>2, <2>3, <2>4, Zenon DEF FinalizeStep
<1>2. ASSUME NEW k \in Killers, KillOpen(k) \/ KillTx(k) \/ Disconnect(k)
      PROVE  db'.status \in {"deleting", "gone"}
  BY <1>2, Zenon DEF KillOpen, KillTx, Disconnect
<1>3. CASE PickUp \/ ProcessExit \/ CapOutcome \/ DeleteRead \/ DeleteMark
  BY <1>3, ZenonT(60) DEF PickUp, ProcessExit, CapOutcome, DeleteRead, DeleteMark
<1>4. CASE Cleanup
  BY <1>4, Zenon DEF Cleanup, CleanerPick, CleanerMark, CleanerFiles, CleanerDelete, CleanerRecalc
<1>5. ASSUME NEW o \in Outputs, CollectGarbage(o) PROVE db'.status \in {"deleting", "gone"}
  BY <1>5, Zenon DEF CollectGarbage, DrainNeedsRecalc, ExpireTTL, Tombstone, UnlinkTombstone, DropStagingRow
<1>6. CASE StartUp
  <2>1. ASSUME NEW o \in Outputs, CatchUp(o) \/ CatchUpFails(o)
        PROVE  db'.status \in {"deleting", "gone"}
    BY <2>1, Zenon DEF CatchUp, CatchUpFails
  <2> QED BY <1>6, <2>1, Zenon DEF StartUp, StartDaemon, RepairIntent, CatchUpDone, IntentsRepaired,
             EnsureTerminalEvents, SweepRunningToLost, SweepOrphans
<1>7. CASE Failure
  BY <1>7, ZenonT(60) DEF Failure, Crash, Checkpoint, PowerLoss, EventsLost, DiskDamage
<1>8. CASE UNCHANGED vars
  BY <1>8, Zenon DEF vars
<1> QED BY <1>1, <1>2, <1>3, <1>4, <1>5, <1>6, <1>7, <1>8, Zenon DEF Next

\* Unless a power loss takes back the deletion itself, a row that is being
\* deleted is never resurrected by a finalize that was already under way.
THEOREM DeletionHolds == ASSUME "powerLoss" \notin Faults PROVE Spec => DeletionIsFinal
<1>1. TypeOK /\ [Next]_vars =>
        [db.status \in {"deleting", "gone"} => db'.status \in {"deleting", "gone"}]_vars
  BY DeletionKept, Zenon
<1> QED BY <1>1, TypeCorrect, PTL DEF Spec, DeletionIsFinal

=============================================================================
