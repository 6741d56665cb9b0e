------------------------------ MODULE Finalize ------------------------------
(***************************************************************************)
(* The life of one mission's outcome: the two-phase finalize, the kill of  *)
(* a queued mission, deletion and cleanup, the garbage collection of its   *)
(* output files, crashes, and the repair that runs at every start.         *)
(*                                                                         *)
(* The SQLite database is db.  A write transaction (storage.WithWriter)    *)
(* is one atomic update of db.  The events file and the staging store are  *)
(* disk; the public terminal event is disk.done.  job[p] is the control    *)
(* point and the local variables of goroutine p while it executes package  *)
(* mission's finalize code: the mission's own waiter, the startup repair,  *)
(* or a kill request.                                                      *)
(***************************************************************************)
EXTENDS Naturals

CONSTANTS
    Outputs,     \* the output files the mission may declare
    Killers,     \* concurrent kill requests for the queued mission
    Faults,      \* which failures may happen, a subset of AllFaults
    MaxCrashes,  \* bound on the number of crashes and power losses
    None         \* NULL

\* ioError is a call that writes, renames, syncs or opens the events file; readError is
\* the repair's look at an output (stat, open, read) that fails although the file is there.
AllFaults == {"crash", "powerLoss", "ioError", "readError", "disconnect", "diskDamage", "eventsLost"}

Verdicts == {"success", "failed", "killed", "crashed", "lost", "output_commit_failed"}

\* A done event: outcome with fail reason, and time_finished.  Two events built
\* in different daemon lives never carry the same time.
Event == [verdict : Verdicts, epoch : Nat]

Intent == [phase : {"prepared", "committing"}, ev : Event, outs : SUBSET Outputs]

StagingStates == {"none", "pending_output", "committing", "complete", "deleting"}

\* ttl is "initial" for the 24h time_expires of Phase A2 and "policy" once
\* RecalcStagingTTL has replaced it; the delete trigger on refs sets "zero".
StagingRow == [state : StagingStates, path : {"tmp", "final"}, ttl : {"initial", "policy", "zero"}]

NoRow == [state |-> "none", path |-> "tmp", ttl |-> "initial"]

Database ==
    [status  : {"queued", "running", "done", "deleting", "gone"},
     result  : Event \cup {None},
     intent  : Intent \cup {None},
     staging : [Outputs -> StagingRow],
     refs    : SUBSET Outputs]

Disk ==
    [file     : BOOLEAN,            \* the events file exists
     done     : Event \cup {None},  \* its terminal event
     tmp      : SUBSET Outputs,     \* <staging_id>.tmp exists
     final    : SUBSET Outputs,     \* <staging_id> exists
     bad      : SUBSET Outputs,     \* its content does not have the declared sha256
     unsynced : SUBSET Outputs,     \* renamed, parent directory not yet fsynced
     tomb     : SUBSET Outputs]     \* tombstone/<staging_id> exists

PCs == {"idle", "exec", "a2", "b1", "rename", "catchup", "revert", "append",
        "commit", "recalc", "kill"}

Procs == {"waiter", "repair"} \cup Killers

Job == [pc : PCs, ev : Event \cup {None}, outs : SUBSET Outputs, todo : SUBSET Outputs]

IdleJob == [pc |-> "idle", ev |-> None, outs |-> {}, todo |-> {}]

BootSteps == {"down", "intents", "repairing", "terminal", "lost", "sweeping", "orphans", "up"}

ASSUME ConstantsOK ==
    /\ Faults \subseteq AllFaults
    /\ MaxCrashes \in Nat
    /\ Killers \cap {"waiter", "repair"} = {}
    /\ None \notin Event /\ None \notin Intent

VARIABLES
    db, durable,               \* the database; what of it survives a power loss
    disk,                      \* events file and staging store
    job,                       \* goroutines inside the finalize code
    boot, epoch, critical,     \* start-up progress, daemon lives, readyz flag
    cleaner, deleter, acked,   \* mission cleaner; DELETE handler and its 202
    seen                       \* history: done events a client may have read

vars == <<db, durable, disk, job, boot, epoch, critical, cleaner, deleter, acked, seen>>

life == <<boot, epoch, critical>>
admin == <<cleaner, deleter, acked>>

TypeOK ==
    /\ db \in Database /\ durable \in Database
    /\ disk \in Disk
    /\ job \in [Procs -> Job]
    /\ boot \in BootSteps /\ epoch \in Nat /\ critical \in BOOLEAN
    /\ cleaner \in {"idle", "mark", "files", "delete", "recalc"}
    /\ deleter \in {"idle", "mark"} /\ acked \in BOOLEAN
    /\ seen \subseteq Event

-----------------------------------------------------------------------------
\* A mission just dispatched: the row is queued, the events file is on disk.
Init ==
    /\ db = [status |-> "queued", result |-> None, intent |-> None,
             staging |-> [o \in Outputs |-> NoRow], refs |-> {}]
    /\ durable = db
    /\ disk = [file |-> TRUE, done |-> None, tmp |-> {}, final |-> {}, bad |-> {},
               unsynced |-> {}, tomb |-> {}]
    /\ job = [p \in Procs |-> IdleJob]
    /\ boot = "up" /\ epoch = 0 /\ critical = FALSE
    /\ cleaner = "idle" /\ deleter = "idle" /\ acked = FALSE
    /\ seen = {}

At(p, pc) == job[p].pc = pc

Now(v) == [verdict |-> v, epoch |-> epoch]

-----------------------------------------------------------------------------
(* The mission's waiter, up to Finalize.                                   *)

\* Mutant: pickup ignores a pending finalize intent.
PickUpIgnoringIntent ==
    /\ boot = "up" /\ At("waiter", "idle") /\ db.status = "queued"
    /\ db' = [db EXCEPT !.status = "running"]
    /\ job' = [job EXCEPT !["waiter"].pc = "exec"]
    /\ UNCHANGED <<durable, disk, life, admin, seen>>

\* The lane runner claims the row in one transaction and spawns the waiter.
PickUp ==
    /\ boot = "up" /\ At("waiter", "idle")
    /\ db.status = "queued" /\ db.intent = None
    /\ db' = [db EXCEPT !.status = "running"]
    /\ job' = [job EXCEPT !["waiter"].pc = "exec"]
    /\ UNCHANGED <<durable, disk, life, admin, seen>>

\* The process never started, or exited with verdict v.  A success may have
\* declared outputs, which are copied to .tmp files under fresh staging ids.
\* Either way the events file exists (it is opened or created).
ProcessExit ==
    /\ At("waiter", "exec")
    /\ \E v \in {"success", "failed", "killed", "crashed"}, outs \in SUBSET Outputs :
        /\ outs # {} => v = "success"
        /\ \A o \in outs : /\ db.staging[o].state = "none"
                           /\ o \notin disk.tmp \cup disk.final \cup disk.tomb
        /\ job' = [job EXCEPT !["waiter"] =
                     [pc |-> "a2", ev |-> Now(v), outs |-> outs, todo |-> {}]]
        /\ disk' = [disk EXCEPT !.tmp = @ \cup outs, !.file = TRUE]
    /\ UNCHANGED <<db, durable, life, admin, seen>>

\* capOutcome demotes a success whose return value is too large; its collected
\* outputs are dropped.
CapOutcome ==
    /\ At("waiter", "a2") /\ job["waiter"].outs # {}
    /\ disk' = [disk EXCEPT !.tmp = @ \ job["waiter"].outs]
    /\ job' = [job EXCEPT !["waiter"].ev = Now("failed"), !["waiter"].outs = {}]
    /\ UNCHANGED <<db, durable, life, admin, seen>>

-----------------------------------------------------------------------------
(* Finalize and its tail, executed by the waiter and by the repair.        *)

\* Phase A2: the intent and the pending_output rows in one transaction.  The
\* intent's primary key and its foreign key to the mission row are constraints.
PhaseA2(p) ==
    /\ At(p, "a2") /\ disk.file
    /\ db.status # "gone" /\ db.intent = None
    /\ db' = [db EXCEPT
               !.intent = [phase |-> "prepared", ev |-> job[p].ev, outs |-> job[p].outs],
               !.staging = [o \in Outputs |->
                   IF o \in job[p].outs
                   THEN [state |-> "pending_output", path |-> "tmp", ttl |-> "initial"]
                   ELSE db.staging[o]]]
    /\ job' = [job EXCEPT ![p].pc = IF job[p].outs = {} THEN "append" ELSE "b1"]
    /\ UNCHANGED <<durable, disk, life, admin, seen>>

\* Phase A2 failed: the .tmp files are removed and the row stays as it was.
PhaseA2Fails(p) ==
    /\ At(p, "a2")
    /\ "ioError" \in Faults \/ db.status = "gone" \/ db.intent # None
    /\ disk' = [disk EXCEPT !.tmp = @ \ job[p].outs]
    /\ job' = [job EXCEPT ![p] = IdleJob]
    /\ UNCHANGED <<db, durable, life, admin, seen>>

\* Phase B step 1: staging rows and intent become committing.
PhaseB1(p) ==
    /\ At(p, "b1") /\ db.intent # None
    /\ db' = [db EXCEPT
               !.intent.phase = "committing",
               !.staging = [o \in Outputs |->
                   IF o \in job[p].outs /\ db.staging[o].state = "pending_output"
                   THEN [db.staging[o] EXCEPT !.state = "committing"]
                   ELSE db.staging[o]]]
    /\ job' = [job EXCEPT ![p].pc = "rename", ![p].todo = job[p].outs]
    /\ UNCHANGED <<durable, disk, life, admin, seen>>

\* Phase B step 2: rename one output, then fsync its directory; a failed fsync
\* is only counted.
Rename(p, o) ==
    /\ At(p, "rename") /\ o \in job[p].todo \cap disk.tmp
    /\ disk.unsynced \cap job[p].todo = {}
    /\ disk' = [disk EXCEPT !.tmp = @ \ {o}, !.final = @ \cup {o}, !.unsynced = @ \cup {o}]
    /\ UNCHANGED <<db, durable, job, life, admin, seen>>

SyncRenamed(p, o) ==
    /\ At(p, "rename") /\ o \in job[p].todo \cap disk.unsynced
    /\ disk' = [disk EXCEPT !.unsynced = @ \ {o}] \/ ("ioError" \in Faults /\ disk' = disk)
    /\ job' = [job EXCEPT ![p].todo = @ \ {o}]
    /\ UNCHANGED <<db, durable, life, admin, seen>>

RenamesDone(p) ==
    /\ At(p, "rename") /\ job[p].todo = {}
    /\ job' = [job EXCEPT ![p].pc = "append"]
    /\ UNCHANGED <<db, durable, disk, life, admin, seen>>

\* Mutant: only the outputs tried so far are reverted.
RenameFailsSliced(p, o) ==
    /\ At(p, "rename") /\ o \in job[p].todo \ disk.unsynced
    /\ "ioError" \in Faults \/ o \notin disk.tmp
    /\ LET tried == (job[p].outs \ job[p].todo) \cup {o}
       IN job' = [job EXCEPT ![p].pc = "revert", ![p].outs = tried, ![p].todo = tried]
    /\ UNCHANGED <<db, durable, disk, life, admin, seen>>

\* A rename fails: every output of the mission is given up.
RenameFails(p, o) ==
    /\ At(p, "rename") /\ o \in job[p].todo \ disk.unsynced
    /\ "ioError" \in Faults \/ o \notin disk.tmp
    /\ job' = [job EXCEPT ![p].pc = "revert", ![p].todo = job[p].outs]
    /\ UNCHANGED <<db, durable, disk, life, admin, seen>>

\* revertFailedCommit: remove both copies of each output ...
RevertRemove(p, o) ==
    /\ At(p, "revert") /\ o \in job[p].todo
    /\ disk' = [disk EXCEPT !.tmp = @ \ {o}, !.final = @ \ {o}, !.bad = @ \ {o},
                            !.unsynced = @ \ {o}]
    /\ job' = [job EXCEPT ![p].todo = @ \ {o}]
    /\ UNCHANGED <<db, durable, life, admin, seen>>

\* ... then rewrite the intent into a failure without outputs.
RevertTx(p) ==
    /\ At(p, "revert") /\ job[p].todo = {}
    /\ db' = [db EXCEPT
               !.intent = IF @ = None THEN None
                          ELSE [phase |-> "prepared", ev |-> Now("output_commit_failed"),
                                outs |-> {}],
               !.staging = [o \in Outputs |->
                   IF o \in job[p].outs /\ db.staging[o].state # "none"
                   THEN [db.staging[o] EXCEPT !.state = "deleting"]
                   ELSE db.staging[o]]]
    /\ job' = [job EXCEPT ![p] = [pc |-> "append", ev |-> Now("output_commit_failed"),
                                  outs |-> {}, todo |-> {}]]
    /\ UNCHANGED <<durable, disk, life, admin, seen>>

\* Mutant: a conflicting done event is overwritten.
AppendDoneOverwriting(p) ==
    /\ At(p, "append") /\ disk.file
    /\ disk' = [disk EXCEPT !.done = job[p].ev]
    /\ seen' = seen \cup {job[p].ev}
    /\ job' = [job EXCEPT ![p].pc = "commit"]
    /\ UNCHANGED <<db, durable, life, admin>>

\* commitFinalize, first half: AppendDoneIdempotent.  An existing done event with
\* other content blocks the commit and trips the sticky critical-error flag.
AppendDone(p) ==
    /\ At(p, "append") /\ disk.file
    /\ IF disk.done \in {None, job[p].ev}
       THEN /\ disk' = [disk EXCEPT !.done = job[p].ev]
            /\ seen' = seen \cup {job[p].ev}
            /\ job' = [job EXCEPT ![p].pc = "commit"]
            /\ UNCHANGED critical
       ELSE /\ critical' = TRUE
            /\ job' = [job EXCEPT ![p] = IdleJob]
            /\ UNCHANGED <<disk, seen>>
    /\ UNCHANGED <<db, durable, boot, epoch, admin>>

InPhaseB(o) == db.staging[o].state \in {"pending_output", "committing"}

\* Mutant: the UPDATE has no status guard.
CommitDoneUnguarded(p) ==
    /\ At(p, "commit") /\ \A o \in job[p].outs : InPhaseB(o)
    /\ db' = [status |-> "done", result |-> job[p].ev, intent |-> None,
              staging |-> [o \in Outputs |->
                  IF o \in job[p].outs
                  THEN [db.staging[o] EXCEPT !.state = "complete", !.path = "final"]
                  ELSE db.staging[o]],
              refs |-> db.refs \cup job[p].outs]
    /\ job' = [job EXCEPT ![p] = IF job[p].outs = {} THEN IdleJob
                                 ELSE [job[p] EXCEPT !.pc = "recalc", !.todo = job[p].outs]]
    /\ UNCHANGED <<durable, disk, life, admin, seen>>

\* Mutant: the final transaction does not delete the intent.
CommitDoneKeepingIntent(p) ==
    /\ At(p, "commit") /\ db.status \in {"queued", "running"}
    /\ db' = [db EXCEPT !.status = "done", !.result = job[p].ev]
    /\ job' = [job EXCEPT ![p] = IdleJob]
    /\ UNCHANGED <<durable, disk, life, admin, seen>>

\* commitFinalize, second half, the row is still queued or running.
CommitDone(p) ==
    /\ At(p, "commit") /\ db.status \in {"queued", "running"}
    /\ \A o \in job[p].outs : InPhaseB(o)
    /\ db' = [status |-> "done", result |-> job[p].ev, intent |-> None,
              staging |-> [o \in Outputs |->
                  IF o \in job[p].outs
                  THEN [db.staging[o] EXCEPT !.state = "complete", !.path = "final"]
                  ELSE db.staging[o]],
              refs |-> db.refs \cup job[p].outs]
    /\ job' = [job EXCEPT ![p] = IF job[p].outs = {} THEN IdleJob
                                 ELSE [job[p] EXCEPT !.pc = "recalc", !.todo = job[p].outs]]
    /\ UNCHANGED <<durable, disk, life, admin, seen>>

\* Mutant: the intent of a discarded outcome is not deleted.
CommitDiscardedKeepingIntent(p) ==
    /\ At(p, "commit") /\ db.status \notin {"queued", "running"}
    /\ job' = [job EXCEPT ![p] = IdleJob]
    /\ UNCHANGED <<db, durable, disk, life, admin, seen>>

\* The row is being deleted, or gone: the outcome is discarded and the outputs
\* are handed to the garbage collector.
CommitDiscarded(p) ==
    /\ At(p, "commit") /\ db.status \notin {"queued", "running"}
    /\ db' = [db EXCEPT
               !.intent = None,
               !.staging = [o \in Outputs |->
                   IF o \in job[p].outs /\ InPhaseB(o)
                   THEN [db.staging[o] EXCEPT !.state = "deleting", !.path = "final"]
                   ELSE db.staging[o]]]
    /\ job' = [job EXCEPT ![p] = IdleJob]
    /\ UNCHANGED <<durable, disk, life, admin, seen>>

\* RecalcStagingTTL on one row.
Recalculated(row) == IF row.state = "complete" THEN [row EXCEPT !.ttl = "policy"] ELSE row

\* After the commit, one transaction per output replaces the 24h expiry.  The
\* row's UPDATE is restricted to complete rows; a failure is only logged.
RecalcTTL(p, o) ==
    /\ At(p, "recalc") /\ o \in job[p].todo
    /\ \/ db' = [db EXCEPT !.staging[o] = Recalculated(@)]
       \/ "ioError" \in Faults /\ db' = db
    /\ job' = [job EXCEPT ![p] = IF job[p].todo = {o} THEN IdleJob
                                 ELSE [job[p] EXCEPT !.todo = @ \ {o}]]
    /\ UNCHANGED <<durable, disk, life, admin, seen>>

\* A step of Finalize returns an error: the goroutine ends, the intent stays.
GiveUp(p) ==
    /\ \/ /\ "ioError" \in Faults
          /\ job[p].pc \in {"a2", "b1", "append", "commit", "kill"}
             \/ (At(p, "revert") /\ job[p].todo = {})
       \/ At(p, "a2") /\ ~disk.file
       \/ At(p, "append") /\ ~disk.file
       \/ At(p, "b1") /\ db.intent = None
       \/ /\ At(p, "commit") /\ db.status \in {"queued", "running"}
          /\ \E o \in job[p].outs : ~InPhaseB(o)
    /\ job' = [job EXCEPT ![p] = IdleJob]
    /\ UNCHANGED <<db, durable, disk, life, admin, seen>>

FinalizeStep(p) ==
    \/ PhaseA2(p) \/ PhaseA2Fails(p) \/ PhaseB1(p) \/ RenamesDone(p)
    \/ RevertTx(p) \/ AppendDone(p) \/ CommitDone(p) \/ CommitDiscarded(p) \/ GiveUp(p)
    \/ \E o \in Outputs : \/ Rename(p, o) \/ SyncRenamed(p, o) \/ RenameFails(p, o)
                          \/ RevertRemove(p, o) \/ RecalcTTL(p, o)

-----------------------------------------------------------------------------
(* Requests: kill of a queued mission, and deletion.                       *)

\* The handler read the row as queued; KillQueued opens the events file and
\* stamps its done event.
KillOpen(k) ==
    /\ boot = "up" /\ At(k, "idle") /\ db.status = "queued" /\ disk.file
    /\ job' = [job EXCEPT ![k] = [IdleJob EXCEPT !.pc = "kill", !.ev = Now("killed")]]
    /\ UNCHANGED <<db, durable, disk, life, admin, seen>>

\* KillQueued's transaction: re-check the row, insert the intent.
KillTx(k) ==
    /\ At(k, "kill")
    /\ IF db.status = "queued" /\ db.intent = None
       THEN /\ db' = [db EXCEPT !.intent = [phase |-> "prepared", ev |-> job[k].ev,
                                            outs |-> {}]]
            /\ job' = [job EXCEPT ![k] = [IdleJob EXCEPT !.pc = "append", !.ev = job[k].ev]]
       ELSE /\ job' = [job EXCEPT ![k] = IdleJob]
            /\ UNCHANGED db
    /\ UNCHANGED <<durable, disk, life, admin, seen>>

\* The client goes away: the request context is cancelled, and the next
\* transaction of the kill fails.
Disconnect(k) ==
    /\ "disconnect" \in Faults
    /\ job[k].pc \in {"kill", "commit"}
    /\ job' = [job EXCEPT ![k] = IdleJob]
    /\ UNCHANGED <<db, durable, disk, life, admin, seen>>

\* DELETE reads the row outside of any transaction ...
DeleteRead ==
    /\ boot = "up" /\ deleter = "idle" /\ ~acked
    /\ db.status \in {"queued", "done"}
    /\ deleter' = "mark"
    /\ UNCHANGED <<db, durable, disk, job, life, cleaner, acked, seen>>

\* ... then updates it if it is still queued or done, and answers 202 either way.
DeleteMark ==
    /\ deleter = "mark"
    /\ db' = IF db.status \in {"queued", "done"} THEN [db EXCEPT !.status = "deleting"] ELSE db
    /\ deleter' = "idle" /\ acked' = TRUE
    /\ UNCHANGED <<durable, disk, job, life, cleaner, seen>>

-----------------------------------------------------------------------------
(* Retention: the mission cleaner and the staging garbage collector.       *)

\* pickVictims: a deleting row, or a done row past its TTL, without an intent.
CleanerPick ==
    /\ boot = "up" /\ cleaner = "idle" /\ db.intent = None
    /\ \/ db.status = "deleting" /\ cleaner' = "files"
       \/ db.status = "done" /\ cleaner' = "mark"
    /\ UNCHANGED <<db, durable, disk, job, life, deleter, acked, seen>>

CleanerMark ==
    /\ cleaner = "mark"
    /\ db' = IF db.status = "done" THEN [db EXCEPT !.status = "deleting"] ELSE db
    /\ cleaner' = "files"
    /\ UNCHANGED <<durable, disk, job, life, deleter, acked, seen>>

\* processBatch: files first ...
CleanerFiles ==
    /\ cleaner = "files"
    /\ disk' = [disk EXCEPT !.file = FALSE, !.done = None]
    /\ cleaner' = "delete"
    /\ UNCHANGED <<db, durable, job, life, deleter, acked, seen>>

\* ... then the row, which cascades to the intent and the refs; the trigger on
\* refs zeroes the expiry of the files they named.
CleanerDelete ==
    /\ cleaner = "delete"
    /\ db' = [db EXCEPT
               !.status = "gone", !.intent = None, !.refs = {},
               !.staging = [o \in Outputs |->
                   IF o \in db.refs THEN [db.staging[o] EXCEPT !.ttl = "zero"]
                   ELSE db.staging[o]]]
    /\ cleaner' = "recalc"
    /\ UNCHANGED <<durable, disk, job, life, deleter, acked, seen>>

CleanerRecalc ==
    /\ cleaner = "recalc"
    /\ db' = [db EXCEPT !.staging = [o \in Outputs |->
                 IF db.staging[o].ttl = "zero" THEN Recalculated(db.staging[o])
                 ELSE db.staging[o]]]
    /\ cleaner' = "idle"
    /\ UNCHANGED <<durable, disk, job, life, deleter, acked, seen>>

\* One pass of the staging collector, row by row.  Time is not modelled: any
\* complete row whose expiry is not the zero sentinel may be past it.
DrainNeedsRecalc(o) ==
    /\ boot = "up" /\ db.staging[o].ttl = "zero" /\ db.staging[o].state = "complete"
    /\ db' = [db EXCEPT !.staging[o] = Recalculated(@)]
    /\ UNCHANGED <<durable, disk, job, life, admin, seen>>

ExpireTTL(o) ==
    /\ boot = "up" /\ db.staging[o].state = "complete" /\ db.staging[o].ttl # "zero"
    /\ db' = [db EXCEPT !.staging[o].state = "deleting"]
    /\ UNCHANGED <<durable, disk, job, life, admin, seen>>

\* The file a staging row names.
SourceExists(o) == o \in (IF db.staging[o].path = "tmp" THEN disk.tmp ELSE disk.final)

Tombstone(o) ==
    /\ boot = "up" /\ db.staging[o].state = "deleting" /\ o \notin disk.tomb
    /\ SourceExists(o)
    /\ disk' = [disk EXCEPT !.tomb = @ \cup {o}, !.bad = @ \ {o}, !.unsynced = @ \ {o},
                            !.tmp = IF db.staging[o].path = "tmp" THEN @ \ {o} ELSE @,
                            !.final = IF db.staging[o].path = "final" THEN @ \ {o} ELSE @]
    /\ UNCHANGED <<db, durable, job, life, admin, seen>>

UnlinkTombstone(o) ==
    /\ boot = "up" /\ o \in disk.tomb
    /\ disk' = [disk EXCEPT !.tomb = @ \ {o}]
    /\ UNCHANGED <<db, durable, job, life, admin, seen>>

\* A deleting row without a file is deleted, unless a ref still names it.
DropStagingRow(o) ==
    /\ boot = "up" /\ db.staging[o].state = "deleting"
    /\ o \notin disk.tomb /\ ~SourceExists(o) /\ o \notin db.refs
    /\ db' = [db EXCEPT !.staging[o] = NoRow]
    /\ UNCHANGED <<durable, disk, job, life, admin, seen>>

-----------------------------------------------------------------------------
(* Failures.  Everything in memory is lost with the process.               *)

Die ==
    /\ epoch < MaxCrashes /\ epoch' = epoch + 1
    /\ job' = [p \in Procs |-> IdleJob]
    /\ boot' = "down" /\ critical' = FALSE
    /\ cleaner' = "idle" /\ deleter' = "idle" /\ UNCHANGED <<acked, seen>>

\* The daemon dies; the machine stays up, so every completed write is kept.
Crash ==
    /\ "crash" \in Faults /\ Die
    /\ UNCHANGED <<db, durable, disk>>

\* The write-ahead log reaches the disk: at a checkpoint, or at the operating
\* system's convenience.  With synchronous=NORMAL a commit does not wait for it.
Checkpoint ==
    /\ "powerLoss" \in Faults
    /\ durable # db /\ durable' = db
    /\ UNCHANGED <<db, disk, job, life, admin, seen>>

\* The machine dies: commits after the last sync of the log are gone, and so may
\* be renames whose directory was not fsynced.  Appended done events are fsynced.
PowerLoss ==
    /\ "powerLoss" \in Faults /\ Die
    /\ db' = durable
    /\ \E undone \in SUBSET disk.unsynced :
          disk' = [disk EXCEPT !.tmp = @ \cup undone, !.final = @ \ undone, !.unsynced = {}]
    /\ UNCHANGED durable

\* While the daemon is down a renamed output is overwritten or lost, or a .tmp
\* file is lost.
DiskDamage(o) ==
    /\ "diskDamage" \in Faults /\ boot = "down"
    /\ \/ o \in disk.final /\ disk' = [disk EXCEPT !.bad = @ \cup {o}]
       \/ o \in disk.tmp \cup disk.final
          /\ disk' = [disk EXCEPT !.tmp = @ \ {o}, !.final = @ \ {o}, !.bad = @ \ {o},
                                  !.unsynced = @ \ {o}]
    /\ UNCHANGED <<db, durable, job, life, admin, seen>>

\* While the daemon is down the events file is lost.
EventsLost ==
    /\ "eventsLost" \in Faults /\ boot = "down" /\ disk.file
    /\ disk' = [disk EXCEPT !.file = FALSE, !.done = None]
    /\ UNCHANGED <<db, durable, job, life, admin, seen>>

-----------------------------------------------------------------------------
(* Start-up: the repair sweeps, in order, before the listener opens.       *)

StartDaemon ==
    /\ boot = "down" /\ boot' = "intents"
    /\ UNCHANGED <<db, durable, disk, job, epoch, critical, admin, seen>>

\* Mutant: a committing intent is committed without catching up.
ResumePointWithoutCatchUp(i) ==
    IF i.phase = "committing" \/ i.outs = {} THEN "append"
    ELSE IF i.outs \subseteq disk.tmp THEN "b1" ELSE "revert"

\* repairOne: where in the finalize code the stored intent is resumed.
ResumePoint(i) ==
    IF i.phase = "committing" THEN "catchup"
    ELSE IF i.outs = {} THEN "append"
    ELSE IF i.outs \subseteq disk.tmp THEN "b1" ELSE "revert"

\* Mutant: the done event is rebuilt with the current time.
RepairIntentRestamped ==
    /\ boot = "intents" /\ db.intent # None
    /\ disk' = [disk EXCEPT !.file = TRUE]
    /\ job' = [job EXCEPT !["repair"] =
                 [pc |-> ResumePoint(db.intent), ev |-> Now(db.intent.ev.verdict),
                  outs |-> db.intent.outs, todo |-> db.intent.outs]]
    /\ boot' = "repairing"
    /\ UNCHANGED <<db, durable, epoch, critical, admin, seen>>

\* RepairFinalizeIntents takes up the stored intent.
RepairIntent ==
    /\ boot = "intents" /\ db.intent # None
    /\ disk' = [disk EXCEPT !.file = TRUE]
    /\ job' = [job EXCEPT !["repair"] =
                 [pc |-> ResumePoint(db.intent), ev |-> db.intent.ev,
                  outs |-> db.intent.outs, todo |-> db.intent.outs]]
    /\ boot' = "repairing"
    /\ UNCHANGED <<db, durable, epoch, critical, admin, seen>>

\* Mutant: a renamed file is taken as it is.
CatchUpUnverified(o) ==
    /\ At("repair", "catchup") /\ o \in job["repair"].todo
    /\ o \in disk.tmp \cup disk.final
    /\ disk' = [disk EXCEPT !.tmp = @ \ {o}, !.final = @ \cup {o}]
    /\ job' = [job EXCEPT !["repair"].todo = @ \ {o}]
    /\ UNCHANGED <<db, durable, life, admin, seen>>

\* A committing intent, one output: redo the rename, or verify what was renamed.
CatchUp(o) ==
    /\ At("repair", "catchup") /\ o \in job["repair"].todo
    /\ IF o \in disk.final /\ o \notin disk.bad
       THEN /\ disk' = [disk EXCEPT !.tmp = @ \ {o}]
            /\ job' = [job EXCEPT !["repair"].todo = @ \ {o}]
       ELSE IF o \in disk.tmp \ disk.final
       THEN /\ \/ disk' = [disk EXCEPT !.tmp = @ \ {o}, !.final = @ \cup {o}]
               \/ /\ "ioError" \in Faults     \* the directory fsync fails
                  /\ disk' = [disk EXCEPT !.tmp = @ \ {o}, !.final = @ \cup {o},
                                          !.unsynced = @ \cup {o}]
            /\ job' = [job EXCEPT !["repair"].todo = @ \ {o}]
       ELSE /\ job' = [job EXCEPT !["repair"].pc = "revert",
                                  !["repair"].todo = job["repair"].outs]
            /\ UNCHANGED disk
    /\ UNCHANGED <<db, durable, life, admin, seen>>

\* The redone rename fails, or the look at an output does: of a committing intent the
\* renamed file cannot be examined or hashed, of a prepared one the .tmp file.  The code
\* takes each for a lost output and reverts the intent, whatever is public already.
CatchUpFails(o) ==
    /\ o \in job["repair"].todo
    /\ \/ At("repair", "catchup") /\ "ioError" \in Faults /\ o \in disk.tmp \ disk.final
       \/ At("repair", "catchup") /\ "readError" \in Faults
       \/ At("repair", "b1") /\ "readError" \in Faults
    /\ job' = [job EXCEPT !["repair"].pc = "revert",
                          !["repair"].todo = job["repair"].outs]
    /\ UNCHANGED <<db, durable, disk, life, admin, seen>>

CatchUpDone ==
    /\ At("repair", "catchup") /\ job["repair"].todo = {}
    /\ job' = [job EXCEPT !["repair"].pc = "append"]
    /\ UNCHANGED <<db, durable, disk, life, admin, seen>>

\* The next sweep starts when the previous one has returned.  An intent whose events file
\* cannot be opened is left to the next start.
IntentsRepaired ==
    /\ \/ boot = "repairing" /\ At("repair", "idle")
       \/ boot = "intents" /\ db.intent = None
       \/ boot = "intents" /\ "ioError" \in Faults
    /\ boot' = "terminal"
    /\ UNCHANGED <<db, durable, disk, job, epoch, critical, admin, seen>>

\* Mutant: a missing events file is not recreated.
EnsureTerminalExistingFile ==
    /\ boot = "terminal" /\ boot' = "lost"
    /\ IF db.status = "done" /\ disk.done = None /\ disk.file
       THEN /\ disk' = [disk EXCEPT !.done = db.result]
            /\ seen' = seen \cup {db.result}
       ELSE UNCHANGED <<disk, seen>>
    /\ UNCHANGED <<db, durable, job, epoch, critical, admin>>

\* EnsureTerminalEvents: a done row whose stream has no done event gets one,
\* reconstructed from the row.  A failure is logged and the sweep goes on.
EnsureTerminalEvents ==
    /\ boot = "terminal" /\ boot' = "lost"
    /\ IF db.status = "done" /\ disk.done = None
       THEN \/ /\ disk' = [disk EXCEPT !.file = TRUE, !.done = db.result]
               /\ seen' = seen \cup {db.result}
            \/ "ioError" \in Faults /\ UNCHANGED <<disk, seen>>
       ELSE UNCHANGED <<disk, seen>>
    /\ UNCHANGED <<db, durable, job, epoch, critical, admin>>

\* Mutant: the sweep takes the rows with an intent instead of those without.
SweepRunningInverted ==
    /\ boot = "lost"
    /\ IF db.status = "running" /\ db.intent # None
       THEN /\ disk' = [disk EXCEPT !.file = TRUE]
            /\ job' = [job EXCEPT !["repair"] =
                         [IdleJob EXCEPT !.pc = "a2", !.ev = Now("lost")]]
       ELSE UNCHANGED <<disk, job>>
    /\ boot' = "sweeping"
    /\ UNCHANGED <<db, durable, epoch, critical, admin, seen>>

\* SweepRunningToLost: Finalize with outcome lost and no outputs.
SweepRunningToLost ==
    /\ boot = "lost"
    /\ IF db.status = "running" /\ db.intent = None
       THEN /\ disk' = [disk EXCEPT !.file = TRUE]
            /\ job' = [job EXCEPT !["repair"] =
                         [IdleJob EXCEPT !.pc = "a2", !.ev = Now("lost")]]
       ELSE UNCHANGED <<disk, job>>
    /\ boot' = "sweeping"
    /\ UNCHANGED <<db, durable, epoch, critical, admin, seen>>

\* SweepOrphans removes files without a row and recalculates zeroed expiries;
\* then the daemon starts its runners, workers and listener.
SweepOrphans ==
    /\ boot = "sweeping" /\ At("repair", "idle") /\ boot' = "up"
    /\ LET known == {o \in Outputs : db.staging[o].state # "none"}
           rowExists == db.status # "gone"
       IN disk' = [disk EXCEPT !.tmp = @ \cap known, !.final = @ \cap known,
                               !.bad = @ \cap known, !.unsynced = @ \cap known,
                               !.file = @ /\ rowExists,
                               !.done = IF rowExists THEN @ ELSE None]
    /\ db' = [db EXCEPT !.staging = [o \in Outputs |->
                 IF db.staging[o].ttl = "zero" THEN Recalculated(db.staging[o])
                 ELSE db.staging[o]]]
    /\ UNCHANGED <<durable, job, epoch, critical, admin, seen>>

-----------------------------------------------------------------------------
StartUp ==
    \/ StartDaemon \/ RepairIntent \/ CatchUpDone \/ IntentsRepaired
    \/ EnsureTerminalEvents \/ SweepRunningToLost \/ SweepOrphans
    \/ \E o \in Outputs : CatchUp(o) \/ CatchUpFails(o)

Cleanup == CleanerPick \/ CleanerMark \/ CleanerFiles \/ CleanerDelete \/ CleanerRecalc

CollectGarbage(o) ==
    \/ DrainNeedsRecalc(o) \/ ExpireTTL(o) \/ Tombstone(o) \/ UnlinkTombstone(o)
    \/ DropStagingRow(o)

Failure ==
    \/ Crash \/ Checkpoint \/ PowerLoss \/ EventsLost
    \/ \E o \in Outputs : DiskDamage(o)

Next ==
    \/ PickUp \/ ProcessExit \/ CapOutcome
    \/ \E p \in Procs : FinalizeStep(p)
    \/ \E k \in Killers : KillOpen(k) \/ KillTx(k) \/ Disconnect(k)
    \/ DeleteRead \/ DeleteMark
    \/ Cleanup
    \/ \E o \in Outputs : CollectGarbage(o)
    \/ StartUp
    \/ Failure

Spec == Init /\ [][Next]_vars

\* Every goroutine that can take a step eventually does, the service manager
\* restarts a dead daemon, and the cleaner's ticker keeps firing.  Nothing is
\* assumed of requests, of the mission's process, or of failures.
Fairness ==
    /\ \A p \in Procs : WF_vars(FinalizeStep(p))
    /\ \A k \in Killers : WF_vars(KillTx(k))
    /\ WF_vars(StartUp) /\ WF_vars(Cleanup) /\ WF_vars(DeleteMark)

FairSpec == Spec /\ Fairness

-----------------------------------------------------------------------------
(* Safety.                                                                 *)

Quiet == boot = "up" /\ \A p \in Procs : At(p, "idle")

\* A finished mission's row and its public event stream never tell different
\* outcomes: commitFinalize appends the event before the row's UPDATE and refuses
\* a conflicting one (README "Durability and crash recovery").
StreamAgreesWithRow == db.status = "done" => disk.done \in {None, db.result}

\* While the daemon serves requests, the stream of every done mission ends with
\* its done event: follow=true readers terminate only on that line
\* (EnsureTerminalEvents).
DoneRowHasDoneEvent == boot = "up" /\ db.status = "done" => disk.done = db.result

\* No two readers of the stream, before and after any number of restarts, ever
\* see different terminal events (AppendDoneIdempotent, repairOne).
OneStory == \A e, f \in seen : e = f

\* Repair replays an interrupted finalize exactly, so it never meets a done event
\* that disagrees with its intent (README "Durability and crash recovery").  A power
\* loss that keeps the done event and takes the intent refutes it.
NoTerminalConflict == ~critical

\* A mission whose outcome is public is never executed (again): the intent keeps a
\* killed row from being picked up until it is done (queued_kill.go).
NeverRunsAfterDone == At("waiter", "exec") => seen = {}

\* A staging row in a Phase B state is always named by the mission's intent.  No
\* sweep touches such rows, so one without an intent would leak for good.
PhaseBRowsTracked ==
    \A o \in Outputs : InPhaseB(o) => db.intent # None /\ o \in db.intent.outs

\* The cleaner removes files and row only of a mission that no finalize, live or
\* to be repaired, still works on (the NOT EXISTS intent gate of pickVictims).
CleanerNeverRacesFinalize ==
    cleaner \in {"files", "delete"} =>
        /\ db.status = "deleting" /\ db.intent = None
        /\ \A p \in Procs : job[p].pc \in {"idle", "kill", "recalc"}

\* The file of a committed output exists until its row is deleted: rename and
\* directory fsync come before the commit, in Finalize and in the repair.
CommittedOutputsOnDisk == \A o \in Outputs : db.staging[o].state = "complete" => o \in disk.final

\* When nothing is being finalized, a .tmp file belongs to a row the repair will
\* still look at; no sweep removes the .tmp file of a complete row.
NoStrandedTmp == Quiet => \A o \in disk.tmp : InPhaseB(o)

\* The output files and their rows agree, in both directions: no complete row without
\* its file, no .tmp file without a row, whatever step a crash has interrupted.
OutputFilesMatchRows == CommittedOutputsOnDisk /\ NoStrandedTmp

\* The policy expiry replaces the 24h one of every committed output
\* (README "Staging": its expiry is the finish time plus the relevant TTL).
OutputTTLSettled ==
    Quiet => \A o \in db.refs : db.staging[o].state = "complete" => db.staging[o].ttl = "policy"

\* A deletion answered with 202 deletion_pending takes place
\* (README "DELETE /v1/missions/{id}": mark the mission deleting).  The code does not
\* keep this: a pickup between DeleteRead and DeleteMark refutes it without any fault.
AckedDeletionHolds == acked => db.status \in {"deleting", "gone"}

(* Action properties.                                                      *)

\* The daemon never rewrites a public done event, it only removes whole files.
DoneNeverRewritten == [][disk.done # None => disk'.done \in {None, disk.done}]_vars

\* A finalize never resurrects a row that is being deleted (the status guard of
\* commitFinalize's UPDATE).
DeletionIsFinal ==
    [][db.status \in {"deleting", "gone"} => db'.status \in {"deleting", "gone"}]_vars

\* An output becomes complete only with the declared content at its final path:
\* what an earlier life renamed is verified again (repairOne).
CommittedOutputsIntact ==
    [][\A o \in Outputs :
          db.staging[o].state # "complete" /\ db'.staging[o].state = "complete"
             => o \in disk.final \ disk.bad]_vars

(* Liveness.                                                               *)

\* Every finalize that was begun is completed, by its own goroutine or by the
\* repair after a crash, or the conflict flag is raised.
IntentDrains == db.intent # None ~> db.intent = None \/ critical

\* A row marked deleting does not stay so (pickVictims: the gate self-clears): it is
\* removed, or a power loss takes the mark back.
DeletingDrains == db.status = "deleting" ~> db.status # "deleting" \/ critical

\* A mission that was running when the daemon died does not stay running.
LostIsResolved == boot = "down" /\ db.status = "running" ~> db.status # "running" \/ critical

-----------------------------------------------------------------------------
(* The inductive invariant behind StreamAgreesWithRow, PhaseBRowsTracked and *)
(* CleanerNeverRacesFinalize.                                                *)

\* p is between the commit of the intent and the commit of the outcome.
Holds(p) == job[p].pc \in {"b1", "rename", "catchup", "revert", "append", "commit"}

\* p runs the mission or is about to write its intent.
Owns(p) == job[p].pc \in {"exec", "a2"}

JobsCarryEvents == \A p \in Procs : job[p].pc \notin {"idle", "exec"} => job[p].ev \in Event

\* One database state: an intent excludes a result, and names every Phase B row.
RowsConsistent(d) ==
    /\ d.status \in {"queued", "running"} => d.result = None
    /\ d.status = "done" => d.result # None
    /\ d.intent # None => d.result = None /\ d.status \notin {"done", "gone"}
    /\ \A o \in Outputs : d.staging[o].state \in {"pending_output", "committing"}
                            => d.intent # None /\ o \in d.intent.outs

\* At most one goroutine finalizes, and it works on the stored intent.
OneFinalizer ==
    /\ \A p, q \in Procs : Holds(p) /\ Holds(q) => p = q
    /\ \A p \in Procs : Holds(p) => /\ db.intent # None
                                    /\ db.intent.ev = job[p].ev
                                    /\ db.intent.outs = job[p].outs

\* At most one goroutine has yet to write an intent, for a running row.
OneOwner ==
    /\ \A p, q \in Procs : Owns(p) /\ Owns(q) => p = q
    /\ \A p \in Procs : Owns(p) => db.status = "running" /\ db.intent = None

\* Until the listener opens only the repair works, one sweep at a time.
BootAlone ==
    /\ boot # "up" => \A p \in Procs : p # "repair" => At(p, "idle")
    /\ boot \notin {"repairing", "sweeping"} => At("repair", "idle")
    /\ boot # "up" => cleaner = "idle"

\* What is about to be stored, what is stored and what a power loss would leave
\* stored all agree with the stream.
StreamMatches ==
    /\ \A p \in Procs : At(p, "commit") => disk.done \in {None, job[p].ev}
    /\ db.result # None => disk.done \in {None, db.result}
    /\ durable.result # None => db.result = durable.result

CleanerOwnsRow ==
    /\ cleaner = "mark" => db.status \in {"done", "deleting"} /\ db.intent = None
    /\ cleaner \in {"files", "delete"} => db.status = "deleting" /\ db.intent = None

\* What every transaction, append and rename of finalize, cleaner and repair keeps: it
\* implies TypeOK, StreamAgreesWithRow, PhaseBRowsTracked and CleanerNeverRacesFinalize.
FinalizeInv ==
    /\ TypeOK /\ JobsCarryEvents
    /\ RowsConsistent(db) /\ RowsConsistent(durable)
    /\ OneFinalizer /\ OneOwner /\ BootAlone
    /\ StreamMatches /\ CleanerOwnsRow

-----------------------------------------------------------------------------
(* The strengthening of FinalizeInv behind OneStory, NeverRunsAfterDone and  *)
(* ImplementsOutcome, as long as neither a power loss nor the loss of an     *)
(* events file takes back what was told.                                     *)

\* What was told is in the stream until the cleaner takes the file, and by then nobody
\* is left to tell something else; what is stored, or about to be, was told; and while
\* a mission may still be run nothing was.
StoryInv ==
    /\ OneStory
    /\ disk.done # None => disk.done \in seen
    /\ seen # {} /\ disk.done = None => db.status \in {"deleting", "gone"} /\ db.intent = None
    /\ \A p \in Procs : At(p, "commit") => job[p].ev \in seen
    /\ db.result # None => db.result \in seen
    /\ db.status \in {"queued", "running"} /\ db.intent = None => seen = {}

-----------------------------------------------------------------------------
(* The strengthening of FinalizeInv behind NoTerminalConflict and            *)
(* OutputFilesMatchRows, as long as no power is lost and no output file is   *)
(* damaged from outside.                                                     *)

\* An output is in one place, with the content that was declared.
OneCopy == disk.bad = {} /\ disk.unsynced \subseteq disk.final /\ disk.tmp \cap disk.final = {}

\* The outputs of an intent are in Phase B, a complete one has its file, and a .tmp file
\* is not yet renamed or has no row at all.
RowsHaveFiles ==
    /\ db.intent # None => \A o \in db.intent.outs : InPhaseB(o)
    /\ CommittedOutputsOnDisk
    /\ \A o \in disk.tmp : db.staging[o].state \in {"none", "pending_output", "committing"}

\* Outputs are renamed under a committing intent, all of them before the done event; and
\* where a rename may yet fail, none is public.
OnTrack(p) ==
    /\ job[p].pc \in {"rename", "catchup"} =>
          /\ db.intent.phase = "committing" /\ job[p].todo \subseteq job[p].outs
          /\ job[p].outs \ job[p].todo \subseteq disk.final
    /\ job[p].pc \in {"append", "commit"} =>
          /\ job[p].outs \subseteq disk.final
          /\ job[p].outs # {} => db.intent.phase = "committing"
    /\ At(p, "revert") =>
          /\ job[p].todo \subseteq job[p].outs
          /\ (job[p].outs \ job[p].todo) \cap (disk.tmp \cup disk.final) = {}
    /\ job[p].pc \in {"b1", "rename", "revert"} => disk.done = None

\* A done event in the stream of a mission that is not done is that of its intent, whose
\* outputs have all been renamed.
EventOfIntent ==
    /\ db.intent # None /\ disk.done # None =>
          /\ disk.done = db.intent.ev /\ db.intent.outs \subseteq disk.final
          /\ db.intent.outs # {} => db.intent.phase = "committing"
    /\ db.status \in {"queued", "running"} /\ db.intent = None => disk.done = None

ReplayInv ==
    OneCopy /\ RowsHaveFiles /\ (\A p \in Procs : OnTrack(p)) /\ EventOfIntent /\ NoTerminalConflict

\* And, where every system call works: a .tmp file without a row belongs to the goroutine
\* that is about to write the row, or waits for the sweep of a start.
TmpTracked ==
    /\ \A o \in disk.tmp : db.staging[o].state = "none" /\ boot = "up"
                          => \E p \in Procs : At(p, "a2") /\ o \in job[p].outs
    /\ \A p \in Procs : At(p, "a2") => disk.file

\* The strengthening behind DoneRowHasDoneEvent: what is about to be stored is in the
\* stream, and the sweep has seen to the rows that were done before.
Told ==
    /\ \A p \in Procs : At(p, "commit") => disk.done = job[p].ev
    /\ boot \in {"lost", "sweeping", "up"} /\ db.status = "done" => disk.done = db.result

\* The strengthening behind CommittedOutputsIntact: files are damaged while the daemon is
\* down, so what this life has written, renamed or verified is what was declared.
Verified(p) ==
    /\ job[p].pc \in {"a2", "b1", "rename"} => job[p].outs \cap disk.bad = {}
    /\ job[p].pc \in {"rename", "catchup"} =>
          job[p].outs \ job[p].todo \subseteq disk.final \ disk.bad
    /\ job[p].pc \in {"append", "commit"} => job[p].outs \subseteq disk.final \ disk.bad

IntactInv ==
    /\ disk.bad \subseteq disk.final /\ disk.unsynced \subseteq disk.final
    /\ disk.tmp \cap disk.final = {}
    /\ db.intent # None => \A o \in db.intent.outs : InPhaseB(o)
    /\ \A p \in Procs : Verified(p)

-----------------------------------------------------------------------------
(* What all of this implements.                                            *)

RowView == CASE db.status \in {"queued", "running"} -> "live"
             [] db.status = "done" -> "done"
             [] OTHER -> "removed"

Outcome == INSTANCE MissionOutcome WITH told <- seen, row <- RowView, outcome <- db.result

\* Seen through the API, a mission behaves as MissionOutcome promises.
ImplementsOutcome == Outcome!OutcomeSpec

=============================================================================
