----------------------------- MODULE Dispatch ------------------------------
(***************************************************************************)
(* The creation of missions: POST /v1/dispatch (handlers/dispatch.go),     *)
(* POST /v1/exec/dispatch (handlers/exec_dispatch.go) and POST             *)
(* /v1/missions/{id}/restart (handlers/missions_restart.go), with the      *)
(* clients that retry them (lettsclient/retry.go).                         *)
(*                                                                         *)
(* A handler writes the events file first and the row second, under a      *)
(* mutex of the key (handlers/keymutex.go).  Every pool read, file         *)
(* operation and transaction is a step; around them the answer may be lost,*)
(* the daemon may drain, die and start again, an operator may prune the    *)
(* lane, delete the mission or its input, and the disk may fill up.        *)
(***************************************************************************)
EXTENDS Naturals, FiniteSets

CONSTANTS
    MaxTries,      \* stickyRetry's attempts
    MaxFaults,     \* bound: faults
    Environments,  \* [may, reqs, limit, lane]: what may go wrong, what each client asks
                   \* for, max_queue_per_lane, and the lane at the start
    None

AllFaults == {"lose", "dbError", "ioError", "crash", "drain", "quota", "unstage", "prune", "delete"}
Kinds == {"mission", "exec", "restart"}

Codes == {"accepted", "replayed", "trusted", "bad", "conflict", "gone", "unapplied", "removing", "full",
          "draining", "quota", "internal"}

\* What is to be done, in canonical order: for a mission the lane, name, input, timeout and
\* files with their hashes; for an exec the command with its script, inputs, outputs and
\* stdin, and neither the group nor the display name.
MissionFingerprint(q) == <<"mission", q.work>>
ExecFingerprint(q) == <<"exec", q.work>>
Fingerprint(q) == IF q.kind = "exec" THEN ExecFingerprint(q) ELSE MissionFingerprint(q)

\* What the clients with these requests may send, and what may become of it.
RequestsOf(reqs) == (DOMAIN reqs) \X (1 .. MaxTries)
FingerprintsOf(reqs) == {Fingerprint(reqs[c]) : c \in DOMAIN reqs}
RowOf(reqs) == [status : {"queued", "done", "deleting"}, fp : FingerprintsOf(reqs), staged : BOOLEAN]
FileOf(reqs) == [by : RequestsOf(reqs), queued : BOOLEAN]

ASSUME DispatchConstantsOK ==
    /\ MaxTries \in Nat \ {0} /\ MaxFaults \in Nat /\ None \notin Codes
    /\ \A e \in Environments :
          /\ e.may \subseteq AllFaults /\ e.limit \in Nat /\ e.lane \in {"unapplied", "up"}
          /\ \A c \in DOMAIN e.reqs :
                /\ e.reqs[c].kind \in Kinds /\ {e.reqs[c].valid, e.reqs[c].staged} \subseteq BOOLEAN
                /\ e.reqs[c].kind = "restart" => e.reqs[c].from # None
          /\ None \notin RequestsOf(e.reqs) \cup RowOf(e.reqs) \cup FileOf(e.reqs)

VARIABLES
    env,     \* constant: what may happen in this behaviour
    daemon,  \* up, draining, over its disk quota, and the files it failed to remove
    lane,    \* of the applied configuration and of the lane manager
    input,   \* the staging file that requests with an input refer to
    rows,    \* missions, by key
    events,  \* events files, by key
    lock,    \* the two KeyMutexes: by endpoint and key, who holds it
    h,       \* handlers, by client and attempt
    client,  \* the clients
    faults   \* bounded counter

vars == <<env, daemon, lane, input, rows, events, lock, h, client, faults>>

Clients == DOMAIN env.reqs
Req(r) == env.reqs[r[1]]
Keys == {env.reqs[c].key : c \in Clients} \cup ({env.reqs[c].from : c \in Clients} \ {None})
Requests == RequestsOf(env.reqs)
Fingerprints == FingerprintsOf(env.reqs)

Row == RowOf(env.reqs)
File == FileOf(env.reqs)
Handler == [pc : {"none", "sent", "lock", "resolve", "fallback", "lookup", "refs", "ready",
                  "count", "create", "clean", "recreate", "append", "insert", "undo", "reply", "end", "dead"},
            broken : BOOLEAN, code : Codes \cup {None}, fp : Fingerprints \cup {None}, staged : BOOLEAN]
Client == [pc : {"idle", "waiting", "ok", "refused", "gaveup"}, try : 0 .. MaxTries,
           code : Codes \cup {None}, fp : Fingerprints \cup {None}]

Init ==
    /\ env \in Environments
    /\ daemon = [up |-> TRUE, draining |-> FALSE, full |-> FALSE, stuck |-> {}]
    /\ lane = env.lane /\ input = "complete"
    /\ rows = [k \in Keys |-> None] /\ events = [k \in Keys |-> None]
    /\ lock = [p \in {"mission", "exec"} \X Keys |-> None]
    /\ h = [r \in Requests |-> [pc |-> "none", broken |-> FALSE, code |-> None, fp |-> None,
                            staged |-> FALSE]]
    /\ client = [c \in Clients |-> [pc |-> "idle", try |-> 0, code |-> None, fp |-> None]]
    /\ faults = 0

May(f) == f \in env.may
Fault(f) == May(f) /\ faults < MaxFaults /\ faults' = faults + 1

-----------------------------------------------------------------------------
(* stickyRetry.  A restart has no idempotency key and is sent once.        *)

Attempts(c) == IF env.reqs[c].kind = "restart" THEN 1 ELSE MaxTries
Current(c) == <<c, client[c].try>>

Send(c) ==
    /\ client[c].pc = "idle"
    /\ client' = [client EXCEPT ![c].pc = "waiting", ![c].try = @ + 1]
    /\ h' = [h EXCEPT ![<<c, client[c].try + 1>>].pc = IF daemon.up THEN "sent" ELSE "dead"]
    /\ UNCHANGED <<env, daemon, lane, input, rows, events, lock, faults>>

Definitive == {"full", "draining", "quota", "removing", "unapplied"}
ClientErrors == {"bad", "conflict", "gone", "unapplied"}

Retry(c) == [client[c] EXCEPT !.pc = IF client[c].try < Attempts(c) THEN "idle" ELSE "gaveup"]

Judge(c, code, fp) ==
    CASE code \in {"accepted", "replayed", "trusted"} ->
            [client[c] EXCEPT !.pc = "ok", !.code = code, !.fp = fp]
      [] code \in ClientErrors \cup Definitive -> [client[c] EXCEPT !.pc = "refused", !.code = code]
      [] OTHER -> Retry(c)

\* net/http flushes the answer when the handler has returned.
Receive(c) ==
    LET r == Current(c) IN
    /\ client[c].pc = "waiting" /\ h[r].pc = "end" /\ ~h[r].broken
    /\ client' = [client EXCEPT ![c] = Judge(c, h[r].code, h[r].fp)]
    /\ UNCHANGED <<env, daemon, lane, input, rows, events, lock, h, faults>>

\* The connection breaks or times out.  The request may not have been read yet; its
\* handler runs all the same, with a context that is cancelled sooner or later.
NetworkError(c) ==
    LET r == Current(c) IN
    /\ client[c].pc = "waiting" /\ h[r].pc # "none"
    /\ IF h[r].pc = "dead" THEN UNCHANGED faults ELSE Fault("lose")
    /\ h' = [h EXCEPT ![r].broken = TRUE]
    /\ client' = [client EXCEPT ![c] = Retry(c)]
    /\ UNCHANGED <<env, daemon, lane, input, rows, events, lock>>

-----------------------------------------------------------------------------
(* The handlers.                                                           *)

Goto(r, pc) == h' = [h EXCEPT ![r].pc = pc]
Answer(r, pc, code, fp) == h' = [h EXCEPT ![r].pc = pc, ![r].code = code, ![r].fp = fp]
Refuse(r, code) == Answer(r, "reply", code, None)

At(r, pc) == daemon.up /\ h[r].pc = pc

\* The gates come before everything else.
Gate(r, next) ==
    IF daemon.draining THEN Refuse(r, "draining")
    ELSE IF daemon.full THEN Refuse(r, "quota")
    ELSE next

\* The key, the body and the names are checked.
BeginMission(r) ==
    /\ At(r, "sent") /\ Req(r).kind = "mission"
    /\ Gate(r, IF Req(r).valid THEN Goto(r, "lock") ELSE Refuse(r, "bad"))
    /\ UNCHANGED <<env, daemon, lane, input, rows, events, lock, client, faults>>

\* The names, the roles and their number, the shell guard, stdin, the labels and the timeout.
ValidExec(r) == Req(r).valid

BeginExec(r) ==
    /\ At(r, "sent") /\ Req(r).kind = "exec"
    /\ Gate(r, IF ValidExec(r) THEN Goto(r, "resolve") ELSE Refuse(r, "bad"))
    /\ UNCHANGED <<env, daemon, lane, input, rows, events, lock, client, faults>>

Mutex(r) == <<Req(r).kind, Req(r).key>>

\* KeyMutex.Lock.  Each endpoint has a KeyMutex of its own (main.go).  A mission takes it
\* before it resolves its inputs, an exec after.
Lock(r) ==
    /\ At(r, "lock") /\ lock[Mutex(r)] = None
    /\ lock' = [lock EXCEPT ![Mutex(r)] = r]
    /\ Goto(r, IF Req(r).kind = "mission" THEN "resolve" ELSE "lookup")
    /\ UNCHANGED <<env, daemon, lane, input, rows, events, client, faults>>

\* A query fails, or its context is cancelled because the client has gone.
QueryFails(r) == IF h[r].broken THEN UNCHANGED faults ELSE Fault("dbError")

Missing(r) == Req(r).staged /\ input # "complete"

\* Mutant: a mission whose input is gone is refused like an exec.
ResolveMissionOrRefuse(r) ==
    /\ At(r, "resolve") /\ Req(r).kind = "mission"
    /\ IF Missing(r) THEN Refuse(r, "bad") ELSE Goto(r, "lookup")
    /\ UNCHANGED <<env, daemon, lane, input, rows, events, lock, client, faults>>

\* resolveStagingMetadata.  A query that fails is taken for a file that is gone.
ResolveMission(r) ==
    /\ At(r, "resolve") /\ Req(r).kind = "mission"
    /\ \/ Goto(r, IF Missing(r) THEN "fallback" ELSE "lookup") /\ UNCHANGED faults
       \/ Req(r).staged /\ QueryFails(r) /\ Goto(r, "fallback")
    /\ UNCHANGED <<env, daemon, lane, input, rows, events, lock, client>>

\* fetchStagingMeta, before the mutex.
ResolveExec(r) ==
    /\ At(r, "resolve") /\ Req(r).kind = "exec"
    /\ IF Missing(r) THEN Refuse(r, "bad") ELSE Goto(r, "lock")
    /\ UNCHANGED <<env, daemon, lane, input, rows, events, lock, client, faults>>

\* An input that is gone leaves no fingerprint to compare: the stored row is trusted.
Fallback(r) ==
    LET row == rows[Req(r).key] IN
    /\ At(r, "fallback")
    /\ IF row = None THEN Refuse(r, "bad")
       ELSE IF row.status = "deleting" THEN Refuse(r, "gone")
       ELSE Answer(r, "reply", "trusted", row.fp)
    /\ UNCHANGED <<env, daemon, lane, input, rows, events, lock, client, faults>>

\* Mutant: the key alone decides, whatever was asked for before.
ReplayAnyFingerprint(r, row) ==
    IF row.status = "deleting" THEN Refuse(r, "gone") ELSE Answer(r, "reply", "replayed", row.fp)

Replay(r, row) ==
    IF row.fp # Fingerprint(Req(r)) THEN Refuse(r, "conflict")
    ELSE IF row.status = "deleting" THEN Refuse(r, "gone")
    ELSE Answer(r, "reply", "replayed", row.fp)

\* The idempotency replay comes before the checks that the passing of time may change.
Lookup(r) ==
    LET row == rows[Req(r).key] IN
    /\ At(r, "lookup")
    /\ IF row = None THEN Goto(r, "ready") ELSE Replay(r, row)
    /\ UNCHANGED <<env, daemon, lane, input, rows, events, lock, client, faults>>

\* Applied configuration and lane.
Ready(r) ==
    /\ At(r, "ready")
    /\ CASE lane = "unapplied" -> Refuse(r, "unapplied")
         [] lane = "gone" -> Refuse(r, "bad")
         [] lane = "removing" -> Refuse(r, "removing")
         [] OTHER -> Goto(r, IF Req(r).kind = "mission" THEN "count" ELSE "create")
    /\ UNCHANGED <<env, daemon, lane, input, rows, events, lock, client, faults>>

Queued == {k \in Keys : rows[k] # None /\ rows[k].status = "queued"}

\* The soft limit on the queue, outside the transaction; execs have none.  A query that
\* fails counts nothing.
Count(r) ==
    /\ At(r, "count")
    /\ \/ /\ IF Cardinality(Queued) >= env.limit THEN Refuse(r, "full") ELSE Goto(r, "create")
          /\ UNCHANGED faults
       \/ QueryFails(r) /\ Goto(r, "create")
    /\ UNCHANGED <<env, daemon, lane, input, rows, events, lock, client>>

\* restartOne: the source is done, its lane is configured, its inputs are there.  No gate.
Source(r) ==
    LET row == rows[Req(r).from] IN
    /\ At(r, "sent") /\ Req(r).kind = "restart"
    /\ IF row = None \/ lane = "gone" THEN Refuse(r, "bad")
       ELSE IF row.status # "done" THEN Refuse(r, "conflict")
       ELSE Answer(r, "refs", None, row.fp)
    /\ UNCHANGED <<env, daemon, lane, input, rows, events, lock, client, faults>>

\* The row of the source may be gone by now; its references then are, too.
Refs(r) ==
    LET staged == rows[Req(r).from] # None /\ rows[Req(r).from].staged IN
    /\ At(r, "refs")
    /\ IF staged /\ input # "complete" THEN Refuse(r, "conflict")
       ELSE h' = [h EXCEPT ![r].pc = "create", ![r].staged = staged]
    /\ UNCHANGED <<env, daemon, lane, input, rows, events, lock, client, faults>>

\* eventfile.Create is exclusive.
Create(r) ==
    /\ At(r, "create")
    /\ \/ /\ events[Req(r).key] = None
          /\ events' = [events EXCEPT ![Req(r).key] = [by |-> r, queued |-> FALSE]]
          /\ Goto(r, "append") /\ UNCHANGED faults
       \/ /\ events[Req(r).key] # None
          /\ IF Req(r).kind = "restart" THEN Refuse(r, "internal") ELSE Goto(r, "clean")
          /\ UNCHANGED <<events, faults>>
       \/ Fault("ioError") /\ Refuse(r, "internal") /\ UNCHANGED events
    /\ UNCHANGED <<env, daemon, lane, input, rows, lock, client>>

\* cleanupOrphanMissionFiles: whatever has the name is taken for the remains of a crash.
CleanOrphan(r) ==
    /\ At(r, "clean")
    /\ events' = [events EXCEPT ![Req(r).key] = None] /\ Goto(r, "recreate")
    /\ daemon' = [daemon EXCEPT !.stuck = @ \ {Req(r).key}]
    /\ UNCHANGED <<env, lane, input, rows, lock, client, faults>>

Recreate(r) ==
    /\ At(r, "recreate")
    /\ IF events[Req(r).key] = None
       THEN events' = [events EXCEPT ![Req(r).key] = [by |-> r, queued |-> FALSE]] /\ Goto(r, "append")
       ELSE Refuse(r, "internal") /\ UNCHANGED events
    /\ UNCHANGED <<env, daemon, lane, input, rows, lock, client, faults>>

Mine(r) == events[Req(r).key] # None /\ events[Req(r).key].by = r

\* Mutant: a failed append leaves the file behind.
AppendQueuedLeaves(r) ==
    /\ At(r, "append")
    /\ \/ /\ events' = IF Mine(r) THEN [events EXCEPT ![Req(r).key].queued = TRUE] ELSE events
          /\ Goto(r, "insert") /\ UNCHANGED faults
       \/ Fault("ioError") /\ Refuse(r, "internal") /\ UNCHANGED events
    /\ UNCHANGED <<env, daemon, lane, input, rows, lock, client>>

\* The queued event goes to the inode this handler opened, by whatever name it is known;
\* the removal after a failure goes by the name.
AppendQueued(r) ==
    /\ At(r, "append")
    /\ \/ /\ events' = IF Mine(r) THEN [events EXCEPT ![Req(r).key].queued = TRUE] ELSE events
          /\ Goto(r, "insert") /\ UNCHANGED faults
       \/ /\ Fault("ioError") /\ Refuse(r, "internal")
          /\ events' = [events EXCEPT ![Req(r).key] = None]
    /\ UNCHANGED <<env, daemon, lane, input, rows, lock, client>>

\* The row that r would insert: a restart copies its source, as it has read it.
NewRow(r) ==
    IF Req(r).kind = "restart" THEN [status |-> "queued", fp |-> h[r].fp, staged |-> h[r].staged]
    ELSE [status |-> "queued", fp |-> Fingerprint(Req(r)), staged |-> Req(r).staged]

\* The mission_runtime of the source is copied, too; an exec has none.
SourceGone(r) == Req(r).kind = "restart" /\ h[r].fp[1] = "mission" /\ rows[Req(r).from] = None

\* The writer transaction.  It looks for the row, the lane (missions only) and the inputs
\* again, and a runner is notified when it has committed.
Insert(r) ==
    /\ At(r, "insert")
    /\ IF rows[Req(r).key] # None \/ SourceGone(r) THEN Answer(r, "undo", "internal", None) /\ UNCHANGED rows
       ELSE IF Req(r).kind = "mission" /\ lane = "removing"
       THEN Answer(r, "undo", "removing", None) /\ UNCHANGED rows
       ELSE IF NewRow(r).staged /\ input # "complete"
       THEN Answer(r, "undo", IF Req(r).kind = "restart" THEN "conflict" ELSE "bad", None) /\ UNCHANGED rows
       ELSE /\ rows' = [rows EXCEPT ![Req(r).key] = NewRow(r)]
            /\ Answer(r, "reply", "accepted", NewRow(r).fp)
    /\ UNCHANGED <<env, daemon, lane, input, events, lock, client, faults>>

\* A query for an input that fails is taken for an input that is gone: by a dispatch in its
\* transaction (400), by a restart wherever it asks (409).
TakenForGone(r) ==
    CASE Req(r).kind = "restart" /\ (h[r].pc = "refs" \/ h[r].staged) -> {"conflict"}
      [] Req(r).kind # "restart" /\ h[r].pc = "insert" /\ Req(r).staged -> {"bad"}
      [] OTHER -> {}

\* Any other query that fails is answered 500, the count of the soft limit excepted.
DbFails(r) ==
    /\ daemon.up /\ QueryFails(r)
    /\ \/ h[r].pc \in {"fallback", "lookup", "refs", "insert"}
       \/ h[r].pc = "resolve" /\ Req(r).kind = "exec" /\ Req(r).staged
       \/ h[r].pc = "sent" /\ Req(r).kind = "restart"
    /\ \E code \in {"internal"} \cup TakenForGone(r) :
          Answer(r, IF h[r].pc = "insert" THEN "undo" ELSE "reply", code, None)
    /\ UNCHANGED <<env, daemon, lane, input, rows, events, lock, client>>

\* A failed transaction removes the events file, by its name; an error is ignored.
Undo(r) ==
    /\ At(r, "undo") /\ Goto(r, "reply")
    /\ \/ events' = [events EXCEPT ![Req(r).key] = None] /\ UNCHANGED <<daemon, faults>>
       \/ /\ Fault("ioError") /\ UNCHANGED events
          /\ daemon' = [daemon EXCEPT !.stuck = @ \cup {Req(r).key}]
    /\ UNCHANGED <<env, lane, input, rows, lock, client>>

Unlocked(r) == [p \in DOMAIN lock |-> IF lock[p] = r THEN None ELSE lock[p]]

\* Mutant: only a handler that creates the mission gives the mutex back.
ReplyKeepingLock(r) ==
    /\ At(r, "reply") /\ Goto(r, "end")
    /\ lock' = IF h[r].code = "accepted" THEN Unlocked(r) ELSE lock
    /\ UNCHANGED <<env, daemon, lane, input, rows, events, client, faults>>

\* The handler returns: the deferred unlock runs, then the answer leaves.
Reply(r) ==
    /\ At(r, "reply") /\ Goto(r, "end")
    /\ lock' = Unlocked(r)
    /\ UNCHANGED <<env, daemon, lane, input, rows, events, client, faults>>

Handle(r) ==
    \/ BeginMission(r) \/ BeginExec(r) \/ Lock(r) \/ ResolveMission(r) \/ ResolveExec(r)
    \/ Fallback(r) \/ Lookup(r) \/ Ready(r) \/ Count(r) \/ Source(r) \/ Refs(r) \/ Create(r) \/ CleanOrphan(r)
    \/ Recreate(r) \/ AppendQueued(r) \/ Insert(r) \/ DbFails(r) \/ Undo(r) \/ Reply(r)

-----------------------------------------------------------------------------
(* The rest of the daemon, as the handlers meet it.                        *)

\* A lane runner takes the mission to its end.
Run(k) ==
    /\ daemon.up /\ ~daemon.draining /\ lane = "up" /\ k \in Queued
    /\ rows' = [rows EXCEPT ![k].status = "done"]
    /\ UNCHANGED <<env, daemon, lane, input, events, lock, h, client, faults>>

\* DELETE /v1/missions/{id} of a queued or a done mission; then the cleaner removes the
\* files, then the row.
DeleteMission(k) ==
    /\ daemon.up /\ rows[k] # None /\ rows[k].status \in {"queued", "done"} /\ Fault("delete")
    /\ rows' = [rows EXCEPT ![k].status = "deleting"]
    /\ UNCHANGED <<env, daemon, lane, input, events, lock, h, client>>

Purge(k) ==
    /\ daemon.up /\ rows[k] # None /\ rows[k].status = "deleting"
    /\ IF events[k] # None THEN events' = [events EXCEPT ![k] = None] /\ UNCHANGED rows
       ELSE rows' = [rows EXCEPT ![k] = None] /\ UNCHANGED events
    /\ UNCHANGED <<env, daemon, lane, input, lock, h, client, faults>>

\* A staging file no live mission refers to is deleted or expires.
Unstage ==
    /\ daemon.up /\ input = "complete" /\ Fault("unstage")
    /\ \A k \in Queued : ~rows[k].staged
    /\ input' = "gone"
    /\ UNCHANGED <<env, daemon, lane, rows, events, lock, h, client>>

\* The first apply; a forced prune, which removes the lane or is rolled back.
ChangeLane ==
    /\ daemon.up
    /\ \/ lane = "unapplied" /\ lane' = "up" /\ UNCHANGED faults
       \/ lane = "up" /\ Fault("prune") /\ lane' = "removing"
       \/ lane = "removing" /\ lane' \in {"up", "gone"} /\ UNCHANGED faults
    /\ UNCHANGED <<env, daemon, input, rows, events, lock, h, client>>

Drain ==
    /\ daemon.up /\ ~daemon.draining /\ Fault("drain")
    /\ daemon' = [daemon EXCEPT !.draining = TRUE]
    /\ UNCHANGED <<env, lane, input, rows, events, lock, h, client>>

\* The sampled size of the data directory crosses the quota, and falls again.
Usage ==
    /\ daemon.up /\ (IF daemon.full THEN UNCHANGED faults ELSE Fault("quota"))
    /\ daemon' = [daemon EXCEPT !.full = ~@]
    /\ UNCHANGED <<env, lane, input, rows, events, lock, h, client>>

\* The process dies, or ends after a drain.
Crash ==
    /\ daemon.up /\ (IF daemon.draining THEN UNCHANGED faults ELSE Fault("crash"))
    /\ daemon' = [daemon EXCEPT !.up = FALSE, !.draining = FALSE, !.full = FALSE]
    /\ lock' = [p \in DOMAIN lock |-> None]
    /\ h' = [r \in Requests |-> IF h[r].pc \in {"none", "end"} THEN h[r] ELSE [h[r] EXCEPT !.pc = "dead"]]
    /\ UNCHANGED <<env, lane, input, rows, events, client>>

\* SweepOrphans removes the files of missions that have no row, and goes on when it cannot.
Start ==
    LET orphans == {k \in Keys : rows[k] = None /\ events[k] # None} IN
    /\ ~daemon.up
    /\ \/ /\ events' = [k \in Keys |-> IF k \in orphans THEN None ELSE events[k]]
          /\ daemon' = [daemon EXCEPT !.up = TRUE, !.stuck = {}] /\ UNCHANGED faults
       \/ /\ orphans # {} /\ Fault("ioError") /\ UNCHANGED events
          /\ daemon' = [daemon EXCEPT !.up = TRUE, !.stuck = orphans]
    /\ UNCHANGED <<env, lane, input, rows, lock, h, client>>

Step ==
    \/ \E c \in Clients : Send(c) \/ Receive(c) \/ NetworkError(c)
    \/ \E r \in Requests : Handle(r)
    \/ \E k \in Keys : Run(k) \/ DeleteMission(k) \/ Purge(k)
    \/ Unstage \/ ChangeLane \/ Drain \/ Usage \/ Crash \/ Start

Next == UNCHANGED env /\ Step

Spec == Init /\ [][Next]_vars

\* Goroutines run and the daemon is started again; nothing else is fair.
Fairness ==
    /\ WF_vars(UNCHANGED env /\ \E c \in Clients : Send(c) \/ Receive(c))
    /\ WF_vars(UNCHANGED env /\ \E c \in Clients : client[c].pc = "waiting" /\ h[Current(c)].pc = "dead" /\ NetworkError(c))
    /\ WF_vars(UNCHANGED env /\ \E r \in Requests : Handle(r))
    /\ WF_vars(UNCHANGED env /\ Start)

FairSpec == Spec /\ Fairness

-----------------------------------------------------------------------------
(* Properties.                                                             *)

\* Every variable holds a value of its type.
TypeOK ==
    /\ env \in Environments /\ daemon \in [up : BOOLEAN, draining : BOOLEAN, full : BOOLEAN, stuck : SUBSET Keys]
    /\ lane \in {"unapplied", "up", "removing", "gone"} /\ input \in {"complete", "gone"}
    /\ rows \in [Keys -> Row \cup {None}] /\ events \in [Keys -> File \cup {None}]
    /\ lock \in [{"mission", "exec"} \X Keys -> Requests \cup {None}]
    /\ h \in [Requests -> Handler] /\ client \in [Clients -> Client]
    /\ faults \in 0 .. MaxFaults

Creating == {"create", "clean", "recreate", "append", "insert", "undo"}

\* A mission that is not being deleted has an events file that begins with its queued
\* event, whatever retries, duplicates, failures and restarts have met: the file is written
\* first, and no later handler of the same key removes it (dispatch.go:347).
StreamBehindRow ==
    \A k \in Keys : rows[k] # None /\ rows[k].status # "deleting" => events[k] # None /\ events[k].queued

\* Once the daemon is up and no handler works on a key, an events file without a row does
\* not exist: every failure after the creation removes it, and a start sweeps what a crash
\* has left (dispatch.go:492, repair/orphans.go), unless the removal itself fails.
NoOrphanFile ==
    \A k \in Keys :
        daemon.up /\ events[k] # None /\ rows[k] = None /\ k \notin daemon.stuck
        => \E r \in Requests : Req(r).key = k /\ h[r].pc \in Creating

\* A queued mission finds its input: a file that is deleted between the resolution and the
\* transaction makes the transaction fail (dispatch.go:425, missions_restart.go:174).
QueuedHasInput == \A k \in Queued : rows[k].staged => input = "complete"

\* Nobody is served by a daemon that is down, and an attempt that was not made has no
\* handler; a restart is attempted once.
Attempted ==
    /\ ~daemon.up => \A r \in Requests : h[r].pc \in {"none", "end", "dead"}
    /\ \A c \in Clients :
          /\ client[c].try <= Attempts(c)
          /\ client[c].pc = "idle" => client[c].try < Attempts(c)
          /\ client[c].pc = "waiting" => client[c].try >= 1
          /\ \A t \in 1 .. MaxTries : t > client[c].try => h[<<c, t>>].pc = "none"

CalledBad(r) == Req(r).kind = "mission" /\ Req(r).valid /\ h[r].pc = "reply" /\ h[r].code = "bad"

\* r has found that its key has no row, and inserts one next if anybody does.
Makes(r) ==
    \/ h[r].pc \in {"ready", "count"} \cup Creating \/ CalledBad(r)
    \/ Req(r).kind = "restart" /\ h[r].pc \in {"sent", "refs"}

Holds(r) ==
    /\ Req(r).kind # "restart"
    /\ \/ Makes(r) \/ h[r].pc \in {"fallback", "lookup"}
       \/ h[r].pc = "resolve" /\ Req(r).kind = "mission"

\* A restart goes its own way, with the fingerprint of its source.
OnItsWay(r) ==
    IF Req(r).kind # "restart" THEN h[r].pc # "refs"
    ELSE /\ h[r].pc \in {"none", "sent", "refs", "create", "append", "insert", "undo", "reply", "end", "dead"}
         /\ h[r].pc \in {"refs", "create", "append", "insert"} => h[r].fp \in Fingerprints

\* The events file of the key is the work of the handler that creates the mission, or what
\* nobody could remove.
FileInHand(r) ==
    LET k == Req(r).key IN
    /\ h[r].pc \in {"append", "insert"} => Mine(r)
    /\ h[r].pc = "insert" => events[k].queued
    /\ h[r].pc = "recreate" => events[k] = None
    /\ h[r].pc \in {"sent", "refs", "create"} /\ Req(r).kind = "restart" => events[k] = None
    /\ h[r].pc = "create" /\ events[k] # None => k \in daemon.stuck

\* The mutex of a key is with the handler that may create its mission, from before it has
\* found that there is none; until it has created it there is none; and an answer that
\* names a mission by its fingerprint names the one that was asked for.
HandlerOK(r) ==
    /\ OnItsWay(r) /\ FileInHand(r)
    /\ Holds(r) => lock[Mutex(r)] = r
    /\ Makes(r) => rows[Req(r).key] = None
    /\ Req(r).kind # "restart" /\ h[r].code \in {"accepted", "replayed"} => h[r].fp = Fingerprint(Req(r))

\* The id of a restart is new.
FreshIds ==
    \A c \in Clients : env.reqs[c].kind = "restart" /\ client[c].try = 0
                       => rows[env.reqs[c].key] = None /\ events[env.reqs[c].key] = None

\* Rows, events files and inputs belong together, at every step of every handler.
DispatchInv == TypeOK /\ StreamBehindRow /\ NoOrphanFile /\ QueuedHasInput

\* The inductive invariant behind it, and behind the two promises below.
DispatchIInv == DispatchInv /\ Attempted /\ FreshIds /\ \A r \in Requests : HandlerOK(r)

\* The two endpoints have a mutex each, so no key is used at both of them; and the id of
\* a restart, which the daemon draws, is used by nobody else.
KeysApart ==
    \A e \in Environments : \A c, d \in DOMAIN e.reqs :
        c # d /\ e.reqs[c].key = e.reqs[d].key
        => e.reqs[c].kind = e.reqs[d].kind /\ e.reqs[c].kind # "restart"

\* A client that is told of a mission by its key and fingerprint is told of the one it
\* asked for, whoever else used the key, and however its attempts were answered or lost
\* (dispatch.go:246, exec_dispatch.go:367).
AnswerIsOurs ==
    \A c \in Clients :
        LET q == env.reqs[c] IN
        client[c].pc = "ok" /\ client[c].code # "trusted" /\ q.kind # "restart"
        => client[c].fp = Fingerprint(q)

\* A well-formed mission request is called bad (input expired, lane removed) only while there is no
\* mission of its key, even if an earlier attempt was served and its answer lost: a retry
\* finds the row before anything that has changed since can refuse it (dispatch.go:191).  Of
\* execs this does not hold, see the README.
BadMeansNoMission ==
    \A r \in Requests : CalledBad(r) => rows[Req(r).key] = None

\* Every client comes to an end: no early return keeps the mutex of the key, and no handler
\* waits for another that waits for it.
ClientsEnd == <>(\A c \in Clients : client[c].pc \in {"ok", "refused", "gaveup"})

\* What dispatch.go:195 says of the fallback: whoever is told of a row without a comparison
\* of fingerprints asked for the same, or could not have been served as its input is gone.
TrustedIsUndispatchable ==
    \A c \in Clients :
        client[c].code = "trusted" => client[c].fp = Fingerprint(env.reqs[c]) \/ input = "gone"

\* What retry.go:44 says of the definitive codes: the mission was not created.  (Stated of
\* a client that is alone with its key.)
RefusedMeansNotCreated ==
    \A c \in Clients :
        client[c].pc = "refused" /\ client[c].code \in Definitive => rows[env.reqs[c].key] = None
=============================================================================
