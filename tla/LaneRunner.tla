----------------------------- MODULE LaneRunner -----------------------------
(***************************************************************************)
(* One lane: its pickup loop, the manager that starts, resizes, pauses and *)
(* stops runners, the kill channels of the missions it runs, force-prune,  *)
(* and the two-stage graceful shutdown.  A lane that is removed and added  *)
(* again gets a new Runner; runners are numbered by generation.            *)
(***************************************************************************)
EXTENDS Naturals, FiniteSets

CONSTANTS
    Missions,      \* numbers: the order of (time_created, mission_id)
    Limits,        \* the concurrency limits an operator may ask for
    MaxAdmin,      \* bound: administrative requests
    Environments,  \* what may happen around the lane: a behaviour has one of these
    None

\* missions: those that exist; restarts, execs: created by a restart, an exec dispatch
\* (the others by a dispatch); backlog: queued when the daemon starts; timeouts: with
\* a timeout; killable: a kill request may arrive; pauses: the persisted pause states
\* at the start; ops, requests: which and how many administrative requests; faults,
\* errors: which transactions may fail, how often; signals: how many SIGTERMs;
\* timers: whether the 30s fallbacks are sure to fire.
Environment ==
    [missions : SUBSET Missions, restarts : SUBSET Missions, execs : SUBSET Missions,
     backlog : SUBSET Missions, timeouts : SUBSET Missions, killable : SUBSET Missions,
     limits : SUBSET Limits, pauses : SUBSET {"none", "yaml", "ctl", "legacy"},
     ops : SUBSET {"apply", "applyPaused", "overlay", "prune", "forcePrune", "pause", "continue"},
     requests : 0 .. MaxAdmin,
     faults : SUBSET {"pickError", "insertError", "finalizeError", "pruneError", "persistError"},
     errors : Nat, signals : 0 .. 2, timers : BOOLEAN]

ASSUME LaneConstantsOK ==
    /\ Missions \subseteq Nat \ {0} /\ Limits \subseteq Nat \ {0} /\ MaxAdmin \in Nat
    /\ Environments \subseteq Environment

VARIABLES
    env,      \* the environment; constant
    row,      \* missions table: status, and why it ended
    run,      \* mission.Run: program counter and locals of the goroutine
    kch,      \* Runtime.killChs
    runner,   \* the Runner structs and the locals of their loops
    lane,     \* applied config, Manager.runners, its mutex, the SQLite writer lock
    request,  \* dispatch or restart request of each mission
    api,      \* kill request of each mission: what its handler read
    admin,    \* the apply, pause or continue handler (one at a time: applyMu)
    coord,    \* shutdown.Coordinator
    errors    \* failed transactions so far

vars == <<env, row, run, kch, runner, lane, request, api, admin, coord, errors>>

\* The runners that may ever be started: one at the start and one by each apply.
Gens == 1 .. MaxAdmin + 1

KillReasons == {"timeout", "lane_removed", "dugdale_shutdown", "killed_by_api"}
Ends == KillReasons \cup {"natural", "crashed"}

Row == [status : {"none", "queued", "running", "done"}, why : Ends \cup {None}]
Run == [pc : {"none", "start", "exec", "finalize", "release", "unregister", "gone"},
        by : {0} \cup Gens, kill : KillReasons \cup {None}, out : Ends \cup {None},
        listens : BOOLEAN]
Runner == [pc : {"off", "top", "pick", "picked", "toWake", "wake", "toAvail",
                "avail", "acked", "exit"},
           job : {0} \cup Missions, paused : BOOLEAN, limit : {0} \cup Limits,
           gate : {0} \cup Limits, removing : BOOLEAN, acked : BOOLEAN, notify : BOOLEAN,
           avail : BOOLEAN, cancelled : BOOLEAN, inflight : Nat]
Lane == [applied : BOOLEAN, limit : Limits, pause : {"none", "yaml", "ctl", "legacy"},
         managed : {0} \cup Gens, used : {0} \cup Gens, mu : BOOLEAN, writer : {0} \cup Missions]
Admin == [pc : {"idle", "reconcile", "pause", "ack", "list", "killQueued", "persist", "remove",
                "stop", "stopLanes", "stopWait", "persistPause", "persistContinue"},
          force : BOOLEAN, fresh : BOOLEAN, gen : {0} \cup Gens, todo : SUBSET Missions,
          ops : 0 .. MaxAdmin]
Coord == [pc : {"boot", "idle", "pause", "drain", "stopAll", "stopping", "done", "exited"},
          phase : {"running", "draining", "aggressive", "done"}, gen : {0} \cup Gens,
          signals : 0 .. 2]

NoRun == [pc |-> "none", by |-> 0, kill |-> None, out |-> None, listens |-> FALSE]
Off == [pc |-> "off", job |-> 0, paused |-> FALSE, limit |-> 0, gate |-> 0,
        removing |-> FALSE, acked |-> FALSE, notify |-> FALSE, avail |-> FALSE,
        cancelled |-> FALSE, inflight |-> 0]

\* A started runner: Start makes the channels and launches the loop.
Started(limit) == [Off EXCEPT !.pc = "top", !.limit = limit]

\* The daemon starts: repair is over, ReplayFromDB is about to hand the persisted
\* configuration to Manager.Apply.  lane.pause is Paused with PausedBy; "legacy" is
\* a pause without provenance.
Init ==
    /\ env \in Environments
    /\ row = [m \in Missions |-> [status |-> IF m \in env.backlog THEN "queued" ELSE "none",
                                  why |-> None]]
    /\ run = [m \in Missions |-> NoRun]
    /\ kch = [m \in Missions |-> "unregistered"]
    /\ runner = [g \in Gens |-> Off]
    /\ \E n \in env.limits, p \in env.pauses :
         lane = [applied |-> TRUE, limit |-> n, pause |-> p, managed |-> 0, used |-> 0,
                 mu |-> FALSE, writer |-> 0]
    /\ request = [m \in Missions |-> IF m \in env.backlog THEN "answered" ELSE "idle"]
    /\ api = [m \in Missions |-> "idle"]
    /\ admin = [pc |-> "reconcile", force |-> FALSE, fresh |-> FALSE, gen |-> 0, todo |-> {},
                ops |-> 0]
    /\ coord = [pc |-> "boot", phase |-> "running", gen |-> 0, signals |-> 0]
    /\ errors = 0

WithStatus(s) == {m \in Missions : row[m].status = s}
Ended(m, why) == [row EXCEPT ![m] = [status |-> "done", why |-> why]]
Managed == lane.managed # 0
Serving == coord.pc # "boot"
IsLaneRemoving == Managed /\ runner[lane.managed].removing
Cancelled(m) == runner[run[m].by].cancelled

\* SignalKill on each mission of S: a non-blocking send into a buffer of one.
Signalled(S, reason) ==
    [m \in Missions |-> IF m \in S /\ kch[m] = "empty" THEN reason ELSE kch[m]]

-----------------------------------------------------------------------------
(* Runner.loop.                                                            *)

\* The checks at the head of the loop, up to the concurrency gate.
LoopTop(g) ==
    LET r == runner[g]
        Becomes(q) == runner' = [runner EXCEPT ![g] = q] IN
    /\ r.pc = "top"
    /\ \/ r.cancelled /\ Becomes([r EXCEPT !.pc = "exit"])
       \/ ~r.cancelled /\ r.removing /\ Becomes([r EXCEPT !.pc = "acked", !.acked = TRUE])
       \/ /\ ~r.cancelled /\ ~r.removing
          /\ \/ r.paused /\ Becomes([r EXCEPT !.pc = "toWake"])
             \/ ~r.paused /\ r.inflight >= r.limit /\ Becomes([r EXCEPT !.pc = "toAvail"])
             \/ ~r.paused /\ r.inflight < r.limit /\ Becomes([r EXCEPT !.pc = "pick", !.gate = r.limit])
    /\ UNCHANGED <<row, run, kch, lane, request, api, admin, coord, errors>>

\* The loop has decided to wait and now really does: a signal sent in between stays
\* in the channel.
WaitBegins(g) ==
    /\ \/ runner[g].pc = "toWake" /\ runner' = [runner EXCEPT ![g].pc = "wake"]
       \/ runner[g].pc = "toAvail" /\ runner' = [runner EXCEPT ![g].pc = "avail"]
    /\ UNCHANGED <<row, run, kch, lane, request, api, admin, coord, errors>>

\* waitForWake, waitForAvail, and the wait of a loop that has acknowledged removal,
\* end by a signal.
WaitEnds(g) ==
    LET r == runner[g] IN
    /\ \/ r.pc = "wake" /\ r.notify /\ runner' = [runner EXCEPT ![g] = [@ EXCEPT !.pc = "top", !.notify = FALSE]]
       \/ r.pc = "avail" /\ r.avail /\ runner' = [runner EXCEPT ![g] = [@ EXCEPT !.pc = "top", !.avail = FALSE]]
       \/ r.pc \in {"wake", "avail"} /\ r.cancelled /\ runner' = [runner EXCEPT ![g].pc = "top"]
       \/ r.pc = "acked" /\ r.cancelled /\ runner' = [runner EXCEPT ![g].pc = "exit"]
    /\ UNCHANGED <<row, run, kch, lane, request, api, admin, coord, errors>>

\* The 30s fallback of the two waits.
WaitTimesOut(g) ==
    /\ runner[g].pc \in {"wake", "avail"}
    /\ runner' = [runner EXCEPT ![g].pc = "top"]
    /\ UNCHANGED <<row, run, kch, lane, request, api, admin, coord, errors>>

\* One transaction picks the oldest queued row and marks it running.  On a
\* cancelled context it fails.
Pick(g) ==
    /\ runner[g].pc = "pick" /\ lane.writer = 0
    /\ \/ /\ runner[g].cancelled \/ WithStatus("queued") = {}
          /\ runner' = [runner EXCEPT ![g].pc = "toWake"]
          /\ UNCHANGED row
       \/ /\ ~runner[g].cancelled
          /\ \E m \in WithStatus("queued") :
               /\ \A k \in WithStatus("queued") : m <= k
               /\ row' = [row EXCEPT ![m].status = "running"]
               /\ runner' = [runner EXCEPT ![g] = [@ EXCEPT !.pc = "picked", !.job = m]]
    /\ UNCHANGED <<run, kch, lane, request, api, admin, coord, errors>>

\* Mutant: no busy_timeout.
PickNeverBusy(g) == FALSE /\ runner[g].pc = "pick"

\* Another transaction keeps the writer lock longer than busy_timeout.
PickBusy(g) ==
    /\ runner[g].pc = "pick" /\ lane.writer # 0
    /\ runner' = [runner EXCEPT ![g].pc = "toWake"]
    /\ UNCHANGED <<row, run, kch, lane, request, api, admin, coord, errors>>

PickFails(g) ==
    /\ "pickError" \in env.faults /\ errors < env.errors /\ errors' = errors + 1
    /\ runner[g].pc = "pick"
    /\ runner' = [runner EXCEPT ![g].pc = "toWake"]
    /\ UNCHANGED <<row, run, kch, lane, request, api, admin, coord>>

\* The picked mission is counted, its kill channel registered (PreSpawn) and its
\* goroutine launched.
Register(g) ==
    LET r == runner[g]
        m == r.job IN
    /\ r.pc = "picked"
    /\ runner' = [runner EXCEPT ![g] = [r EXCEPT !.pc = "top", !.job = 0, !.inflight = r.inflight + 1]]
    /\ kch' = [kch EXCEPT ![m] = IF @ = "unregistered" THEN "empty" ELSE @]
    /\ run' = [run EXCEPT ![m] = [NoRun EXCEPT !.pc = "start", !.by = g]]
    /\ UNCHANGED <<row, lane, request, api, admin, coord, errors>>

-----------------------------------------------------------------------------
(* mission.Run inside Runtime.spawn.                                       *)

\* Mutant: spawn makes a new channel instead of using the registered one.
StartFreshChannel(m) ==
    /\ run[m].pc = "start"
    /\ run' = [run EXCEPT ![m] = [@ EXCEPT !.pc = "exec", !.listens = TRUE]]
    /\ kch' = [kch EXCEPT ![m] = "empty"]
    /\ UNCHANGED <<row, runner, lane, request, api, admin, coord, errors>>

\* Reads of runtime and inputs under the lane's context, preparations, and the start
\* of the process; any of it may fail and ends the mission as crashed.
Start(m) ==
    /\ run[m].pc = "start"
    /\ \/ run' = [run EXCEPT ![m] = [@ EXCEPT !.pc = "finalize", !.out = "crashed"]]
       \/ ~Cancelled(m) /\ run' = [run EXCEPT ![m] = [@ EXCEPT !.pc = "exec", !.listens = TRUE]]
    /\ UNCHANGED <<row, kch, runner, lane, request, api, admin, coord, errors>>

\* killProcess: the first reason wins.
KillProcess(m, reason) == [run EXCEPT ![m].kill = IF @ = None THEN reason ELSE @]

\* The goroutine on the kill channel; it receives once.
WatchKillCh(m) ==
    /\ run[m].pc = "exec" /\ run[m].listens /\ kch[m] \in KillReasons
    /\ run' = [KillProcess(m, kch[m]) EXCEPT ![m].listens = FALSE]
    /\ kch' = [kch EXCEPT ![m] = "empty"]
    /\ UNCHANGED <<row, runner, lane, request, api, admin, coord, errors>>

\* The goroutine on the context: the lane's, so also cancelled when only the lane
\* is stopped.
WatchCtx(m) ==
    /\ run[m].pc = "exec" /\ Cancelled(m) /\ run[m].kill = None
    /\ run' = KillProcess(m, "dugdale_shutdown")
    /\ UNCHANGED <<row, kch, runner, lane, request, api, admin, coord, errors>>

WatchTimeout(m) ==
    /\ run[m].pc = "exec" /\ m \in env.timeouts /\ run[m].kill = None
    /\ run' = KillProcess(m, "timeout")
    /\ UNCHANGED <<row, kch, runner, lane, request, api, admin, coord, errors>>

\* The process ends; an external kill wins over everything it did.
ProcessExit(m) ==
    /\ run[m].pc = "exec"
    /\ run' = [run EXCEPT ![m] = [NoRun EXCEPT !.pc = "finalize", !.by = run[m].by,
                                   !.out = IF run[m].kill # None THEN run[m].kill ELSE "natural"]]
    /\ UNCHANGED <<row, kch, runner, lane, request, api, admin, coord, errors>>

\* Finalize stores the outcome (module Finalize has the detail).
Finalize(m) ==
    /\ run[m].pc = "finalize" /\ lane.writer = 0
    /\ row' = Ended(m, run[m].out)
    /\ run' = [run EXCEPT ![m].pc = "release"]
    /\ UNCHANGED <<kch, runner, lane, request, api, admin, coord, errors>>

\* The intent's transaction failed for good: the row stays running.
FinalizeFails(m) ==
    /\ "finalizeError" \in env.faults /\ errors < env.errors /\ errors' = errors + 1
    /\ run[m].pc = "finalize"
    /\ run' = [run EXCEPT ![m].pc = "release"]
    /\ UNCHANGED <<row, kch, runner, lane, request, api, admin, coord>>

\* Run's deferred release.
Release(m) ==
    LET r == runner[run[m].by] IN
    /\ run[m].pc = "release"
    /\ run' = [run EXCEPT ![m].pc = "unregister"]
    /\ runner' = [runner EXCEPT ![run[m].by] = [r EXCEPT !.inflight = r.inflight - 1, !.avail = TRUE]]
    /\ UNCHANGED <<row, kch, lane, request, api, admin, coord, errors>>

\* spawn's deferred removal of the kill channel.
Unregister(m) ==
    /\ run[m].pc = "unregister"
    /\ run' = [run EXCEPT ![m] = [NoRun EXCEPT !.pc = "gone"]]
    /\ kch' = [kch EXCEPT ![m] = "unregistered"]
    /\ UNCHANGED <<row, runner, lane, request, api, admin, coord, errors>>

-----------------------------------------------------------------------------
(* Dispatch, exec dispatch, restart and kill requests.                     *)

Request(m, pc) == request' = [request EXCEPT ![m] = pc]

\* Everything the handlers read before their transaction.  Restart looks at the
\* applied configuration only.
CheckLane(m) ==
    /\ Serving /\ m \in env.missions /\ request[m] = "idle" /\ lane.applied
    /\ m \notin env.restarts => coord.phase = "running" /\ ~lane.mu /\ ~IsLaneRemoving
    /\ Request(m, "checked")
    /\ UNCHANGED <<row, run, kch, runner, lane, api, admin, coord, errors>>

BeginInsert(m) ==
    /\ request[m] = "checked" /\ lane.writer = 0
    /\ lane' = [lane EXCEPT !.writer = m]
    /\ Request(m, IF m \in env.restarts \cup env.execs THEN "insert" ELSE "recheck")
    /\ UNCHANGED <<row, run, kch, runner, api, admin, coord, errors>>

\* Dispatch looks at the lane again inside of its transaction.
RecheckLane(m) ==
    /\ request[m] = "recheck" /\ ~lane.mu
    /\ IF IsLaneRemoving
       THEN Request(m, "refused") /\ lane' = [lane EXCEPT !.writer = 0]
       ELSE Request(m, "insert") /\ UNCHANGED lane
    /\ UNCHANGED <<row, run, kch, runner, api, admin, coord, errors>>

Insert(m) ==
    /\ request[m] = "insert"
    /\ row' = [row EXCEPT ![m].status = "queued"]
    /\ lane' = [lane EXCEPT !.writer = 0]
    /\ Request(m, "notify")
    /\ UNCHANGED <<run, kch, runner, api, admin, coord, errors>>

\* The transaction fails or a staged input is gone: rolled back, nobody is notified.
InsertFails(m) ==
    /\ "insertError" \in env.faults /\ errors < env.errors /\ errors' = errors + 1
    /\ request[m] = "insert"
    /\ lane' = [lane EXCEPT !.writer = 0]
    /\ Request(m, "refused")
    /\ UNCHANGED <<row, run, kch, runner, api, admin, coord>>

\* Mutant: an unbuffered channel: only a waiting loop is woken.
NotifyUnbuffered(m) ==
    /\ request[m] = "notify" /\ ~lane.mu
    /\ runner' = IF Managed /\ runner[lane.managed].pc = "wake"
                 THEN [runner EXCEPT ![lane.managed].notify = TRUE] ELSE runner
    /\ Request(m, "answered")
    /\ UNCHANGED <<row, run, kch, lane, api, admin, coord, errors>>

Notify(m) ==
    /\ request[m] = "notify" /\ ~lane.mu
    /\ runner' = IF Managed THEN [runner EXCEPT ![lane.managed].notify = TRUE] ELSE runner
    /\ Request(m, "answered")
    /\ UNCHANGED <<row, run, kch, lane, api, admin, coord, errors>>

KillRead(m) ==
    /\ Serving /\ m \in env.killable /\ api[m] = "idle" /\ row[m].status \in {"queued", "running"}
    /\ api' = [api EXCEPT ![m] = row[m].status]
    /\ UNCHANGED <<row, run, kch, runner, lane, request, admin, coord, errors>>

\* Mutant: the UPDATE has no status guard.
KillQueuedBlind(m) ==
    /\ api[m] = "queued" /\ lane.writer = 0
    /\ row' = Ended(m, "killed_by_api")
    /\ api' = [api EXCEPT ![m] = "answered"]
    /\ UNCHANGED <<run, kch, runner, lane, request, admin, coord, errors>>

\* KillQueued looks at the status again in its transaction.
KillQueued(m) ==
    /\ api[m] = "queued" /\ lane.writer = 0
    /\ row' = IF row[m].status = "queued" THEN Ended(m, "killed_by_api") ELSE row
    /\ api' = [api EXCEPT ![m] = "answered"]
    /\ UNCHANGED <<run, kch, runner, lane, request, admin, coord, errors>>

KillRunning(m) ==
    /\ api[m] = "running"
    /\ kch' = Signalled({m}, "killed_by_api")
    /\ api' = [api EXCEPT ![m] = IF kch[m] = "empty" THEN "sent" ELSE "failed"]
    /\ UNCHANGED <<row, run, runner, lane, request, admin, coord, errors>>

-----------------------------------------------------------------------------
(* Apply, pause and continue; applyMu lets one of them run at a time.       *)

\* Mutant: the file decides.
ProvenanceOfFile(p) == IF p THEN "yaml" ELSE "none"

\* The pause state Apply stores for a desired Paused = p.
Provenance(p) ==
    LET had == lane.applied /\ lane.pause # "none" IN
    CASE p /\ had /\ lane.pause = "ctl"   -> "ctl"
      [] p /\ ~(had /\ lane.pause = "ctl") -> "yaml"
      [] ~p /\ had /\ lane.pause # "yaml" -> "ctl"
      [] OTHER                            -> "none"

AdminStarts(op) ==
    /\ Serving /\ op \in env.ops /\ admin.pc = "idle" /\ admin.ops < env.requests

\* Apply with the lane in the desired state: persist, then reconcile.
ApplyLane(n, p) ==
    /\ lane.writer = 0
    /\ lane' = [lane EXCEPT !.applied = TRUE, !.limit = n, !.pause = Provenance(p)]
    /\ admin' = [admin EXCEPT !.pc = "reconcile", !.ops = @ + 1]
    /\ UNCHANGED <<row, run, kch, runner, request, api, coord, errors>>

\* The desired state of Apply: from the file, or, without prune and for a lane the
\* file does not mention, the current one.
Apply ==
    \/ AdminStarts("apply") /\ \E n \in env.limits : ApplyLane(n, FALSE)
    \/ AdminStarts("applyPaused") /\ \E n \in env.limits : ApplyLane(n, TRUE)
    \/ AdminStarts("overlay") /\ lane.applied /\ ApplyLane(lane.limit, lane.pause # "none")

\* Manager.Apply: resize an existing runner, or start a new one.
Reconcile ==
    /\ admin.pc = "reconcile" /\ ~lane.mu
    /\ IF Managed
       THEN /\ runner' = IF runner[lane.managed].limit = lane.limit THEN runner
                         ELSE [runner EXCEPT ![lane.managed] = [@ EXCEPT !.limit = lane.limit, !.avail = TRUE]]
            /\ lane' = [lane EXCEPT !.mu = TRUE]
       ELSE /\ runner' = [runner EXCEPT ![lane.used + 1] = Started(lane.limit)]
            /\ lane' = [lane EXCEPT !.mu = TRUE, !.used = @ + 1, !.managed = lane.used + 1]
    /\ admin' = [admin EXCEPT !.pc = "pause", !.fresh = ~Managed]
    /\ UNCHANGED <<row, run, kch, request, api, coord, errors>>

\* The rest of Manager.Apply: Pause or Resume.  After the first one the listener
\* opens.
ReconcilePause ==
    /\ admin.pc = "pause"
    /\ runner' = [runner EXCEPT ![lane.managed] =
          IF lane.pause # "none" THEN [@ EXCEPT !.paused = TRUE]
          ELSE IF admin.fresh THEN @
          ELSE [@ EXCEPT !.paused = FALSE, !.notify = TRUE]]
    /\ lane' = [lane EXCEPT !.mu = FALSE]
    /\ admin' = [admin EXCEPT !.pc = "idle", !.fresh = FALSE]
    /\ coord' = [coord EXCEPT !.pc = IF @ = "boot" THEN "idle" ELSE @]
    /\ UNCHANGED <<row, run, kch, request, api, errors>>

\* Apply with prune and the lane missing from the desired state.
Prune ==
    /\ AdminStarts("prune") /\ lane.applied /\ WithStatus("queued") \cup WithStatus("running") = {}
    /\ admin' = [admin EXCEPT !.pc = "persist", !.force = FALSE, !.ops = @ + 1]
    /\ UNCHANGED <<row, run, kch, runner, lane, request, api, coord, errors>>

\* Mutant: MarkLaneRemoving does not wait for the acknowledgement.
ForcePruneNoAck ==
    /\ AdminStarts("forcePrune") /\ lane.applied /\ ~lane.mu /\ Managed
    /\ runner' = [runner EXCEPT ![lane.managed].removing = TRUE]
    /\ admin' = [admin EXCEPT !.pc = "list", !.force = TRUE, !.gen = lane.managed, !.ops = @ + 1]
    /\ UNCHANGED <<row, run, kch, lane, request, api, coord, errors>>

\* The same with force: MarkLaneRemoving, which ignores a lane without a runner.
ForcePrune ==
    /\ AdminStarts("forcePrune") /\ lane.applied /\ ~lane.mu
    /\ runner' = IF ~Managed THEN runner
                 ELSE [runner EXCEPT ![lane.managed] = [@ EXCEPT !.removing = TRUE, !.avail = TRUE, !.notify = TRUE]]
    /\ admin' = [admin EXCEPT !.pc = IF Managed THEN "ack" ELSE "list", !.force = TRUE,
                             !.gen = lane.managed, !.ops = @ + 1]
    /\ UNCHANGED <<row, run, kch, lane, request, api, coord, errors>>

RemovalAcked ==
    /\ admin.pc = "ack" /\ runner[admin.gen].acked
    /\ admin' = [admin EXCEPT !.pc = "list"]
    /\ UNCHANGED <<row, run, kch, runner, lane, request, api, coord, errors>>

\* terminateLaneMissions: the queued rows are listed, then killed one by one.
ListQueued ==
    /\ admin.pc = "list"
    /\ admin' = [admin EXCEPT !.pc = "killQueued", !.todo = WithStatus("queued")]
    /\ UNCHANGED <<row, run, kch, runner, lane, request, api, coord, errors>>

PruneQueued(m) ==
    /\ admin.pc = "killQueued" /\ m \in admin.todo /\ lane.writer = 0
    /\ row' = IF row[m].status = "queued" THEN Ended(m, "lane_removed") ELSE row
    /\ admin' = [admin EXCEPT !.todo = @ \ {m}]
    /\ UNCHANGED <<run, kch, runner, lane, request, api, coord, errors>>

PruneRunning ==
    /\ admin.pc = "killQueued" /\ admin.todo = {}
    /\ kch' = Signalled(WithStatus("running"), "lane_removed")
    /\ admin' = [admin EXCEPT !.pc = "persist"]
    /\ UNCHANGED <<row, run, runner, lane, request, api, coord, errors>>

\* An error after MarkLaneRemoving: the deferred StopLanes.
PruneFails ==
    /\ "pruneError" \in env.faults /\ errors < env.errors /\ errors' = errors + 1
    /\ admin.pc \in {"killQueued", "persist"} /\ admin.force
    /\ admin' = [admin EXCEPT !.pc = "stopLanes", !.todo = {}]
    /\ UNCHANGED <<row, run, kch, runner, lane, request, api, coord>>

PersistRemoval ==
    /\ admin.pc = "persist" /\ lane.writer = 0
    /\ lane' = [lane EXCEPT !.applied = FALSE, !.pause = "none"]
    /\ admin' = [admin EXCEPT !.pc = "remove"]
    /\ UNCHANGED <<row, run, kch, runner, request, api, coord, errors>>

\* Manager.Apply stops the runner and holds its mutex until the loop has ended.
StopRemoved ==
    /\ admin.pc = "remove" /\ ~lane.mu
    /\ IF Managed
       THEN /\ runner' = [runner EXCEPT ![lane.managed].cancelled = TRUE]
            /\ lane' = [lane EXCEPT !.mu = TRUE]
            /\ admin' = [admin EXCEPT !.pc = "stop", !.gen = lane.managed]
       ELSE /\ admin' = [admin EXCEPT !.pc = "idle", !.gen = 0]
            /\ UNCHANGED <<runner, lane>>
    /\ UNCHANGED <<row, run, kch, request, api, coord, errors>>

RemovedStopped ==
    /\ admin.pc = "stop" /\ runner[admin.gen].pc = "exit"
    /\ lane' = [lane EXCEPT !.mu = FALSE, !.managed = 0]
    /\ admin' = [admin EXCEPT !.pc = "idle", !.gen = 0]
    /\ UNCHANGED <<row, run, kch, runner, request, api, coord, errors>>

\* StopLanes takes the runner out of the map first and waits without the mutex.
StopLanes ==
    /\ admin.pc = "stopLanes" /\ ~lane.mu
    /\ IF Managed
       THEN /\ runner' = [runner EXCEPT ![lane.managed].cancelled = TRUE]
            /\ lane' = [lane EXCEPT !.managed = 0]
            /\ admin' = [admin EXCEPT !.pc = "stopWait", !.gen = lane.managed]
       ELSE /\ admin' = [admin EXCEPT !.pc = "idle", !.gen = 0]
            /\ UNCHANGED <<runner, lane>>
    /\ UNCHANGED <<row, run, kch, request, api, coord, errors>>

LanesStopped ==
    /\ admin.pc = "stopWait" /\ runner[admin.gen].pc = "exit"
    /\ admin' = [admin EXCEPT !.pc = "idle", !.gen = 0]
    /\ UNCHANGED <<row, run, kch, runner, lane, request, api, coord, errors>>

Paused(g) == [runner EXCEPT ![g].paused = TRUE]
Resumed(g) == [runner EXCEPT ![g] = [@ EXCEPT !.paused = FALSE, !.notify = TRUE]]

\* The pause and continue handlers: first the runner, then the configuration.
PauseLane ==
    /\ AdminStarts("pause") /\ Managed /\ ~lane.mu
    /\ runner' = Paused(lane.managed)
    /\ admin' = [admin EXCEPT !.pc = "persistPause", !.ops = @ + 1]
    /\ UNCHANGED <<row, run, kch, lane, request, api, coord, errors>>

ContinueLane ==
    /\ AdminStarts("continue") /\ Managed /\ ~lane.mu
    /\ runner' = Resumed(lane.managed)
    /\ admin' = [admin EXCEPT !.pc = "persistContinue", !.ops = @ + 1]
    /\ UNCHANGED <<row, run, kch, lane, request, api, coord, errors>>

\* Mutant: the runner alone is paused, the configuration is not written.
SetLanePausedInMemory ==
    /\ admin.pc \in {"persistPause", "persistContinue"} /\ lane.writer = 0
    /\ admin' = [admin EXCEPT !.pc = "idle"]
    /\ UNCHANGED <<row, run, kch, runner, lane, request, api, coord, errors>>

SetLanePausedInConfig ==
    /\ admin.pc \in {"persistPause", "persistContinue"} /\ lane.writer = 0
    /\ lane' = [lane EXCEPT !.pause = IF ~lane.applied THEN @
                                      ELSE IF admin.pc = "persistPause" THEN "ctl" ELSE "none"]
    /\ admin' = [admin EXCEPT !.pc = "idle"]
    /\ UNCHANGED <<row, run, kch, runner, request, api, coord, errors>>

\* The configuration could not be written: the runner is set back.
RollBack ==
    /\ "persistError" \in env.faults /\ errors < env.errors /\ errors' = errors + 1
    /\ admin.pc \in {"persistPause", "persistContinue"} /\ ~lane.mu
    /\ runner' = IF ~Managed THEN runner
                 ELSE IF admin.pc = "persistPause" THEN Resumed(lane.managed)
                 ELSE Paused(lane.managed)
    /\ admin' = [admin EXCEPT !.pc = "idle"]
    /\ UNCHANGED <<row, run, kch, lane, request, api, coord>>

-----------------------------------------------------------------------------
(* shutdown.Coordinator.                                                   *)

SigTerm ==
    /\ coord.pc # "boot" /\ coord.signals < env.signals
    /\ coord' = [coord EXCEPT !.signals = @ + 1,
                  !.pc = IF coord.phase = "running" THEN "pause" ELSE @,
                  !.phase = IF @ = "running" THEN "draining"
                            ELSE IF @ = "draining" THEN "aggressive" ELSE @]
    /\ UNCHANGED <<row, run, kch, runner, lane, request, api, admin, errors>>

PauseAllLanes ==
    /\ coord.pc = "pause" /\ ~lane.mu
    /\ runner' = IF Managed THEN Paused(lane.managed) ELSE runner
    /\ coord' = [coord EXCEPT !.pc = "drain"]
    /\ UNCHANGED <<row, run, kch, lane, request, api, admin, errors>>

\* aggressiveKillAll, and the drain loop on each of its turns.
AggressiveKill ==
    /\ coord.phase = "aggressive" /\ coord.pc \in {"pause", "drain"}
    /\ kch' = Signalled(WithStatus("running"), "dugdale_shutdown")
    /\ UNCHANGED <<row, run, runner, lane, request, api, admin, coord, errors>>

\* Mutant: the drain waits for the running rows.
DrainByRows ==
    /\ coord.pc = "drain" /\ WithStatus("running") = {}
    /\ coord' = [coord EXCEPT !.pc = "stopAll"]
    /\ UNCHANGED <<row, run, kch, runner, lane, request, api, admin, errors>>

\* LiveMissionIDs is empty.
DrainComplete ==
    /\ coord.pc = "drain" /\ \A m \in Missions : kch[m] = "unregistered"
    /\ coord' = [coord EXCEPT !.pc = "stopAll"]
    /\ UNCHANGED <<row, run, kch, runner, lane, request, api, admin, errors>>

StopAll ==
    /\ coord.pc = "stopAll" /\ ~lane.mu
    /\ runner' = IF Managed THEN [runner EXCEPT ![lane.managed].cancelled = TRUE] ELSE runner
    /\ lane' = [lane EXCEPT !.managed = 0]
    /\ coord' = [coord EXCEPT !.pc = "stopping", !.gen = lane.managed]
    /\ UNCHANGED <<row, run, kch, request, api, admin, errors>>

AllStopped ==
    /\ coord.pc = "stopping" /\ (coord.gen # 0 => runner[coord.gen].pc = "exit")
    /\ coord' = [coord EXCEPT !.pc = "done", !.phase = "done"]
    /\ UNCHANGED <<row, run, kch, runner, lane, request, api, admin, errors>>

\* The server is shut down and the process ends, whatever still runs in it.
Exit ==
    /\ coord.pc = "done"
    /\ coord' = [coord EXCEPT !.pc = "exited"]
    /\ UNCHANGED <<row, run, kch, runner, lane, request, api, admin, errors>>

-----------------------------------------------------------------------------
Loop(g) == LoopTop(g) \/ WaitBegins(g) \/ WaitEnds(g) \/ Pick(g) \/ PickBusy(g) \/ Register(g)

\* What a mission's goroutine does without the process's help.
Goroutine(m) == Start(m) \/ WatchKillCh(m) \/ WatchCtx(m) \/ Finalize(m)
                \/ Release(m) \/ Unregister(m)

Handler(m) == BeginInsert(m) \/ RecheckLane(m) \/ Insert(m) \/ Notify(m)

AdminStep == \/ Reconcile \/ ReconcilePause \/ RemovalAcked \/ ListQueued
             \/ (\E m \in Missions : PruneQueued(m)) \/ PruneRunning \/ PersistRemoval
             \/ StopRemoved \/ RemovedStopped \/ StopLanes \/ LanesStopped
             \/ SetLanePausedInConfig

CoordStep == PauseAllLanes \/ DrainComplete \/ StopAll \/ AllStopped

Step ==
    \/ \E g \in Gens : Loop(g) \/ WaitTimesOut(g) \/ PickFails(g)
    \/ \E m \in Missions :
         \/ Goroutine(m) \/ WatchTimeout(m) \/ ProcessExit(m) \/ FinalizeFails(m)
         \/ Handler(m) \/ CheckLane(m) \/ InsertFails(m) \/ KillRead(m) \/ KillQueued(m) \/ KillRunning(m)
    \/ AdminStep \/ Apply \/ Prune \/ ForcePrune \/ PruneFails \/ PauseLane \/ ContinueLane
    \/ RollBack
    \/ CoordStep \/ SigTerm \/ AggressiveKill \/ Exit

\* The daemon lives, and its environment stays what it is.
Alive == coord.pc # "exited" /\ UNCHANGED env

Next == Alive /\ Step

Spec == Init /\ [][Next]_vars

\* The goroutines of the daemon run as long as it does.  A process that was told to
\* end does so at the latest by SIGKILL.  Requests, natural ends of processes,
\* failures and, unless env.timers, the 30s fallbacks are not assumed to happen.
Fairness ==
    /\ \A g \in Gens : WF_vars(Alive /\ Loop(g))
    /\ \A m \in Missions :
         /\ WF_vars(Alive /\ Goroutine(m))
         /\ WF_vars(Alive /\ run[m].kill # None /\ ProcessExit(m))
         /\ WF_vars(Alive /\ Handler(m))
    /\ WF_vars(Alive /\ AdminStep) /\ WF_vars(Alive /\ CoordStep)
    /\ WF_vars(Alive /\ AggressiveKill)
    /\ \A g \in Gens : WF_vars(Alive /\ env.timers /\ WaitTimesOut(g))

FairSpec == Spec /\ Fairness

-----------------------------------------------------------------------------
(* Properties.                                                             *)

TypeOK ==
    /\ row \in [Missions -> Row] /\ run \in [Missions -> Run]
    /\ kch \in [Missions -> {"unregistered", "empty"} \cup KillReasons]
    /\ runner \in [Gens -> Runner] /\ lane \in Lane /\ admin \in Admin /\ coord \in Coord
    /\ request \in [Missions -> {"idle", "checked", "recheck", "insert", "notify", "answered", "refused"}]
    /\ api \in [Missions -> {"idle", "queued", "running", "answered", "sent", "failed"}]
    /\ errors \in 0 .. env.errors /\ env \in Environments

\* The missions that occupy a slot of runner g.
Holders(g) == {m \in Missions : run[m].by = g
                  /\ run[m].pc \in {"start", "exec", "finalize", "release"}}

\* A runner never holds more slots than the limit under which it took the last one,
\* through any order of resizes, releases and pickups (Runner.SetConcurrency: a
\* shrink preempts nothing and blocks pickups until enough slots are released).
SlotsBounded ==
    \A g \in Gens : Cardinality(Holders(g)) + (IF runner[g].pc = "picked" THEN 1 ELSE 0)
                     <= runner[g].gate

\* Every running row can be reached by a kill signal and is waited for by a drain:
\* its kill channel is registered, or the loop that just claimed it is about to do
\* so (Runtime.LiveMissionIDs is "the authoritative still in-flight set").
RunningIsLive ==
    \A m \in WithStatus("running") :
        kch[m] # "unregistered" \/ \E g \in Gens : runner[g].pc = "picked" /\ runner[g].job = m

\* A mission is claimed at most once, also while the loops of two runners of the
\* lane overlap, and never after it was killed in the queue: what works on it is
\* one loop or one goroutine, and its row is running until the outcome is stored.
OneClaim ==
    \A m \in Missions :
        LET loops == {g \in Gens : runner[g].job = m}
            works == run[m].pc \in {"start", "exec", "finalize"} IN
        /\ Cardinality(loops) <= 1
        /\ loops # {} => run[m].pc = "none"
        /\ loops # {} \/ works => row[m].status = "running"

\* Once MarkLaneRemoving has returned, no mission of the lane is picked up until the
\* prune is over (it "is guaranteed not to start a new pickup transaction").
AckStopsPickup ==
    [][admin.force /\ admin.gen # 0
         /\ admin.pc \in {"list", "killQueued", "persist", "remove", "stop", "stopLanes", "stopWait"}
       => \A m \in Missions : row[m].status = "queued" => row'[m].status # "running"]_vars

\* A pause set by an operator stays until the operator continues or removes the lane,
\* whatever is applied (Apply, step 1b).
OperatorPauseHolds ==
    [][lane.applied /\ lane.pause = "ctl" /\ lane'.pause # "ctl"
       => admin.pc = "persistContinue" \/ ~lane'.applied]_vars

\* The runner is paused exactly if the persisted configuration says so.
PauseAgreed == Managed => (runner[lane.managed].paused <=> lane.pause # "none")

\* PauseLane or ContinueLane asked for what the configuration says already.
Repeated == \/ admin.pc = "persistPause" /\ lane.pause # "none"
            \/ admin.pc = "persistContinue" /\ lane.pause = "none"

PauseSettles ==
    coord'.phase = "running" /\ admin'.pc = "idle"
    => PauseAgreed' \/ (admin.pc = "idle" /\ ~PauseAgreed) \/ (Repeated /\ errors' # errors)

\* When an administrative request returns, the runner is paused exactly if the persisted
\* configuration says so, also if they disagreed before it, and nothing else sets them
\* apart: a restart changes nothing.  There is one exception: when a pause of a paused
\* lane, or a continue of a running one, cannot be written, the roll-back of PauseLane and
\* ContinueLane sets the runner to the opposite of the request, which is not what it was.
PauseMatchesConfig == [][PauseSettles]_vars

\* Mission m waits although its lane could run it.
Pickable(m) ==
    /\ row[m].status = "queued" /\ Managed /\ coord.phase = "running"
    /\ LET r == runner[lane.managed] IN
       ~r.paused /\ ~r.removing /\ ~r.cancelled /\ r.inflight < r.limit

\* No wake-up is lost: a queued mission does not wait forever in a lane that could
\* run it (the channels notify and avail, which hold one signal each).
NoLostWakeup == \A m \in Missions : []<>~Pickable(m)

\* Every apply, pause and continue returns, although Manager.Apply waits with its
\* mutex held for a loop that may wait for a writer that waits for this mutex; or the
\* daemon has stopped its loops (MarkRemoving then waits for an acknowledgement that
\* never comes, until the process ends).
ApplyReturns == admin.pc # "idle" ~> admin.pc = "idle" \/ coord.phase = "done"

\* A kill signal that was accepted ends the mission, wherever its goroutine was when
\* the signal was put into the channel (SignalKill, the watcher in mission.Run).  Only
\* an outcome that could not be stored, or the daemon's own exit, leaves its row running.
DeliveredKillEnds ==
    \A m \in Missions :
        kch[m] \in KillReasons ~> \/ row[m].status = "done"
                                  \/ run[m].pc = "gone" /\ errors > 0
                                  \/ coord.pc = "exited"

\* The second signal ends the daemon, whatever administrative requests do meanwhile
\* and also if a mission's outcome could not be stored (drainComplete).
AggressiveConverges == coord.phase = "aggressive" ~> coord.phase = "done"

-----------------------------------------------------------------------------
(* The inductive invariant behind SlotsBounded, OneClaim, RunningIsLive and    *)
(* AckStopsPickup.                                                             *)

Works(m) == run[m].pc \in {"start", "exec", "finalize"}
Spawned(m) == run[m].pc \in {"start", "exec", "finalize", "release", "unregister"}

\* Runners are numbered in the order of their start, and an apply that has still to
\* start one has been counted.
Generations ==
    /\ lane.used + (IF admin.pc = "reconcile" THEN 1 ELSE 0) <= admin.ops + 1
    /\ lane.managed <= lane.used
    /\ \A g \in Gens : g > lane.used => runner[g].pc = "off"
    /\ \A m \in Missions : Spawned(m) => run[m].by \in 1 .. lane.used

\* A mission is in the hands of nobody, of one loop, or of its goroutine.
Claims ==
    /\ \A g \in Gens : runner[g].pc = "picked" <=> runner[g].job # 0
    /\ \A g, h \in Gens : runner[g].job # 0 /\ runner[g].job = runner[h].job => g = h
    /\ \A g \in Gens, m \in Missions :
          runner[g].job = m => row[m].status = "running" /\ run[m].pc = "none"
    /\ \A m \in Missions :
          /\ Works(m) => row[m].status = "running"
          /\ row[m].status \in {"none", "queued"} => run[m].pc = "none"
          /\ request[m] \in {"idle", "checked", "recheck", "insert"} => row[m].status = "none"

\* A runner counts its slots, and its loop is past the gate only with a free one.
Slots ==
    \A g \in Gens :
        /\ IsFiniteSet(Holders(g)) /\ runner[g].inflight = Cardinality(Holders(g))
        /\ runner[g].inflight + (IF runner[g].pc \in {"pick", "picked"} THEN 1 ELSE 0) <= runner[g].gate

\* The kill channel is there as long as the goroutine, and a running row has a loop or
\* a goroutine unless its outcome could not be stored.
Channels ==
    \A m \in Missions :
        /\ Spawned(m) => kch[m] # "unregistered"
        /\ row[m].status = "running" =>
              \/ Works(m) \/ (\E g \in Gens : runner[g].job = m) \/ "finalizeError" \in env.faults

\* Only the managed runner may pick, and not once it has acknowledged its removal.
Removal ==
    /\ \A g \in Gens : runner[g].pc # "off" /\ g # lane.managed => runner[g].cancelled
    /\ \A g \in Gens : runner[g].acked => runner[g].pc \in {"acked", "exit"}
    /\ admin.force /\ admin.gen # 0 /\ admin.pc # "idle" =>
          /\ lane.managed \in {0, admin.gen}
          /\ admin.pc \in {"list", "killQueued", "persist", "remove", "stop", "stopLanes", "stopWait"}
             => runner[admin.gen].acked
    /\ admin.gen # 0 => admin.pc \in {"ack", "list", "killQueued", "persist", "remove", "stop",
                                      "stopLanes", "stopWait"}
    /\ admin.force /\ admin.gen = 0
          /\ admin.pc \in {"ack", "list", "killQueued", "persist", "remove", "stopLanes"} => ~Managed
    /\ admin.pc = "stop" /\ Managed => runner[lane.managed].cancelled

\* While the daemon is not shutting down, who is about to set the runner, or to write the
\* configuration, finds the other half as the request before it has left it.
PauseInOrder ==
    coord.phase = "running" =>
        /\ coord.pc \in {"boot", "idle"}
        /\ admin.pc \in {"pause", "persistPause", "persistContinue"} => Managed
        /\ Managed /\ admin.pc \in {"idle", "persistPause", "persistContinue"} => lane.applied
        /\ admin.pc = "pause" /\ admin.fresh => ~runner[lane.managed].paused
        /\ admin.pc = "persistPause" => runner[lane.managed].paused
        /\ admin.pc = "persistContinue" => ~runner[lane.managed].paused
        /\ admin.pc \in {"reconcile", "pause"} => lane.applied
        /\ admin.pc = "stopWait" => ~Managed

\* What every step of a loop, a goroutine and a request keeps: it implies SlotsBounded,
\* OneClaim and (unless an outcome could not be stored) RunningIsLive.
LaneInv == TypeOK /\ Generations /\ Claims /\ Slots /\ Channels /\ Removal

-----------------------------------------------------------------------------
(* What comments and README say, and the code does not keep.               *)

\* "Phase Done -- all missions finalized; lane runners stopped" (graceful.go).
DoneMeansFinalized == coord.phase = "done" => WithStatus("running") = {}

\* "a concurrent dispatch cannot slip a fresh job into a lane that is going away"
\* (README): after a force-prune no row is left in the queue of the removed lane.
NoOrphanedQueued ==
    admin.pc = "idle" /\ ~lane.applied /\ admin.force => WithStatus("queued") = {}

=============================================================================
