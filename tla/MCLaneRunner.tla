---------------------------- MODULE MCLaneRunner ----------------------------
(* LaneRunner for TLC: the environments of the runs.  Each run is the union of *)
(* a few small instances, one for each kind of request it is about.            *)
EXTENDS LaneRunner, FiniteSetsExt

\* Nothing but one mission in the queue of an unpaused lane with limit 1.
Quiet == [missions |-> {1}, restarts |-> {}, execs |-> {}, backlog |-> {1}, timeouts |-> {},
          killable |-> {}, limits |-> {1}, pauses |-> {"none"}, ops |-> {}, requests |-> 0,
          faults |-> {}, errors |-> 0, signals |-> 0, timers |-> FALSE]

\* Slots under resizes; removal and re-creation; kills while the lane is removed;
\* every order of pauses, with a configuration that cannot be written.
Safety == {
    [Quiet EXCEPT !.missions = {1, 2, 3}, !.backlog = {1, 2, 3}, !.limits = {1, 2},
                  !.ops = {"apply", "pause", "continue"}, !.requests = 2],
    [Quiet EXCEPT !.missions = {1, 2}, !.execs = {2}, !.ops = {"apply", "prune", "forcePrune"},
                  !.requests = 3, !.faults = {"pruneError"}, !.errors = 1],
    [Quiet EXCEPT !.missions = {1, 2}, !.backlog = {1, 2}, !.killable = {1, 2}, !.limits = {2},
                  !.ops = {"forcePrune"}, !.requests = 1],
    [Quiet EXCEPT !.pauses = {"none", "yaml", "ctl", "legacy"},
                  !.ops = {"apply", "applyPaused", "overlay", "prune", "forcePrune", "pause", "continue"},
                  !.requests = 3, !.faults = {"pruneError", "persistError"}, !.errors = 1]}

\* Wake-ups without the timers under resizes, kills, pauses; failing pickups and dispatches with the
\* timers; removal while dispatches hold the writer lock.
Progress == {
    [Quiet EXCEPT !.missions = {1, 2}, !.backlog = {2}, !.limits = {1, 2}, !.ops = {"apply"},
                  !.requests = 1],
    [Quiet EXCEPT !.missions = {1, 2}, !.backlog = {2}, !.killable = {1}],
    [Quiet EXCEPT !.missions = {1, 2}, !.pauses = {"none", "ctl"}, !.ops = {"pause", "continue"},
                  !.requests = 1],
    [Quiet EXCEPT !.missions = {1, 2}, !.timeouts = {1}, !.pauses = {"none", "ctl"},
                  !.ops = {"continue"}, !.requests = 1, !.faults = {"pickError", "insertError"},
                  !.errors = 2, !.timers = TRUE],
    [Quiet EXCEPT !.missions = {1, 2}, !.execs = {2}, !.backlog = {},
                  !.ops = {"prune", "forcePrune", "pause"}, !.requests = 1,
                  !.faults = {"pruneError", "persistError"}, !.errors = 1]}

\* Two signals against a dispatch that has passed the drain check, against every request
\* that touches the runners, and against an outcome that cannot be stored.
Shutdown == {
    [Quiet EXCEPT !.missions = {1, 2}, !.restarts = {2}, !.signals = 2],
    [Quiet EXCEPT !.ops = {"apply", "forcePrune", "continue"}, !.requests = 1, !.signals = 2],
    [Quiet EXCEPT !.ops = {"apply"}, !.requests = 1, !.faults = {"finalizeError"}, !.errors = 1,
                  !.signals = 2]}

\* Everything that has to come to an end.
Endings == Progress \cup Shutdown

-----------------------------------------------------------------------------
(* Statements of comments and README that the code does not keep.  None has a  *)
(* run of its own.  With Missions = {1, 2}, Limits = {1} and MaxAdmin = 2, TLC *)
(* refutes DoneMeansFinalized in OneSignal, NoOrphanedQueued in OneForcePrune, *)
(* RollBackIsCoherent in FailingPause, and each other one in Deviations.       *)

OneSignal == {[Quiet EXCEPT !.signals = 1]}
OneForcePrune == {[Quiet EXCEPT !.backlog = {}, !.ops = {"forcePrune"}, !.requests = 1]}
FailingPause == {[Quiet EXCEPT !.backlog = {}, !.ops = {"pause"}, !.requests = 2,
                               !.faults = {"persistError"}, !.errors = 1]}

Deviations == {
    [Quiet EXCEPT !.ops = {"apply"}, !.requests = 1, !.signals = 1],
    [Quiet EXCEPT !.missions = {1, 2}, !.ops = {"apply", "forcePrune"}, !.requests = 2],
    [Quiet EXCEPT !.killable = {1}],
    [Quiet EXCEPT !.backlog = {}, !.ops = {"prune"}, !.requests = 1],
    [Quiet EXCEPT !.pauses = {"ctl", "legacy"}, !.ops = {"overlay"}, !.requests = 1]}

\* After a pause that could not be written "a subsequent retry from the operator hits a
\* coherent starting point instead of a runtime-vs-persisted split" (admin.go).
RollBackIsCoherent == admin.pc = "idle" /\ coord.phase = "running" => PauseAgreed

\* "all lanes pause so no new job starts" (README, Graceful shutdown): once the
\* lanes were paused for the drain, no loop passes its gate again.
DrainStaysPaused ==
    [][coord.pc \notin {"boot", "idle", "pause"}
       => \A g \in Gens : runner[g].pc = "top" => runner'[g].pc # "pick"]_vars

\* dugdale_shutdown is "killed because dugdale was shutting down" (outcome.go), and
\* force-prune signals "KillLaneRemoved" (apply.go).
ShutdownReasonMeansShutdown ==
    \A m \in Missions : row[m].why = "dugdale_shutdown" => coord.phase # "running"

\* "The lane's concurrency limit caps how many of its jobs run at once" (README).
LaneCap == lane.applied => Cardinality(WithStatus("running")) <= Max(env.limits)

\* Pre-spawn registration is there so that a kill of a running mission does not
\* "observe an empty killChs map and 500" (runner.go).
KillFindsChannel ==
    [][\A m \in Missions : api[m] = "running" /\ row[m].status = "running" /\ api'[m] = "failed"
          => kch[m] # "unregistered"]_vars

\* A pause is persisted so that "a daemon restart that replays config doesn't
\* silently un-pause" (admin.go): after a start no paused lane picks anything up.
PausedLaneIdles ==
    [][lane.pause # "none"
       => \A m \in Missions : row[m].status = "queued" => row'[m].status # "running"]_vars

\* --prune "removes them (failing if they hold queued or running jobs)" (README).
PruneRefusesActive ==
    [][lane.applied /\ ~lane'.applied /\ ~admin.force
       => WithStatus("queued") \cup WithStatus("running") = {}]_vars

\* "a legacy Paused=true with empty PausedBy is treated as ctl-origin" (apply.go): it
\* too stays until the operator continues or removes the lane.
LegacyPauseHolds ==
    [][lane.applied /\ lane.pause = "legacy" /\ lane'.pause \notin {"legacy", "ctl"}
       => admin.pc = "persistContinue" \/ ~lane'.applied]_vars

=============================================================================
