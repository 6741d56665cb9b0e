# A TLA+ model of letts

`letts` dispatches jobs ("missions" and "execs") to a daemon, `dugdale`, which runs
them as processes in concurrency-limited lanes and keeps what they produce. This
directory holds a formal model of the daemon and of its client: TLA+ modules
translated from the Go source, TLC configurations that model-check them on small
instances, and theorems about them checked by TLAPS.

## The system

| Part | Source | What it does | Module |
|---|---|---|---|
| finalize | `internal/mission/finalize.go`, `queued_kill.go` | stores a mission's outcome in two phases: an *intent* row, then renames of output files, then the public `done` event, then one transaction that marks the row `done` | `Finalize` |
| repair | `internal/repair/` | at every start, before the listener opens, completes what an unclean stop left half done | `Finalize`, `EventsFile`, `Dispatch` |
| cleanup | `internal/cleanup/` | removes missions past their retention; garbage-collects staging files | `Finalize`, `Staging` |
| storage | `internal/storage/` | SQLite: one writer at a time, write-ahead log, `synchronous=NORMAL` | all |
| lanes | `internal/lane/`, `internal/runtime/` | one pickup goroutine per lane; a kill channel per running mission | `LaneRunner` |
| apply | `internal/apply/`, `handlers/admin.go` | declarative lane configuration, pruning, pause and continue | `LaneRunner` |
| shutdown | `internal/shutdown/` | two-stage graceful stop | `LaneRunner` |
| supervision | `internal/mission/` (waiter, exec_runtime, spawn, outcome, fd3, output) | runs the process, kills it, reads its fd 3 protocol, captures its output, derives the outcome | `Supervise` |
| events | `internal/eventfile/`, `handlers/events.go` | the append-only NDJSON stream of each mission and those who follow it | `EventsFile` |
| staging | `handlers/staging.go`, `internal/stagingstore/` | resumable uploads, downloads, deletion | `Staging` |
| dispatch | `handlers/dispatch.go`, `exec_dispatch.go`, `missions_restart.go` | idempotent creation of missions | `Dispatch` |
| clients | `pkg/lettsclient/` | retries, uploads, following streams | `Dispatch`, `Staging`, `EventsFile` |
| command line | `cmd/letts/` | run, exec, fan-out, apply, operations by id and in bulk; exit codes and downloads | `Command` |

`PROJECT.json` lists every part with its status, the map from definitions to source
lines, and the hazards the model is aimed at.

The parts meet in the mission row (`missions.status`), the intent row, the staging
rows and their references, the events file and the kill channel. The row is written
by the lane runner, the waiter, the kill and delete handlers, the cleaner and the
repair, all in their own goroutines and each in transactions of its own; most of the
hazards come from that.

## Modules

### Finalize

The life of one mission's outcome. State and code:

| Variable | Stands for |
|---|---|
| `db` | the mission row (`status`, `result`), its intent, the staging rows and refs of its outputs |
| `durable` | the part of `db` that would survive a power loss |
| `disk` | events file and its terminal event, `.tmp` and final output files, tombstones |
| `job[p]` | program counter and locals of a goroutine inside the finalize code: the waiter, the repair, or a kill request |
| `boot`, `epoch`, `critical` | start-up sweep in progress, number of daemon lives, the sticky readyz flag |
| `cleaner`, `deleter`, `acked` | mission cleaner, DELETE handler, whether it answered 202 |
| `seen` | history variable: every done event a reader of the stream may have seen |

Every write transaction is one step; so is every rename, directory fsync, removal
and append. Reads outside of a transaction that the code later acts on (`DeleteRead`,
`KillOpen`, `CleanerPick`) are steps of their own. A done event is abstracted to its
verdict and the daemon life that stamped it: two events built in different lives
carry different times, and `AppendDoneIdempotent` compares exactly such content.

Decisions worth knowing:

* *Crash* ends the process: memory is lost, every completed write is kept. *Power
  loss* ends the machine: `db` falls back to `durable`, and renames whose directory
  was not fsynced may be undone. `Checkpoint` makes the present database durable at
  any moment. Removals are treated as durable at once.
* `force` deletion of a running mission is a kill, a wait for `done` and then
  `DeleteRead`; the handlers never mark a running row deleting, and neither does the
  model. DELETE of a row that is already deleting changes nothing and is no action.
* Expiry times are abstracted to where they come from: the 24h value of Phase A2, the
  retention policy, or the zero written by the trigger on refs. Any expired-or-not
  question is nondeterministic.
* While the daemon is down a renamed output may be overwritten, or a file lost
  (`DiskDamage`), and the events file may be lost (`EventsLost`).
* System calls fail in two ways. `ioError` fails writes, renames, fsyncs and the opening
  of the events file; an intent whose events file cannot be opened is left to the next
  start. `readError` fails repair's look at an output that is there (stat, open or read):
  `repairOne` does not tell this from a damaged output.

`MissionOutcome` is what all of this promises to a client, in three actions: one
terminal event is told, the row settles on what was told, a removal is not undone.
`ImplementsOutcome` states that `Finalize` implements it, with `seen`, the API's view
of the status and `db.result` for its variables.

`MCFinalize` instantiates it for TLC.

`FinalizeProofs`, `OutcomeProofs` and `ReplayProofs` hold its proofs.

### LaneRunner

One lane: who claims a mission, who may stop it, and how the lane is reconfigured and
shut down meanwhile.

| Variable | Stands for |
|---|---|
| `row[m]` | status of the mission, and why it ended |
| `run[m]` | its goroutine in `Runtime.spawn` and `mission.Run`: program counter, the runner it belongs to, the reason the process was told to end |
| `kch[m]` | its kill channel: unregistered, empty, or the one buffered reason |
| `runner[g]` | the g-th `Runner` ever started for the lane: loop, flags, limit, count of slots, the two one-element channels; `gate` (history) is the limit the last pickup was checked against |
| `lane` | applied configuration, the managed runner, the manager's mutex, the holder of the writer lock |
| `request[m]`, `api[m]` | dispatch, exec or restart request that creates m; kill request for m |
| `admin` | apply, pause or continue handler (`applyMu` admits one at a time) |
| `coord`, `errors` | shutdown coordinator; failures so far |
| `env` | what may happen around the lane in this behaviour, see Bounds |

Decisions worth knowing:

* A pickup is one transaction; the registration of the kill channel is the next step.
  The decision to wait and the wait are two steps, so a signal can fall in between.
* A dispatch holds the writer lock from `BEGIN IMMEDIATE` to its commit, because its
  transaction asks the manager. Other transactions are single steps.
* Dispatch re-checks the lane in its transaction; exec dispatch and restart
  (`env.execs`, `env.restarts`) do not, and restart looks at the configuration only.
* `busy_timeout` is `PickBusy`: a loop that finds the lock taken may give up. Without
  it the circular wait of mutex, loop and writer would be a deadlock.
* The pause is stored with its origin. `legacy` is a pause stored without one.
* `Finalize` is one step here; its detail is the module of that name. A failing one
  leaves a running row behind, as the code does.

`MCLaneRunner` instantiates it, and `LaneRunnerProofs` holds the proofs.

### EventsFile

The events file of one mission, byte tears included, from its writers to the callback
of a client that follows it.

| Variable | Stands for |
|---|---|
| `file`, `linked`, `synced` | the lines of the file (a torn one is junk, or lacks its newline), whether it still has its name, and how many lines are durable |
| `db`, `wal` | the row and the intent; the database states a power loss may leave |
| `daemon` | down, a phase of the start-up repair, or up |
| `w` | the `eventfile.Writer` of the job that writes (the running mission, the finalizer, the repair, the terminal sweep), the line it is writing and how much of it has landed |
| `stream` | the handler's `eventfile.Stream` on the client's connection |
| `client` | `lettsclient.StreamEvents`: its cursor, its idle streak, and `got` (history), what the callback was handed |
| `may`, `faults` | the faults of this behaviour, and how many there have been |

Every line is written in two steps, so that a failing or interrupted write leaves
nothing, a fragment, or a line without its newline. The tail scan that a writer does
when it opens the file, the newline it adds to a torn tail, and the sequence number it
continues with are modelled as the code computes them. The wire is left out: a line
sent on a connection that breaks is, to a client that resumes from its cursor, a line
that was never sent. One that breaks inside a line is not: the client's scanner hands
over the half line, which does not decode, and `StreamEvents` gives up. `MCEventsFile` instantiates it, and `EventsFileProofs` holds the
proofs.

### Staging

One staging file from upload to removal.

| Variable | Stands for |
|---|---|
| `row` | the `staging_files` row; `exp` says where its expiry lies (ahead, over, `MaxInt64`, or the 0 of the trigger) |
| `disk` | inodes as sequences of blocks, and which of them the file's name and its tombstone denote |
| `puts` | the PUT handlers in order of arrival: position, running hash, open inode, answer |
| `lock` | `UploadLock`: the entry of the id, and the idle callbacks that are still to run |
| `client` | `UploadFile` and `doStagingPut`: probe, attempts, offset, where the body stands |
| `mission`, `gc`, `del`, `get`, `scan` | a mission that uses the file; the collector's pass; a DELETE; a GET; the disk scanner |

Two names matter and both are in the model: a handler writes to the *inode* it opened,
while discard, collector and scanner go by the *name*. A sha256 is the sequence of
blocks that was hashed, so a hash over the wrong bytes differs and one over the right
bytes does not. The lock's release drops the entry of the id whoever holds it, as in
the code. The disk scanner looks for the row (`ScanFinds`) and removes the file
(`ScanRemoves`) in two steps, and any file may be old enough for it; `scan.robbed`
(history) notes that it took the file of a row that came in between.

`MCStaging` instantiates it, and `StagingProofs` holds the proofs.

### Dispatch

The three ways to create a mission, and the clients that retry them.

| Variable | Stands for |
|---|---|
| `rows`, `events` | missions and events files by key; a file knows which handler made it |
| `lock` | the two `KeyMutex`es, one per endpoint |
| `h` | handlers by client and attempt: program counter, whether the client has gone, the answer |
| `client` | `stickyRetry`: the attempt, and what it has concluded |
| `lane`, `input`, `daemon` | the lane as dispatch sees it; the staging file requests refer to; up, draining, over quota, and the files it failed to remove |

Gates, replay, fingerprints and the order of their checks differ between the
endpoints, and the model keeps the differences: a mission locks its key before it
resolves inputs and falls back to the stored row when one is gone, an exec resolves
first and refuses; only a mission has the soft queue limit and looks at the lane again
in its transaction; a restart has neither gate nor key. `DispatchProofs` holds the
proofs.

### Supervise

One process, from the preparation of its work directory to the result handed to
Finalize.

| Variable | Stands for |
|---|---|
| `proc`, `desc` | the process with its pending signals and (history) what it has written so far, and a descendant that has inherited its pipes |
| `fd3`, `pipes` | the lines in the fd 3 pipe; the pipes of stdout and stderr |
| `out` | what is kept of each stream, the shared budget, and the matcher for out-of-memory messages |
| `reader`, `progress`, `writer` | `ReadFd3` with its state, the bounded progress channel, and the writer with its token bucket |
| `watch`, `kill` | the watchers for timeout, kill channel and context inside `killProcess`; the decided reason and the signals sent |
| `main`, `done` | `Run` or `runExec` itself; what Finalize was given |

`Compute` and `DeriveExecOutcome` are operators over what a run leaves; the properties
restate them from the process's side (what it wrote, how it left, who killed it), not
from the order of the tests in the code. A process is an element of `Environments`: a
list of operations (lines on fd 3, output) and how it ends or resists. `MCSupervise`
lists those of the runs; `SuperviseProofs` holds the proofs, for every process.

Two timers of dugdale race its own goroutines: `WaitDelay`, after which cmd.Wait closes
the pipes of stdout and stderr, and the join timer of the fd 3 reader. Both are
`reader_post_exit_grace`, 5s by default, and fire whatever is left to read. An
environment says whether that happens (`"slow"`): with it a timer may fire over unread
bytes and lines, without it dugdale reads what is there within the grace. Properties
that need the second say so. `WaitReturned` is the closing of `processExited`, which
comes when cmd.Wait returns, later than the exit and the reaping of the process.

### Command

One invocation of `letts` on one or more daemons.

| Variable | Stands for |
|---|---|
| `env` | the invocation: command, hosts, aliases, output keys, deadlines, what may fail |
| `remote`, `acted` | the missions on the daemons; where a mutation was carried out |
| `task`, `late` | the goroutine per target, and the targets whose deadline has passed |
| `main` | the main goroutine: which loop it is in, the exit code and why |
| `files`, `tmps` | destinations and sidecar files of downloads |

The daemon appears only as far as a client can tell: a mission runs and ends, a request
is refused or its answer lost, a stream breaks, a row vanishes, a body stalls for ever
(`StallTask`, `StallMain`: the client has no timeout of its own, and a deadline covers
only the stream). Wording, tables and JSON output are left out.

## Runs

Closely related invariants are checked as one: `FinalizeInv`, `StoryInv`, `LaneInv`,
`EventsInv`, `StagingInv`, `DispatchInv`, `CommandInv`, `SuperviseInv` (and
`OutputFilesMatchRows`, `Delivery`, `ExitCodeIsTrue`, `ByIdIsCertain`,
`OutcomeIsEarned`, `KillIsTrue`) are conjunctions of definitions that each have a
comment of their own.

| Run | Instance | Shows |
|---|---|---|
| `finalize_faults` | 2 outputs, 2 kill requests, 3 crashes; failing system calls and transactions, unreadable outputs, disconnects, damaged files | both inductive invariants: row and stream never disagree, one story for all readers, no Phase B row without an intent, the cleaner never meets a finalize; only verified content becomes complete |
| `finalize_restart` | the same size; crashes, disconnects and lost events files, every system call works | replay is exact: no conflicting done event, no run after a published outcome, committed files exist, no stranded `.tmp`, every done row has its done event; refinement of `MissionOutcome` |
| `finalize_live` | 1 output, 1 kill request, 2 crashes or power losses, fair | intents drain or their conflict is flagged, deleting rows go, interrupted missions are resolved |
| `lane_safe` | `Safety`: 3 queued missions and 2 resizes, pauses or continues; removal and re-creation with an exec dispatch and a failing prune; kills against a force-prune; every stored pause with 3 requests | the inductive invariant: slots within the limit, one claim per mission, running rows can be signalled; the operator's pause holds; runner and configuration agree when a request returns, but for one roll-back |
| `lane_live` | `Endings`: a resize, a kill, a pause or continue, without the 30s timers; failing pickups and dispatches with them; prunes against dispatches that hold the writer lock; 2 signals against a request, a restart, a failing finalize; fair | no lost wake-up; an accepted kill ends its mission; every administrative request returns; the second signal ends the daemon; no pickup after the acknowledgement of a removal |
| `events_follow` | 1 progress event, 2 faults out of five sets (torn writes, crashes, power losses, a lost file, breaking connections, a deletion), a client from the start or from behind the end; fair | sequence numbers increase, the done events tell one outcome, and unless lines were lost there is one, readable before the row is done; the callback gets every event once and in order; no false alarm about a missing done event; every follower returns, but for one of a mission deleted before it ran |
| `staging_upload` | 2 blocks, ten environments: one or two clients, with retries, resumes, aborts, failing database calls, restarts, a mission, a delete, a download, leftovers that the scanner meets; fair | unless janitor or scanner intrude on an upload: a complete row describes the bytes on disk, a live mission keeps its input, a download is what its header says; nothing is kept for ever |
| `staging_v_rewind` | two clients, broken connections | **violation**, see Findings |
| `dispatch_keys` | 3 attempts, 3 faults, twelve environments: one client, two on one key, a full queue, restarts; fair | every row has its stream and no stream is orphaned; a queued mission has its input; the answer is about the asked-for mission; a retry is not refused for what has changed since; clients end |
| `supervise_run` | every fd 3 conversation of at most three events with exit code 0 and 1, and about thirty processes that are killed, resist, leave descendants, overflow or lose their disk, some under a slow dugdale; fair | success exactly for clean runs; the first offence is named; the kill recorded is the kill reported, decided once and before cmd.Wait returns; nothing left running; outputs all or none; progress accounted for; truncation marked; Run ends |
| `supervise_v_fail` | a mission with a fail event and exit code 0, and a shutdown | **violation**, see Findings |
| `command_end` | nineteen invocations; fair | exit code 0 keeps its promise and every other one is true; downloads of an exec all or none, old files kept, of a run only verified bytes; a mutation hits one owner, "not found" is certain; the command ends unless a transfer stalls |

### Bounds

*Finalize.* Two outputs tell "all", "some" and "none renamed" apart, and a failing
second rename from a failing first. Two kill requests race each other and the pickup.
Three crashes let a repair be interrupted, and the repair of that. `MaxCrashes` is the only
bound on behaviours.

*Environments.* A behaviour of the other modules has one *environment* (the variable
`env`, or `may` in `EventsFile`; it never changes): which missions, requests, processes,
faults and signals there are. A run explores a list of them, so that each kind of
request meets the rest in an instance small enough to be explored completely; what is
in different environments does not meet. The lists are in the MC modules, with a
comment on what each is for.

*LaneRunner.* Two missions and limits 1 and 2 tell a full lane from one with a free
slot, and three let a shrunk lane hold more than its limit. `MaxAdmin` bounds the
requests, and with them the runners: three cover remove, add again and change.

*EventsFile.* `MaxFaults` 2: a fault, and another while the first is repaired.
`EventsBuffer` 1 and `MaxProgress` 1 reach the limit and let it matter.

*Staging.* Two blocks tell an empty, a partial and a whole file apart. Two or three
requests let a retry, a resume and a rival overlap; two rows let a file be uploaded
again after its removal. `env.faults` bounds the faults of a behaviour, two or, where a
mission and a delete meet two clients, one.

*Dispatch.* Three attempts: one that is served and lost, one that meets its traces, and
one more. The queue limit is 1 where it is to be met.

*Supervise.* Budgets and caps of 1 to 3 units: each is exceeded by some environment.

*Command.* Two hosts tell "all", "some" and "none" apart; three let one own the id, one
not, and one be unreachable.

The deadlock check is off in all but `Supervise` and `Command`: a mission that is gone,
an idle lane, a finished client have no step left. There, the end is a step of its own
(`main.pc` at its last value), and everything else that stops is a deadlock.

### Fairness

Goroutines, handlers, tickers and timers of a living daemon are weakly fair, because
the Go scheduler runs them; a dead daemon is started again by the service manager.
Requests, the mission's own decisions, signals and faults are never assumed. In
particular:

* *Finalize*: each goroutine inside the finalize code, the start-up sequence, the
  cleaner and the DELETE handler. `finalize_live` has no client disconnects; with them
  draining fails (see below).
* *LaneRunner*: a process that was told to end does so (SIGKILL after the grace
  period); a process left alone may run for ever. The 30s timers of the two waits are
  fair only where the environment says `timers`: elsewhere they would hide a lost
  signal.
* *EventsFile*: finalizer, repair, handler and client.
* *Staging*: clients, handlers, collector, scanner and the clock; strong fairness for
  the unlinking of an old tombstone, which happens in some pass of a collector that may
  find it too young in any other.
* *Dispatch*: clients, handlers, restart of the daemon. Missions need not run.
* *Supervise*: the goroutines of Run, its timers, and delivery of SIGKILL; the process
  writes and exits only if it wants to.
* *Command*: the command and its timers; a request that does not stall is answered or
  fails. A daemon delivers the done event only to commands without a deadline.

## Findings

Two runs end with a violation, each of a statement of the repository:

* `staging_v_rewind`. `doStagingPut` rewinds the body to the start of the *file* before
  every retry, also when it resumes an upload whose body begins at an offset. The retry
  sends the wrong bytes under the range of the suffix; the daemon finds a different hash
  and discards a good partial file. The README calls uploads resumable.
* `supervise_v_fail`. `ReadFd3` looks at the context before each line. When it is
  cancelled after the process has left and before its lines were read, nothing is
  killed, the lines are dropped, and a mission that sent its `fail` event and exited
  with 0 is recorded as a success. The comment of `ReadFd3` says that the state is fully
  populated on return.

### Further statements the code does not keep

These have no run. Each is a definition in the named module, refuted by TLC in the
instance that the definition's comment, or the MC module, names.

Finalize:

* `NoTerminalConflict` with power losses. The README says repair replays an interrupted
  finalize exactly. The database runs with `synchronous=NORMAL`: a power loss can lose
  the intent and keep the fsynced done event. Repair then finalizes the mission as lost
  and meets the conflict; it raises the readyz flag, the other end that `IntentDrains`
  allows.
* `NoTerminalConflict` with `readError`. `repairOne` takes an output that it cannot stat,
  open or read for a corrupt one and reverts the intent (`repair/intents.go:102`, `:137`).
  If the done event of the success is public already, the revert meets the conflict.
* `AckedDeletionHolds`: DELETE answers 202 even if its UPDATE changed nothing because
  the mission was picked up in between.
* `OutputTTLSettled`: the expiry of an output is recalculated after the final
  transaction; a crash in between leaves the 24h value, and no sweep looks for it.
* `DeletingDrains` with `disconnect` among the faults: a kill request that its client
  abandons between intent and commit leaves the intent until the next start.

LaneRunner (`OneSignal`, `OneForcePrune`, `FailingPause` and `Deviations` in
`MCLaneRunner`):

* `DoneMeansFinalized`: the drain counts registered kill channels; a loop between pickup
  and registration has none. The daemon ends with a running mission, which the next
  start calls lost.
* `NoOrphanedQueued`: a dispatch that asked inside its transaction commits after the
  force-prune has listed the queue. The mission stays queued in no lane.
* `RollBackIsCoherent`: when the configuration cannot be written, `PauseLane` continues the
  lane (`handlers/admin.go:173`), also one that was paused before; so does `ContinueLane`
  the other way round. `PauseMatchesConfig` names this exception.
* `DrainStaysPaused`: apply and continue are served during the drain and resume lanes.
* `ShutdownReasonMeansShutdown`: stopping a removed lane cancels its missions' context,
  and they may report the daemon's shutdown instead of the lane's removal.
* `LaneCap`: a lane removed and added again counts from zero while old missions end.
* `KillFindsChannel`: a kill between pickup and registration still fails.
* `PausedLaneIdles`: the loop of a paused lane is started before it is paused.
* `PruneRefusesActive`: a dispatch commits between prune's check and the removal.
* `LegacyPauseHolds`: a partial apply turns a legacy pause into one of the file's.

EventsFile:

* `FollowEnds` without `Orphaned`. DELETE of a queued mission writes no done event
  (`missions_delete.go:54`); a handler that follows its file polls it after the cleaner has
  unlinked it, never looks at the row again (`reader.go:118`), and its client waits as long
  as the connection holds. The property names this exception.
* A connection that breaks inside a line ends `StreamEvents` with a decode error
  (`lettsclient/events.go:188`), where one that breaks between lines is resumed.

Staging: `StagingInv`, `InputsSurvive` and `ServedIsContent` are stated for behaviours
without two intruders (`NoIntruder`).

* The janitor takes the lock from a handler that still runs. A second PUT can then acquire
  the id while the first hashes a long prefix or waits in fsync, and both append; and the
  second can discard what the first has completed and a mission has begun to use. The read
  deadline makes this rare, not impossible.
* The disk scanner finds no row for an old file, an upload of that id begins, and the
  scanner removes the file (`disk_scan.go:178`). The upload completes without it, and a
  mission may be dispatched with an input that is not there: `ScannerTakesLeftovers` in
  `MCStaging`.

`MarkStagingDeleting` may fail in a discard, whose error is ignored: the row then stays
`uploading` without its file until it expires. This breaks no property.

Dispatch (`Hiccup` and `Shutdown` in `MCDispatch`):

* `TrustedIsUndispatchable`: a failing query of an input is taken for an input that is
  gone, so a request for other work may be answered with the row of the key.
* `RefusedMeansNotCreated`: the drain and quota gates come before the replay, so a retry
  of a mission that exists gets a code the client takes for "not created".
* `TwoEndpoints` (in `MCDispatch`): a key that is used at both endpoints at once. Each
  endpoint has a mutex of its own, both find no row, and the one whose insert fails
  removes the events file of the other. Hence `KeysApart` in the proofs; no client of the
  repository sends one key to both.
* A query of an input that fails inside the transaction of a dispatch is taken for an input
  that is gone, too, and answered 400 (`TakenForGone`): a request that could be retried is
  called bad. No row is left, so `BadMeansNoMission` holds.
* `BadMeansNoMission` is stated for missions. An exec resolves its inputs before it looks
  for its row: a retry after the input has expired is refused although the exec exists.

Supervise: `ReapedIsLeftAlone` (in `MCSupervise`). The guard of `killProcess`
(`waiter.go:216`) is there to leave a reaped process alone, but looks at `processExited`,
which is closed when cmd.Wait returns. While Wait still drains pipes that a descendant
holds, a timeout, a kill or a shutdown relabels a process that left by itself.
`KillIsTrue` therefore speaks of cmd.Wait, not of the exit.

Command (in `MCCommand`):

* `CleanExecSucceeds`, in `Twice`, fails when two host names are aliases of one daemon,
  because both write the same destination.
* `TransportCodeIsEarly`: the README says that 255 comes before any terminal outcome. An
  exec whose mission has succeeded ends with 255 if an output cannot be downloaded
  (`exec.go:463`). `ExitCodeIsTrue` keeps the two meanings apart.
* `DeadlineEndsCommand`: uploads, dispatches and downloads do not belong to the context of
  the deadline, and the client has no timeout of its own. A daemon that stops in the middle
  of a body holds the command for ever. `CommandEnds` names this exception.
* An exec does not compare downloaded bytes with the done event, as a run does, so
  `ZeroMeansDone` promises verified content of a run only (`Delivered`).
* A malformed `--output-file` of a run is found only after the mission has ended (`Malformed`).

## Proofs

### Finalize

`FinalizeProofs` proves, for every set of outputs, any number of concurrent kill
requests, every set of faults and every number of crashes:

* `Invariance`: `FinalizeInv` is an invariant;
* `TypeCorrect`, `StreamAgrees`, `PhaseBTracked`, `CleanerExcluded`: the type
  invariant, `StreamAgreesWithRow`, `PhaseBRowsTracked` and
  `CleanerNeverRacesFinalize`;
* `DoneIsFinal` and `DeletionHolds`: the action properties `DoneNeverRewritten` and,
  assuming no power loss, `DeletionIsFinal`.

The only assumption is `ConstantsOK`: the goroutine names are distinct and `None` is
neither an event nor an intent.

`StreamAgreesWithRow` is not inductive. What makes it so (`FinalizeInv`) is ownership:
`OneOwner` (at most one goroutine is between pickup and intent, and then the row is
running without an intent), `OneFinalizer` (at most one goroutine is between intent
and commit, and it carries the stored event and outputs), `BootAlone` (before the
listener opens only the repair works), `CleanerOwnsRow`, and `RowsConsistent` for both
`db` and `durable`, because a power loss turns one into the other. Most steps change
neither roles nor row: lemma `Frame` covers them once, and each has a short lemma that
shows it is of that kind. The others (pickup, Phase A2 and B1, revert, append, commit,
kill, deletion, repair, checkpoint, death) are proved conjunct by conjunct.

### The outcome

`OutcomeProofs` proves, for every set of outputs, any number of kill requests and of
crashes, with failing system calls, failing transactions, damaged outputs and
disconnecting clients, but under `NothingLost` (neither a power loss nor the loss of an
events file takes back what was told):

* `StoryInvariance`: `StoryInv` is an invariant;
* `StoryIsOne`: `OneStory`, no two readers are told different outcomes;
* `NeverRunsAgain`: `NeverRunsAfterDone`;
* `Refinement`: `ImplementsOutcome`, that is, `Finalize` implements `MissionOutcome`.

`OneStory` alone is not inductive: it has to be known that what was told is still in the
stream, where `AppendDoneIdempotent` finds it, or that nobody is left who could tell
something else; that whoever is about to commit carries an event that was told; and that
a mission which may still be run has told nothing. `StoryInv` adds these to
`FinalizeInv`. `StepKinds` divides the steps into those that change nothing a client can
see (`UntoldStory` covers all of them) and nine that may: the append of the done event,
the two commits, the two marks for deletion, the cleaner's removal of files and row, and
the two passes of the start-up over streams. The
refinement is proved along the same cases: the append is `Publish`, a commit is
`Settle`, the mark for deletion is `Remove`, and the rest stutters.

`NothingLost` is needed: with a power loss the conflict described under Findings occurs.
With lost events files `finalize_restart` finds the refinement to hold on its instance,
because the intent rebuilds the file.

Two more theorems have other conditions:

* `DoneRowsAreTold`: `DoneRowHasDoneEvent`, if every system call works (`AllCallsWork`;
  power losses, damaged and lost files are allowed) or under `NothingLost`. Its
  invariant `Told` says that who is about to commit has its event in the stream, and
  that from the end of the start-up pass over done rows on every done row has one.
* `OutputsIntact`: the action property `CommittedOutputsIntact`, without power losses.
  Files are damaged while the daemon is down, so `IntactInv` says of every goroutine
  that what it has written, renamed or verified in this life is whole.

### Exact replay

`ReplayProofs` proves, without power losses and without outputs that are damaged or cannot
be read when repair looks at them (`NoDamage`), but with crashes, failing writes, renames
and transactions, disconnects and lost events files:

* `ReplayInvariance`: `ReplayInv` is an invariant. An output has one copy, `.tmp` or
  final; a row in Phase B has its file; every goroutine has renamed exactly what its
  program counter says; the public event is the one of the stored intent;
* `NoConflict`: `NoTerminalConflict`, the readyz flag is never raised. Each of the three
  conditions is needed: with any of the faults TLC finds a conflict;
* `FilesMatchRows`: `OutputFilesMatchRows`, if every system call works. For this,
  `TmpTracked` (theorem `TmpInvariance`): a `.tmp` file without a row belongs to the
  goroutine that is about to write the row, or waits for the sweep of a start.

### LaneRunner

`LaneRunnerProofs` proves, for every set of missions and of limits, every set of
environments (that is: every mix of requests, kills, faults and signals) and every
`MaxAdmin`:

* `LaneInvariance`: `LaneInv` is an invariant;
* `LaneTypes`, `SlotsAreBounded`, `ClaimedOnce`: `TypeOK`, `SlotsBounded`, `OneClaim`;
* `RunningRowsAreLive`: `RunningIsLive`, in environments without `finalizeError` (an
  outcome that cannot be stored leaves a running row behind, so the assumption is
  needed);
* `RemovalStopsPickup` and `OperatorsPauseHolds`: the action properties
  `AckStopsPickup` and `OperatorPauseHolds`;
* `PauseAgrees`: `PauseMatchesConfig`, also where writes of the configuration fail.

The assumption is `LaneConstantsOK`: missions and limits are positive numbers,
`MaxAdmin` is a number, environments are well-formed.

`LaneInv` has five parts besides the types. `Generations`: runners are numbered in the
order of their start, so the one that is started next has not run (and there is a
number left for it). `Claims`: a mission is in the hands of nobody, of one loop, or of
its goroutine, which is `OneClaim` with the rows that a claim starts from. `Slots`: a
runner's counter equals the number of goroutines that will release one of its slots;
without this equation the bound would not survive a release. `Channels`: the kill
channel outlives the goroutine, and a running row has somebody who works on it.
`Removal`: a loop that is not the managed one is cancelled, and an acknowledged loop
never returns to its head; together they leave nobody who could pick.

The parts look at few of the variables, and most of the actions are the same to them.
`StepKinds` shows that every step is of one of twelve kinds (`Kinds`: a loop moved, a
mission was claimed, registered, moved on, stored, released, unregistered, requested,
inserted, ended in the queue, flags changed, a runner started), and each part is proved
once per kind.

`PauseAgrees` has an inductive invariant of its own, `PauseInOrder`: pause, continue and
apply each change runner and configuration in two steps, and whoever stands between the
two finds the other half as the request before has left it, because `applyMu` admits one
request at a time and the shutdown coordinator, which pauses runners only, has not begun.
Each request makes the two agree when it returns, also if they were apart before.

### Dispatch

`DispatchProofs` proves, for any clients, requests, numbers of attempts and faults:

* `DispatchIsConsistent`: `DispatchIInv` is an invariant;
* `RowsHaveStreams`: `DispatchInv` (a row has its stream, no stream is orphaned, a queued
  mission has its input);
* `BadIsCertain`: `BadMeansNoMission`;
* `AnswersAreOurs`: `AnswerIsOurs`.

The assumptions are `DispatchConstantsOK` (requests are well-formed) and `KeysApart`: no
key is used at both endpoints, and the id of a restart, which the daemon draws, by nobody
else. The second is needed, see Findings.

`DispatchIInv` adds three facts. `Attempted`: attempts are made in order, an attempt
that was not made has no handler, and a daemon that is down serves nobody. `FreshIds`:
before a restart is sent nothing has the id that will be drawn for it. `HandlerOK`, of
each handler: while it may create the mission of its key it holds the key's mutex and
there is no row; a file it has created is in its hands until it inserts the row or
removes the file; an answer that names a mission by its fingerprint names the one that
was asked for.

### Staging

`StagingProofs` proves, for every file size, any clients, contents, numbers of requests and rows, and every set of faults:

* `StagingIsConsistent`: `StagingInv`, in particular `CompleteMeansContent`;
* `InputsAreKept`: `InputsSurvive`;
* `ServedIsWhole`: `ServedIsContent`.

The three properties are stated for behaviours in which the janitor has evicted nobody
and the scanner has robbed nobody (`NoIntruder`, see Findings). The assumption is `StagingConstantsOK`: sizes are positive, environments
well-formed.

The inductive invariant is `StagingIInv`. `HandlersInOrder`: handlers, clients and inodes
are within their bounds. `OneHandler`: the upload lock is with the one handler that is
past its acquisition. `UploadInOrder`: while the row is uploading, the name denotes the
inode that handler has open, and the inode holds what it has hashed; nobody writes for a
complete row. `CollectorInOrder`: the collector is past its choice, or a tombstone
exists, only for a row that is being deleted. `InputsForever`: the row a mission
refers to never expires. `DownloadInOrder`: between the look at a complete row and the
open the file is there under one of its two names, and the inode that is served is whole
and is written no more.

### EventsFile

`EventsFileProofs` proves, for any number of progress events, every limit of the buffer,
any position a client asks for, every set of faults and any number of them:

* `EventsCorrect`: `EventsInv`;
* `DeliveryCorrect`: `Delivery`;
* `AlarmIsTrue`: `NoFalseAlarm`;
* `FinishedLinesStay`: a step leaves every line that has its newline where it is, as long
  as nothing is lost. This one is stated in the theorem, and no run checks it.

The assumption is `EventsConstantsOK`: limits and positions are numbers, faults are those
of the model, and `None` is neither an intent nor an outcome.

`EventsIInv` is the inductive invariant. `InOrder`: only the last line may lack its
newline, and a line that lacks nothing else has its place in the order too; otherwise the
newline that the next writer adds could bring a seq back. `WriterInOrder`: a writer that
may append has either found the file whole or knows that it is torn, and its counter is
not behind the file. `JobInOrder` and `RowInOrder`: whoever writes a done event repeats
the outcome of the intent or the row, in every state of the database that a power loss
may bring back. `NothingMissing`: unless lines are lost, a final row has its done event,
with its newline. `StreamInOrder` and `CursorInOrder`: a stream has passed nothing that
its client has not got, and the cursor stands on an event; so a resumed stream neither
skips nor repeats. `AlarmInOrder`: a client that has seen the row done then reads a file
in which nothing more will be written.

The file grows without bound, and `LastSeqOf` is the greatest seq in it. That there is a
greatest one is induction over data, which the provers do not have; `Bounded`, the
statement for files of the present length, is carried along the behaviour instead, since
a step adds at most one line.

Two conditions were found necessary by the proof, in behaviours with more faults than the
run allows, and TLC confirms both. `OneDone` counts done events only if nothing was lost:
the pass over done rows does not see its own done event when that tears at the newline,
and appends an equal one. `NoFalseAlarm` is stated for the same behaviours: an events
file that was lost may be rebuilt, with a done event of a higher seq than the cursor of a
client that is about to report its absence.

### Supervise

`SuperviseProofs` proves for every process (any list of operations and any end), all
limits and every interleaving of `Run`, its watchers, readers and writers:

* `OutcomeIsAlwaysEarned`: `OutcomeIsEarned`. A run that was not disturbed is a success,
  and has a return value, exactly when its lines and its exit say so; otherwise the
  reason is the one of the first offence; outputs are handed over all or none;
* `KillIsAlwaysTrue`: `KillIsTrue`. The first kill stands, none is recorded once cmd.Wait
  has returned, and the result reports the recorded one and no other;
* `ProgressIsAccounted`: `ProgressAccounted`, unless the join timer overtakes the reader;
* `NothingIsLeftRunning`: `SuperviseInv`.

The assumption is `LimitsAssumption`: limits are numbers, the two that the code never
lets be zero are positive, and an environment is a process.

The argument (`SuperviseIInv`) goes by who may still act. `RunInOrder` ties `Run`'s
program counter to the goroutines it has started and joined. `KillInOrder`: a watcher
that is past the lock has given its reason, and had one. `LinesInOrder`: what is left in
the fd 3 pipe is the end of what the process has written, and the reader has made of the
lines before it what the properties demand: the final event it keeps is the first, so is
the violation, and every progress line is counted in exactly one of four places. It
speaks of positions in the list of lines, so a step that reads one more line needs no
induction over the list. `OutputInOrder` says the same of the out-of-memory matcher and
stderr. `ResultInOrder`: what Finalize got is `Compute` of the final state, or the failure
to collect a declared file. `SuccessIsClean`, `OffenceIsNamed`, `KillReported` and
`ProgressCounted` then restate the result from the process's side.

### Only model-checked

* Liveness, which is out of the prover's reach: `IntentDrains`, `DeletingDrains`,
  `LostIsResolved`, `AggressiveConverges`, `NoLostWakeup`, `DeliveredKillEnds`,
  `ApplyReturns`, `FollowEnds`, `Reclaimed`, `ClientsEnd`, `CommandEnds`, `RunEnds`.
* The refinement of `MissionOutcome` with lost events files.
* `Command`. What a command does with its targets is a plan, put together from sequences
  of any length (`SelectSeq`, `FlattenSeq`); theorems about it need induction over data,
  which the installed provers do not have.

## Not modelled

* Parsing and validation of configuration, flags, request bodies and selectors, beyond
  "valid or not": sequential code without shared state.
* Formatting, wording, tables, colours, logging, metrics, audit lines.
* Authentication, the failure limiter and the rest of the middleware: they filter single
  requests, and nothing else reads their state.
* Read-only handlers (inspect, list, logs, health): each reads one snapshot. Reads
  another step later acts on are modelled.
* The canonical JSON encoder behind fingerprints, which are abstracted to what they
  distinguish; JSON syntax of fd 3 lines, which are abstracted to their kinds.
* The kill of a process group left by an earlier life (`SweepRunningToLost`), the
  data-directory lock, process creation and environment: calls of the kernel.
* Migrations, vacuum, cursors and paging of storage: single SQL statements.
* Batch sizes, grace periods and clocks: a question about time is nondeterministic, with
  two exceptions. Whether dugdale reads its pipes within `reader_post_exit_grace` is a
  parameter (`"slow"` in `Supervise`), and an old tombstone outlasts the moment between the
  two steps of a GET (`UnlinkTombstone` in `Staging`).
* Several lanes at once: lanes share the manager's mutex and the writer lock, both of
  which one lane already contends for.
* The fake daemon of the integration tests.
