----------------------------- MODULE Supervise -----------------------------
(* The supervision of one process by internal/mission: Run for a mission (waiter.go)   *)
(* and runExec for an exec (exec_runtime.go), from the preparation of the work         *)
(* directory to the result handed to Finalize.  The process, a descendant that has     *)
(* inherited its pipes, the goroutines that copy its output, the reader and the writer *)
(* of its fd3 events, three watchers that may kill it, and Run itself interleave.      *)
EXTENDS Integers, Sequences, FiniteSets

CONSTANTS
    Keys,                    \* the keys of output files
    MaxRecordedViolations,   \* 32 in the code
    MaxOutputFiles,          \* max_output_files_per_mission; 0 is no cap
    ProgressSlots,           \* the capacity of progressCh
    MaxProgressRate,         \* tokens in a second; 0 is no limit
    MaxOutputBuffer,         \* the budget that stdout and stderr share
    Environments             \* [kind, ops, forever, code, sig, term, desc, late,
                             \* timeout, kills, keys, may]

None == "none"
Streams == {"stdout", "stderr"}
Watchers == {"timeout", "api", "ctx"}
SignalNames == {"KILL", "TERM", "INT", "QUIT", "HUP", "PIPE", "SEGV", "BUS", "ILL", "FPE", "TRAP", "ABRT"}
KillReasons == {"killed_by_api", "lane_removed", "force_delete"}

\* A line on fd3, and a piece of output: the halves of the memory marker, a newline, or
\* anything else.
Fd3Line == [event : {"output_file"}, key : Keys]
           \cup [event : {"progress", "success", "fail", "malformed", "oversized"}, key : {None}]
Token == {"m1", "m2", "nl", "x"}

\* What a process may be: an exec has no fd3.
Environment ==
    {e \in [kind : {"mission", "exec"}, ops : Seq([to : {"fd3"}, line : Fd3Line] \cup [to : Streams, line : Token]),
            forever : BOOLEAN, code : Nat, sig : SignalNames \cup {None}, term : {"die", "exit", "ignore"},
            desc : {None, "group", "escaped"}, late : Seq(Fd3Line), timeout : BOOLEAN,
            kills : SUBSET KillReasons, keys : SUBSET Keys,
            may : SUBSET {"spawn", "events", "shutdown", "disk", "append", "files", "state", "slow"}] :
        e.kind = "exec" => e.late = <<>> /\ \A i \in DOMAIN e.ops : e.ops[i].to # "fd3"}

ASSUME LimitsAssumption ==
    /\ {MaxOutputFiles, MaxProgressRate, MaxOutputBuffer} \subseteq Nat
    /\ {MaxRecordedViolations, ProgressSlots} \subseteq Nat \ {0}
    /\ \A e \in Environments : e \in Environment

VARIABLES
    env,       \* the process and its surroundings: constant
    proc,      \* [st, at, code, sig, pending, wrote]: the process, at is the operations it
               \* has done, wrote what it has written
    desc,      \* [st, at]: the descendant
    fd3,       \* the lines in the fd3 pipe
    pipes,     \* [stream -> [buf, open]]: the pipes of os/exec
    out,       \* [stream -> [kept, taken, trunc]] and oom: the captured output
    reader,    \* [pc, final, viol, outs, drops]: the fd3 reader and its Fd3State
    progress,  \* [queued, closed]: progressCh
    writer,    \* [pc, tokens, appended, dropped]: the fd3 writer
    watch,     \* [watcher -> its program counter]
    kill,      \* [reason, chan, cancelled, sent]: killReason, killCh, ctx, the signals sent
    main,      \* [pc, todo, tmps, result]: Run itself
    done       \* what Finalize was given

vars == <<env, proc, desc, fd3, pipes, out, reader, progress, writer, watch, kill, main, done>>
goroutines == <<reader, progress, writer>>
May(f) == f \in env.may
IsMission == env.kind = "mission"
\* processExited is closed: not when the process exits, but when cmd.Wait has returned.
WaitReturned == main.pc \notin {"prep", "open", "abort", "wait"}

Result(outcome, reason, ret) == [outcome |-> outcome, reason |-> reason, ret |-> ret]
NoResult == Result(None, None, None)

-----------------------------------------------------------------------------
(* Before the process starts: the reasons for which each step may end the mission. *)

crashedReasonFromOS(reason) == {reason, "disk_quota_exceeded"}
ResolveCommand == {"mission_not_found", "mission_not_in_dir", "spawn_failed"}
LoadInputs == {"input_materialization_failed"}
PrepareWorkdir == crashedReasonFromOS("input_materialization_failed")
PrepareExecWorkdir == crashedReasonFromOS("input_materialization_failed")
OpenOutputs == crashedReasonFromOS("spawn_failed")
writeStdinEnvelope == crashedReasonFromOS("spawn_failed")
SpawnFailures ==
    IF IsMission
    THEN UNION {ResolveCommand, LoadInputs, PrepareWorkdir, OpenOutputs, writeStdinEnvelope}
    ELSE UNION {PrepareExecWorkdir, OpenOutputs}

End(result, outputs, dropped) ==
    /\ main' = [main EXCEPT !.pc = "end", !.result = result]
    /\ done' = [result |-> result, outputs |-> outputs, dropped |-> dropped]

finalizeCrashed(reason) == End(Result("crashed", reason, None), {}, 0)

\* What a cancelled context makes of the first queries.
CancelledReads == IF IsMission THEN {"spawn_failed"} \cup LoadInputs ELSE {"spawn_failed"}

SpawnFails ==
    /\ main.pc = "prep" /\ (May("spawn") \/ kill.cancelled)
    /\ \E reason \in IF May("spawn") THEN SpawnFailures ELSE CancelledReads :
          finalizeCrashed(reason)
    /\ UNCHANGED <<env, proc, desc, fd3, pipes, out, goroutines, watch, kill>>

Spawn ==
    /\ main.pc = "prep"
    /\ proc' = [proc EXCEPT !.st = "run"]
    /\ desc' = [desc EXCEPT !.st = IF env.desc = None THEN None ELSE "run"]
    /\ main' = [main EXCEPT !.pc = "open"]
    /\ UNCHANGED <<env, fd3, pipes, out, goroutines, watch, kill, done>>

\* The events file is opened: the goroutines start.
OpenEvents ==
    /\ main.pc = "open"
    /\ main' = [main EXCEPT !.pc = "wait"]
    /\ reader' = [reader EXCEPT !.pc = IF IsMission THEN "check" ELSE "done"]
    /\ writer' = [writer EXCEPT !.pc = IF IsMission THEN "check" ELSE "done"]
    /\ watch' = [w \in Watchers |-> IF w = "timeout" /\ ~env.timeout THEN "done" ELSE "wait"]
    /\ UNCHANGED <<env, proc, desc, fd3, pipes, out, progress, kill, done>>

-----------------------------------------------------------------------------
(* The process and its descendant: external. *)

Alive(p) == p.st = "run"
\* kill(-pgid): what is left of the process group gets the signal.
killProcessGroup(sig) ==
    /\ proc' = IF Alive(proc) THEN [proc EXCEPT !.pending = @ \cup {sig}] ELSE proc
    /\ desc' = IF env.desc = "group" /\ Alive(desc) THEN [desc EXCEPT !.st = "gone"] ELSE desc
    /\ kill' = [kill EXCEPT !.sent = @ \cup {sig}]

\* The events file can be neither opened nor created.
OpenEventsFails ==
    /\ main.pc = "open" /\ May("events")
    /\ main' = [main EXCEPT !.pc = "abort"]
    /\ killProcessGroup("KILL")
    /\ UNCHANGED <<env, fd3, pipes, out, goroutines, watch, done>>

\* A write to a pipe whose reader has gone kills.
Dies(code, sig) == proc' = [proc EXCEPT !.st = "zombie", !.code = code, !.sig = sig]
Operate ==
    /\ Alive(proc) /\ proc.at < Len(env.ops) /\ "KILL" \notin proc.pending
    /\ LET op == env.ops[proc.at + 1] IN
       IF op.to = "fd3"
       THEN /\ fd3' = Append(fd3, op.line)
            /\ proc' = [proc EXCEPT !.at = @ + 1, !.wrote.fd3 = Append(@, op.line)]
            /\ UNCHANGED pipes
       ELSE IF pipes[op.to].open
       THEN /\ pipes' = [pipes EXCEPT ![op.to].buf = Append(@, op.line)]
            /\ proc' = [proc EXCEPT !.at = @ + 1, !.wrote[op.to] = Append(@, op.line)]
            /\ UNCHANGED fd3
       ELSE Dies(-1, "PIPE") /\ UNCHANGED <<fd3, pipes>>
    /\ UNCHANGED <<env, desc, out, goroutines, watch, kill, main, done>>

Quit ==
    /\ Alive(proc) /\ proc.at = Len(env.ops) /\ ~env.forever
    /\ Dies(IF env.sig = None THEN env.code ELSE -1, env.sig)
    /\ UNCHANGED <<env, desc, fd3, pipes, out, goroutines, watch, kill, main, done>>

TakeSignal ==
    /\ Alive(proc)
    /\ \/ "KILL" \in proc.pending /\ Dies(-1, "KILL")
       \/ "TERM" \in proc.pending /\ env.term = "die" /\ Dies(-1, "TERM")
       \/ "TERM" \in proc.pending /\ env.term = "exit" /\ Dies(0, None)
    /\ UNCHANGED <<env, desc, fd3, pipes, out, goroutines, watch, kill, main, done>>

Linger ==
    /\ Alive(desc)
    /\ \/ /\ desc.at < Len(env.late)
          /\ desc' = [desc EXCEPT !.at = @ + 1]
          /\ fd3' = Append(fd3, env.late[desc.at + 1])
       \/ desc' = [desc EXCEPT !.st = "gone"] /\ UNCHANGED fd3
    /\ UNCHANGED <<env, proc, pipes, out, goroutines, watch, kill, main, done>>

\* A pipe is at its end when it is empty and nobody can write to it any more.
Held == Alive(proc) \/ Alive(desc)

-----------------------------------------------------------------------------
(* The goroutines of os/exec that copy stdout and stderr. *)

Total == out.stdout.kept + out.stderr.kept

\* TruncateWriter.Write: the bytes kept, and whether the marker is written.
Write(stream, n) ==
    LET s == out[stream]
        room == MaxOutputBuffer - Total
    IN IF s.trunc THEN [s EXCEPT !.taken = @ + n]
       ELSE [kept |-> s.kept + (IF n > room THEN room ELSE n),
             taken |-> s.taken + n, trunc |-> n > room]

\* Mutant: each chunk on its own.
scanChunk(o, chunk) ==
    [found |-> o.found \/ \E i \in 1 .. Len(chunk) - 1 : chunk[i] = "m1" /\ chunk[i + 1] = "m2",
     cur |-> chunk[Len(chunk)]]

\* OOMDetector.scan: the two halves of the marker, next to each other in one line.
scan(o, chunk) ==
    LET tail == <<o.cur>> \o chunk
    IN [found |-> o.found \/ \E i \in 1 .. Len(tail) - 1 : tail[i] = "m1" /\ tail[i + 1] = "m2",
        cur |-> tail[Len(tail)]]

\* The detector sits above the truncation: it sees what is no longer kept.
Copy(stream) ==
    /\ pipes[stream].open /\ pipes[stream].buf # <<>>
    /\ \E n \in 1 .. Len(pipes[stream].buf) :
          /\ pipes' = [pipes EXCEPT ![stream].buf = SubSeq(@, n + 1, Len(@))]
          /\ out' = [out EXCEPT ![stream] = Write(stream, n),
                        !.oom = IF stream = "stderr" /\ IsMission
                                THEN scan(@, SubSeq(pipes[stream].buf, 1, n)) ELSE @]
    /\ UNCHANGED <<env, proc, desc, fd3, goroutines, watch, kill, main, done>>

\* The disk is full: io.Copy ends, and os/exec closes its end of the pipe.
CopyFails(stream) ==
    /\ May("disk") /\ pipes[stream].open /\ pipes[stream].buf # <<>>
    /\ ~out[stream].trunc /\ Total < MaxOutputBuffer
    /\ pipes' = [pipes EXCEPT ![stream] = [buf |-> <<>>, open |-> FALSE]]
    /\ UNCHANGED <<env, proc, desc, fd3, out, goroutines, watch, kill, main, done>>

Copied(stream) == ~pipes[stream].open \/ (pipes[stream].buf = <<>> /\ ~Held)

-----------------------------------------------------------------------------
(* The reader of fd3. *)

recordViolation(s, v) ==
    IF Len(s.viol) >= MaxRecordedViolations THEN s ELSE [s EXCEPT !.viol = Append(@, v)]

setFinal(s, event) ==
    IF s.final # None THEN recordViolation(s, "duplicate_final_event")
    ELSE [s EXCEPT !.final = event]

declareOutput(s, key) ==
    IF MaxOutputFiles > 0 /\ key \notin s.outs /\ Cardinality(s.outs) >= MaxOutputFiles
    THEN recordViolation(s, "too_many_output_files")
    ELSE [s EXCEPT !.outs = @ \cup {key}]

\* Mutant: a full channel is not counted.
handleLineSilent(s, line) ==
    CASE line.event = "progress" -> s
      [] line.event = "output_file" -> declareOutput(s, line.key)
      [] line.event \in {"success", "fail"} -> setFinal(s, line.event)
      [] line.event = "oversized" -> recordViolation(s, "event_line_too_large")
      [] OTHER -> recordViolation(s, "event_protocol_error")

\* "malformed": not JSON, an unknown event, a bad key, or a field of another type.
handleLine(s, line) ==
    CASE line.event = "progress" ->
            IF progress.queued < ProgressSlots THEN s ELSE [s EXCEPT !.drops = @ + 1]
      [] line.event = "output_file" -> declareOutput(s, line.key)
      [] line.event \in {"success", "fail"} -> setFinal(s, line.event)
      [] line.event = "oversized" -> recordViolation(s, "event_line_too_large")
      [] OTHER -> recordViolation(s, "event_protocol_error")

ReaderStops ==
    /\ reader' = [reader EXCEPT !.pc = "done"]
    /\ progress' = [progress EXCEPT !.closed = TRUE]

\* The context is looked at before each line, not while the reader waits for one.
ReaderChecks ==
    /\ reader.pc = "check"
    /\ IF kill.cancelled THEN ReaderStops
       ELSE reader' = [reader EXCEPT !.pc = "read"] /\ UNCHANGED progress
    /\ UNCHANGED <<env, proc, desc, fd3, pipes, out, writer, watch, kill, main, done>>

ReadFd3 ==
    /\ reader.pc = "read" /\ fd3 # <<>>
    /\ fd3' = Tail(fd3)
    /\ reader' = [handleLine(reader, Head(fd3)) EXCEPT !.pc = "check"]
    /\ progress' = IF Head(fd3).event = "progress" /\ progress.queued < ProgressSlots
                   THEN [progress EXCEPT !.queued = @ + 1] ELSE progress
    /\ UNCHANGED <<env, proc, desc, pipes, out, writer, watch, kill, main, done>>

ReadEOF ==
    /\ reader.pc = "read" /\ fd3 = <<>> /\ ~Held
    /\ ReaderStops
    /\ UNCHANGED <<env, proc, desc, fd3, pipes, out, writer, watch, kill, main, done>>

-----------------------------------------------------------------------------
(* The writer of progress events. *)

drainProgressOnCancel ==
    /\ progress' = [progress EXCEPT !.queued = 0]
    /\ writer' = [writer EXCEPT !.pc = "done", !.dropped = @ + progress.queued]

WriterChecks ==
    /\ writer.pc = "check"
    /\ IF kill.cancelled THEN drainProgressOnCancel
       ELSE writer' = [writer EXCEPT !.pc = "select"] /\ UNCHANGED progress
    /\ UNCHANGED <<env, proc, desc, fd3, pipes, out, reader, watch, kill, main, done>>

\* An append may fail, or the events file may count the event as a drop of its own.
WriterTakes ==
    /\ writer.pc = "select" /\ progress.queued > 0
    /\ progress' = [progress EXCEPT !.queued = @ - 1]
    /\ \/ /\ MaxProgressRate > 0 /\ writer.tokens = 0
          /\ writer' = [writer EXCEPT !.pc = "check", !.dropped = @ + 1]
       \/ /\ MaxProgressRate = 0 \/ writer.tokens > 0
          /\ \E kept \in {1} \cup (IF May("append") THEN {0} ELSE {}) :
                writer' = [pc |-> "check",
                           tokens |-> IF MaxProgressRate > 0 THEN writer.tokens - 1 ELSE 0,
                           appended |-> writer.appended + kept,
                           dropped |-> writer.dropped + (1 - kept)]
    /\ UNCHANGED <<env, proc, desc, fd3, pipes, out, reader, watch, kill, main, done>>

WriterWakes ==
    /\ writer.pc = "select"
    /\ \/ kill.cancelled /\ drainProgressOnCancel
       \/ /\ progress.closed /\ progress.queued = 0
          /\ writer' = [writer EXCEPT !.pc = "done"] /\ UNCHANGED progress
       \/ /\ writer.tokens < MaxProgressRate
          /\ writer' = [writer EXCEPT !.pc = "check", !.tokens = MaxProgressRate]
          /\ UNCHANGED progress
    /\ UNCHANGED <<env, proc, desc, fd3, pipes, out, reader, watch, kill, main, done>>

-----------------------------------------------------------------------------
(* The kill supervisor. *)

\* The API, an apply or a delete puts a reason in killCh; the shutdown cancels ctx.
SignalKill ==
    /\ main.pc # "end" /\ kill.chan = None
    /\ \E r \in env.kills : kill' = [kill EXCEPT !.chan = r]
    /\ UNCHANGED <<env, proc, desc, fd3, pipes, out, goroutines, watch, main, done>>

Cancel ==
    /\ May("shutdown") /\ main.pc # "end" /\ ~kill.cancelled
    /\ kill' = [kill EXCEPT !.cancelled = TRUE]
    /\ UNCHANGED <<env, proc, desc, fd3, pipes, out, goroutines, watch, main, done>>

Goto(w, pc) == watch' = [watch EXCEPT ![w] = pc]
Ready(w) == CASE w = "timeout" -> env.timeout
              [] w = "api" -> kill.chan # None
              [] w = "ctx" -> kill.cancelled
Reason(w) == CASE w = "timeout" -> "timeout"
               [] w = "api" -> kill.chan
               [] w = "ctx" -> "dugdale_shutdown"

\* When both are ready the select takes either.
Watch(w) ==
    /\ watch[w] = "wait"
    /\ \/ Ready(w) /\ Goto(w, "enter")
       \/ WaitReturned /\ Goto(w, "done")
    /\ UNCHANGED <<env, proc, desc, fd3, pipes, out, goroutines, kill, main, done>>

\* Mutant: processExited is not looked at under the lock.
killProcessLate(w) ==
    /\ watch[w] = "enter"
    /\ IF kill.reason # None
       THEN Goto(w, "done") /\ UNCHANGED kill
       ELSE Goto(w, "check") /\ kill' = [kill EXCEPT !.reason = Reason(w)]
    /\ UNCHANGED <<env, proc, desc, fd3, pipes, out, goroutines, main, done>>

killProcess(w) ==
    /\ watch[w] = "enter"
    /\ IF kill.reason # None \/ WaitReturned
       THEN Goto(w, "done") /\ UNCHANGED kill
       ELSE Goto(w, "check") /\ kill' = [kill EXCEPT !.reason = Reason(w)]
    /\ UNCHANGED <<env, proc, desc, fd3, pipes, out, goroutines, main, done>>

\* processExited is looked at before each signal; the process may be reaped in between.
CheckExited(w) ==
    /\ watch[w] \in {"check", "recheck"}
    /\ Goto(w, IF WaitReturned THEN "done" ELSE IF watch[w] = "check" THEN "term" ELSE "kill")
    /\ UNCHANGED <<env, proc, desc, fd3, pipes, out, goroutines, kill, main, done>>

SendSignal(w) ==
    /\ watch[w] \in {"term", "kill"}
    /\ killProcessGroup(IF watch[w] = "term" THEN "TERM" ELSE "KILL")
    /\ Goto(w, IF watch[w] = "term" THEN "grace" ELSE "done")
    /\ UNCHANGED <<env, fd3, pipes, out, goroutines, main, done>>

Grace(w) ==
    /\ watch[w] = "grace"
    /\ \/ WaitReturned /\ Goto(w, "done")
       \/ Goto(w, "recheck")
    /\ UNCHANGED <<env, proc, desc, fd3, pipes, out, goroutines, kill, main, done>>

-----------------------------------------------------------------------------
(* Run after the start: cmd.Wait, and then every goroutine in turn. *)

At(pc) == main' = [main EXCEPT !.pc = pc]

Reap ==
    /\ main.pc \in {"wait", "abort"} /\ proc.st = "zombie"
    /\ proc' = [proc EXCEPT !.st = "reaped"]
    /\ UNCHANGED <<env, desc, fd3, pipes, out, goroutines, watch, kill, main, done>>

\* Mutant: cmd.WaitDelay is not set.
NoWaitDelay == FALSE
\* WaitDelay after the exit the pipes are closed, whatever is left in them.  Only in a slow
\* environment is the delay not long enough for what the process wrote to be copied.
WaitDelay ==
    /\ main.pc \in {"wait", "abort"} /\ proc.st = "reaped"
    /\ \E x \in Streams : ~Copied(x)
    /\ May("slow") \/ \A x \in Streams : pipes[x].buf = <<>>
    /\ pipes' = [x \in Streams |-> [buf |-> <<>>, open |-> FALSE]]
    /\ UNCHANGED <<env, proc, desc, fd3, out, goroutines, watch, kill, main, done>>

WaitReturns ==
    /\ main.pc \in {"wait", "abort"} /\ proc.st = "reaped"
    /\ \A x \in Streams : Copied(x)
    /\ \/ main.pc = "wait" /\ At("join") /\ UNCHANGED done   \* and closes processExited
       \/ main.pc = "abort" /\ finalizeCrashed("spawn_failed")
    /\ UNCHANGED <<env, proc, desc, fd3, pipes, out, goroutines, watch, kill>>

\* Mutant: no killWg.Wait.
KillersIgnored == TRUE
KillersDone == \A w \in Watchers : watch[w] = "done"
JoinKillers ==
    /\ main.pc = "join" /\ KillersDone
    /\ At(IF IsMission THEN "drain" ELSE "derive")
    /\ UNCHANGED <<env, proc, desc, fd3, pipes, out, goroutines, watch, kill, done>>

\* Likewise ReaderPostExitGrace and the lines that are left in fd3.
JoinReader ==
    /\ main.pc = "drain"
    /\ \/ reader.pc = "done" /\ UNCHANGED <<reader, progress>>
       \/ reader.pc # "done" /\ (May("slow") \/ fd3 = <<>>) /\ ReaderStops
    /\ At("flush")
    /\ UNCHANGED <<env, proc, desc, fd3, pipes, out, writer, watch, kill, done>>

JoinWriter ==
    /\ main.pc = "flush" /\ writer.pc = "done"
    /\ At("derive")
    /\ UNCHANGED <<env, proc, desc, fd3, pipes, out, goroutines, watch, kill, done>>

-----------------------------------------------------------------------------
(* The outcome. *)

signalToFailReason(sig) ==
    [SEGV |-> "segfault", BUS |-> "sigbus", ILL |-> "sigill", FPE |-> "sigfpe", TRAP |-> "sigtrap",
     ABRT |-> "sigabrt", KILL |-> "signal_KILL", TERM |-> "signal_TERM", INT |-> "signal_INT",
     QUIT |-> "signal_QUIT", HUP |-> "signal_HUP", PIPE |-> "signal_PIPE"][sig]

Killed(reason) == IF reason = "timeout" THEN Result("timeout", None, None)
                  ELSE Result("killed", reason, None)

\* The rows of Compute; the first that applies.
Compute(reason, oom, code, sig, s) ==
    IF reason # None THEN Killed(reason)
    ELSE IF oom THEN Result("oom", "php_memory_limit", None)
    ELSE IF sig = "KILL" THEN Result("killed", "unknown_sigkill", None)
    ELSE IF sig # None /\ s.final = None THEN Result("failed", signalToFailReason(sig), None)
    ELSE IF s.viol # <<>> THEN Result("failed", Head(s.viol), None)
    ELSE IF s.final = "success" THEN IF code = 0 THEN Result("success", None, "returned")
                                     ELSE Result("failed", "success_then_failed_exit", None)
    ELSE IF s.final = "fail" THEN IF code = 0 THEN Result("failed", "fail_then_zero_exit", None)
                                  ELSE Result("failed", "explicit", None)
    ELSE IF code = 0 THEN Result("success", None, None)
    ELSE Result("failed", "no_event_nonzero_exit", None)

\* A timeout of an exec does carry a reason.
DeriveExecOutcome(reason, code, sig) ==
    CASE reason = "timeout" -> Result("timeout", "timeout", None)
      [] reason \notin {None, "timeout"} -> Killed(reason)
      [] reason = None /\ sig # None -> Result("killed", "signal", None)
      [] OTHER -> IF code = 0 THEN Result("success", None, None)
                  ELSE Result("failed", "exit_nonzero", None)

Outcome ==
    IF IsMission THEN Compute(kill.reason, out.oom.found, proc.code, proc.sig, reader)
    ELSE DeriveExecOutcome(kill.reason, proc.code, proc.sig)

Declared == IF IsMission THEN reader.outs ELSE env.keys
ProgressDropped == reader.drops + writer.dropped

Derive ==
    /\ main.pc = "derive"
    /\ \E o \in {Outcome} \cup (IF May("state") /\ kill.reason = None
                              THEN {Result("crashed", "no_process_state", None)} ELSE {}) :
          IF o.outcome = "success" /\ Declared # {}
          THEN /\ main' = [main EXCEPT !.pc = "collect", !.todo = Declared, !.result = o]
               /\ UNCHANGED done
          ELSE End(o, {}, ProgressDropped)
    /\ UNCHANGED <<env, proc, desc, fd3, pipes, out, goroutines, watch, kill>>

-----------------------------------------------------------------------------
(* The collection of the outputs: either all, or a failure and no file. *)

\* A link, a directory, a file over the limit, a full disk or quota, a failed write.
mapCollectErrorToReason(file) ==
    CASE file = "missing" -> "missing_output"
      [] file = "link" -> "output_path_escape"
      [] file = "dir" -> "output_not_regular_file"
      [] file = "big" -> "output_too_large"
      [] file = "full" -> "disk_quota_exceeded"
      [] file = "io" -> "output_collect_failed"

CollectError(file) ==
    /\ done' = [result |-> Result("failed", mapCollectErrorToReason(file), None),
                outputs |-> {}, dropped |-> ProgressDropped]
    /\ main' = [main EXCEPT !.pc = "end", !.todo = {}, !.tmps = {}, !.result = done'.result]

\* The directory has been replaced by a link, or the quota is already exceeded.
CollectRefused ==
    /\ main.pc = "collect" /\ main.tmps = {} /\ main.todo = Declared
    /\ May("files")
    /\ \E f \in {"link", "full"} : CollectError(f)
    /\ UNCHANGED <<env, proc, desc, fd3, pipes, out, goroutines, watch, kill>>

\* The keys are taken in order of their names; any order here.
collectOne(k) ==
    /\ main.pc = "collect" /\ k \in main.todo
    /\ \/ /\ main' = [main EXCEPT !.todo = @ \ {k}, !.tmps = @ \cup {k}]
          /\ UNCHANGED done
       \/ /\ May("files")
          /\ \E f \in {"missing", "link", "dir", "big", "full", "io"} : CollectError(f)
    /\ UNCHANGED <<env, proc, desc, fd3, pipes, out, goroutines, watch, kill>>

Collected ==
    /\ main.pc = "collect" /\ main.todo = {}
    /\ End(main.result, main.tmps, ProgressDropped)
    /\ UNCHANGED <<env, proc, desc, fd3, pipes, out, goroutines, watch, kill>>

Ended == main.pc = "end" /\ UNCHANGED vars

-----------------------------------------------------------------------------
Init ==
    /\ env \in Environments
    /\ proc = [st |-> None, at |-> 0, code |-> 0, sig |-> None, pending |-> {},
               wrote |-> [fd3 |-> <<>>, stdout |-> <<>>, stderr |-> <<>>]]
    /\ desc = [st |-> None, at |-> 0]
    /\ fd3 = <<>>
    /\ pipes = [x \in Streams |-> [buf |-> <<>>, open |-> TRUE]]
    /\ out = [stdout |-> [kept |-> 0, taken |-> 0, trunc |-> FALSE],
              stderr |-> [kept |-> 0, taken |-> 0, trunc |-> FALSE],
              oom |-> [found |-> FALSE, cur |-> "nl"]]
    /\ reader = [pc |-> "off", final |-> None, viol |-> <<>>, outs |-> {}, drops |-> 0]
    /\ progress = [queued |-> 0, closed |-> FALSE]
    /\ writer = [pc |-> "off", tokens |-> MaxProgressRate, appended |-> 0, dropped |-> 0]
    /\ watch = [w \in Watchers |-> "off"]
    /\ kill = [reason |-> None, chan |-> None, cancelled |-> FALSE, sent |-> {}]
    /\ main = [pc |-> "prep", todo |-> {}, tmps |-> {}, result |-> NoResult]
    /\ done = [result |-> NoResult, outputs |-> {}, dropped |-> 0]

Supervisor ==
    \/ OpenEvents \/ Reap \/ WaitDelay \/ WaitReturns \/ JoinKillers \/ JoinReader \/ JoinWriter
    \/ Derive \/ Collected \/ \E k \in Keys : collectOne(k)
Copying == \E x \in Streams : Copy(x)
Reading == ReaderChecks \/ ReadFd3 \/ ReadEOF
Writing == WriterChecks \/ WriterTakes \/ WriterWakes
Watching(w) == Watch(w) \/ killProcess(w) \/ CheckExited(w) \/ SendSignal(w) \/ Grace(w)

Next ==
    \/ Spawn \/ SpawnFails \/ OpenEventsFails \/ Supervisor \/ CollectRefused
    \/ Operate \/ Quit \/ TakeSignal \/ Linger
    \/ Copying \/ \E x \in Streams : CopyFails(x)
    \/ Reading \/ Writing \/ SignalKill \/ Cancel
    \/ \E w \in Watchers : Watching(w)
    \/ Ended

Spec == Init /\ [][Next]_vars

\* The goroutines are scheduled, the timers fire, and the kernel delivers what it can;
\* the process, its descendant and those who ask for a kill owe nothing.
FairSpec ==
    /\ Spec
    /\ WF_vars(Supervisor) /\ WF_vars(Reading) /\ WF_vars(Writing) /\ WF_vars(TakeSignal)
    /\ \A x \in Streams : WF_vars(Copy(x))
    /\ \A w \in Watchers : WF_vars(Watching(w))

-----------------------------------------------------------------------------
(* Properties. *)

Finished == main.pc = "end"
Ran == Finished /\ done.result.outcome # "crashed"

\* What the process has written to fd3.
Lines == proc.wrote.fd3
Events(kind) == {i \in 1 .. Len(Lines) : Lines[i].event = kind}
Finals == Events("success") \cup Events("fail")
KeysBefore(i) == {Lines[j].key : j \in {j \in Events("output_file") : j < i}}

\* What is wrong with line i of the process, given the lines before it.
Offence(i) ==
    CASE Lines[i].event = "malformed" -> "event_protocol_error"
      [] Lines[i].event = "oversized" -> "event_line_too_large"
      [] i \in Finals /\ (\E j \in Finals : j < i) -> "duplicate_final_event"
      [] /\ Lines[i].event = "output_file" /\ MaxOutputFiles > 0
         /\ Lines[i].key \notin KeysBefore(i) /\ Cardinality(KeysBefore(i)) >= MaxOutputFiles
           -> "too_many_output_files"
      [] OTHER -> None
Offending == {i \in 1 .. Len(Lines) : Offence(i) # None}

OutOfMemory == LET err == proc.wrote.stderr
               IN \E i \in 1 .. Len(err) - 1 : err[i] = "m1" /\ err[i + 1] = "m2"

\* Nothing but the process and dugdale has had a say in what is recorded, and dugdale had
\* the time to read what the process wrote.
Undisturbed ==
    ~kill.cancelled /\ env.late = <<>> /\ env.may \cap {"disk", "files", "state", "slow"} = {}

Capture == [kept : Nat, taken : Nat, trunc : BOOLEAN]
Violation == {"duplicate_final_event", "too_many_output_files", "event_line_too_large", "event_protocol_error"}
Reasons ==
    UNION {KillReasons, Violation, {signalToFailReason(sig) : sig \in SignalNames},
           {None, "timeout", "dugdale_shutdown", "php_memory_limit", "unknown_sigkill", "signal", "exit_nonzero",
            "success_then_failed_exit", "fail_then_zero_exit", "explicit", "no_event_nonzero_exit",
            "no_process_state", "spawn_failed", "mission_not_found", "mission_not_in_dir",
            "input_materialization_failed", "missing_output", "output_path_escape", "output_not_regular_file",
            "output_too_large", "disk_quota_exceeded", "output_collect_failed"}}
ResultType == [outcome : {None, "success", "failed", "timeout", "killed", "oom", "crashed"}, reason : Reasons,
               ret : {None, "returned"}]
ProcType == [st : {None, "run", "zombie", "reaped"}, at : 0 .. Len(env.ops), code : Int,
             sig : SignalNames \cup {None}, pending : SUBSET {"TERM", "KILL"},
             wrote : [fd3 : Seq(Fd3Line), stdout : Seq(Token), stderr : Seq(Token)]]
DescType == [st : {None, "run", "gone"}, at : 0 .. Len(env.late)]
OutType == [stdout : Capture, stderr : Capture, oom : [found : BOOLEAN, cur : Token]]
ReaderType == [pc : {"off", "check", "read", "done"}, final : {None, "success", "fail"},
               viol : Seq(Violation), outs : SUBSET Keys, drops : Nat]
ProgressType == [queued : 0 .. ProgressSlots, closed : BOOLEAN]
WriterType == [pc : {"off", "check", "select", "done"}, tokens : 0 .. MaxProgressRate,
               appended : Nat, dropped : Nat]
KillType == [reason : KillReasons \cup {None, "timeout", "dugdale_shutdown"},
             chan : KillReasons \cup {None}, cancelled : BOOLEAN, sent : SUBSET {"TERM", "KILL"}]
MainType == [pc : {"prep", "open", "abort", "wait", "join", "drain", "flush", "derive", "collect", "end"},
             todo : SUBSET Keys, tmps : SUBSET Keys, result : ResultType]
DoneType == [result : ResultType, outputs : SUBSET Keys, dropped : Nat]
TypeOK ==
    /\ env \in Environment
    /\ proc \in ProcType /\ desc \in DescType /\ fd3 \in Seq(Fd3Line)
    /\ pipes \in [Streams -> [buf : Seq(Token), open : BOOLEAN]] /\ out \in OutType
    /\ reader \in ReaderType /\ Len(reader.viol) <= MaxRecordedViolations
    /\ MaxOutputFiles > 0 => Cardinality(reader.outs) <= MaxOutputFiles
    /\ progress \in ProgressType /\ writer \in WriterType
    /\ watch \in [Watchers -> {"off", "wait", "enter", "check", "term", "grace", "recheck", "kill", "done"}]
    /\ kill \in KillType /\ main \in MainType /\ done \in DoneType

\* A mission is recorded as a success exactly when it was not killed, left with 0 and no
\* signal, put no memory marker on stderr, wrote no fd3 line that offends and no fail
\* event; and its return value is kept exactly when it sent one (waiter.go Run).
SuccessIffClean ==
    Ran /\ IsMission /\ Undisturbed =>
        /\ (done.result.outcome = "success") <=>
              /\ kill.reason = None /\ proc.code = 0 /\ proc.sig = None
              /\ ~OutOfMemory /\ Offending = {} /\ Events("fail") = {}
        /\ (done.result.ret # None) <=> (done.result.outcome = "success" /\ Events("success") # {})

\* An fd3 failure is put down to the first line that offends, whatever follows it and
\* however many violations were dropped (fd3reader.go recordViolationLocked).
FirstOffenceNamed ==
    Ran /\ IsMission /\ Undisturbed /\ kill.reason = None /\ proc.sig = None /\ ~OutOfMemory
        /\ Offending # {} =>
            done.result.reason = Offence(CHOOSE i \in Offending : \A j \in Offending : i <= j)

\* The kill that dugdale carried out is the one it reports, and only that: no watcher
\* records a reason or sends a signal that Run does not take into account, and a SIGKILL
\* of dugdale's own is never put down to somebody else (waiter.go killProcess, killWg).
KillIsReported ==
    Ran => /\ kill.reason # None =>
                 done.result = IF IsMission THEN Killed(kill.reason)
                               ELSE DeriveExecOutcome(kill.reason, proc.code, proc.sig)
           /\ kill.sent # {} => kill.reason # None
           /\ done.result.reason \in {"unknown_sigkill", "signal"} => kill.sent = {}
           /\ kill.reason = "timeout" => env.timeout
           /\ kill.reason = "dugdale_shutdown" => kill.cancelled

\* When Run returns, and the slot of the lane is free again, the process has been
\* reaped, no watcher can signal its number any more, and no reader or writer is left.
NothingLeftRunning ==
    Finished => /\ proc.st \in {None, "reaped"}
                /\ \A w \in Watchers : watch[w] \in {"off", "done"}
                /\ {reader.pc, writer.pc} \subseteq {"off", "done"}

\* Finalize is given every output that was declared or none, and the temporary files
\* on disk are those it is given (output_collect.go CollectOutputs).
OutputsAllOrNone ==
    Finished => /\ done.outputs = main.tmps
                /\ done.outputs # {} => done.result.outcome = "success"
                /\ done.result.outcome = "success" => done.outputs = Declared

\* Every progress event of the process is in the events file or counted as dropped,
\* as long as the context is not cancelled and ReaderPostExitGrace suffices to read them
\* (waiter.go progressDropped).
ProgressAccounted ==
    Ran /\ ~kill.cancelled /\ env.late = <<>> /\ ~May("slow") =>
        Cardinality(Events("progress")) = writer.appended + done.dropped

\* What is captured never exceeds the budget of both streams, and a stream from which
\* anything was discarded says so (truncate_writer.go Write).
TruncationIsMarked ==
    /\ Total <= MaxOutputBuffer
    /\ \A x \in Streams : out[x].kept < out[x].taken <=> out[x].trunc

\* What Run holds: bounded buffers, and no process, watcher or reader when it is over.
SuperviseInv == TypeOK /\ NothingLeftRunning /\ TruncationIsMarked

\* What Run returns is what the process has earned: outcome, reason and outputs.
OutcomeIsEarned == SuccessIffClean /\ FirstOffenceNamed /\ OutputsAllOrNone

\* A kill is decided once and reported as what it was: the first one counts, and none is
\* recorded once cmd.Wait has returned (waiter.go killProcess, under killMu).  Until then
\* one is: also for a process that has left by itself and been reaped, as long as Wait
\* drains pipes that a descendant holds, which WaitDelay bounds.
KillIsTrue ==
    /\ []KillIsReported
    /\ [][WaitReturned \/ kill.reason # None => kill.reason' = kill.reason]_vars

\* A mission that has sent its fail event is not recorded as a success.
FailIsNotSuccess ==
    Ran /\ IsMission /\ Events("fail") # {} => done.result.outcome # "success"

\* A process that has exited, or that is being killed, or that has a timeout, does not
\* hold its slot for ever, whatever its descendants do with the pipes and however it
\* takes a SIGTERM (spawn.go WaitDelay, waiter.go ReaderPostExitGrace and killProcess).
Doomed == proc.st = "zombie" \/ kill.reason # None \/ (env.timeout /\ main.pc = "wait")
RunEnds == Doomed ~> Finished

-----------------------------------------------------------------------------
(* Why this holds: what is true between the steps, by induction. *)

Early == main.pc \in {"prep", "open", "abort"}
AllRead(x) == ~pipes[x].open \/ pipes[x].buf = <<>>

\* The process is gone, its output is read, and all that could change the outcome is over.
Settled ==
    /\ proc.st = "reaped" /\ (\A x \in Streams : AllRead(x)) /\ KillersDone
    /\ reader.pc = "done" /\ writer.pc = "done"

\* Run starts the goroutines together and waits for them one after the other.
RunInOrder ==
    /\ main.pc = "prep" => proc.st = None
    /\ Early => /\ \A w \in Watchers : watch[w] = "off"
                /\ reader.pc = "off" /\ writer.pc = "off" /\ kill.reason = None
    /\ ~Early /\ ~Finished /\ ~IsMission => reader.pc = "done" /\ writer.pc = "done"
    /\ main.pc \in {"join", "drain", "flush"} => proc.st = "reaped" /\ \A x \in Streams : AllRead(x)
    /\ main.pc \in {"drain", "flush"} => KillersDone
    /\ main.pc = "flush" => reader.pc = "done"
    /\ main.pc \in {"derive", "collect"} \/ Ran => Settled

\* A watcher that is past the lock has given its reason, and had one.
KillInOrder ==
    /\ \A w \in Watchers : watch[w] \in {"check", "term", "grace", "recheck", "kill"} => kill.reason # None
    /\ watch["timeout"] \notin {"off", "done"} => env.timeout
    /\ watch["api"] = "enter" => kill.chan # None
    /\ watch["ctx"] = "enter" => kill.cancelled
    /\ kill.reason = "timeout" => env.timeout
    /\ kill.reason = "dugdale_shutdown" => kill.cancelled
    /\ kill.sent # {} => kill.reason # None \/ main.pc = "abort" \/ (Finished /\ ~Ran)

\* What is left in a pipe is dropped when it is closed.
PipesInOrder == \A x \in Streams : ~pipes[x].open => pipes[x].buf = <<>>

\* The detector has seen all of stderr that is no longer in the pipe.
Scanned == Len(proc.wrote.stderr) - Len(pipes["stderr"].buf)
OutputInOrder ==
    /\ \A x \in Streams : out[x].kept <= out[x].taken
    /\ IsMission /\ ~May("disk") /\ ~May("slow") =>
         LET err == proc.wrote.stderr
             buf == pipes["stderr"].buf
         IN /\ Scanned >= 0
            /\ \A i \in 1 .. Len(buf) : buf[i] = err[Scanned + i]
            /\ out.oom.cur = IF Scanned = 0 THEN "nl" ELSE err[Scanned]
            /\ out.oom.found <=> \E i \in 1 .. Scanned - 1 : err[i] = "m1" /\ err[i + 1] = "m2"

\* The reader has made of the lines that are no longer in the pipe what the properties
\* say of them.
Handled == Len(Lines) - Len(fd3)
FinalIsFirst ==
    \/ reader.final = None /\ \A i \in Finals : i > Handled
    \/ \E i \in Finals : i <= Handled /\ reader.final = Lines[i].event /\ \A j \in Finals : i <= j
ViolationIsFirst ==
    \/ reader.viol = <<>> /\ (\A i \in Offending : i > Handled) /\ reader.outs = KeysBefore(Handled + 1)
    \/ reader.viol # <<>> /\ \E i \in Offending : i <= Handled /\ reader.viol[1] = Offence(i)
                                                  /\ \A j \in Offending : i <= j
ProgressSeen == {i \in Events("progress") : i <= Handled}
LinesInOrder ==
    env.late = <<>> =>
        /\ Handled >= 0 /\ \A i \in 1 .. Len(fd3) : fd3[i] = Lines[Handled + i]
        /\ FinalIsFirst /\ ViolationIsFirst
        /\ Cardinality(ProgressSeen) = writer.appended + writer.dropped + reader.drops + progress.queued
        /\ IsMission /\ ~kill.cancelled =>
             /\ reader.pc = "done" => (May("slow") \/ fd3 = <<>>) /\ ~Alive(proc)
             /\ writer.pc = "done" => progress.closed /\ progress.queued = 0
        /\ ~IsMission => Lines = <<>> /\ fd3 = <<>>
ReaderInOrder ==
    /\ IsFiniteSet(reader.outs)
    /\ progress.closed => reader.pc = "done"

\* What Run is about to hand over, and what it has handed over.
ResultInOrder ==
    /\ proc.sig # None => proc.code # 0
    /\ main.pc \notin {"collect", "end"} => main.tmps = {}
    /\ main.pc = "collect" => /\ main.result = Outcome /\ Outcome.outcome = "success"
                              /\ main.todo \cup main.tmps = Declared
    /\ Ran => /\ done.dropped = ProgressDropped
              /\ \/ done.result = Outcome
                 \/ /\ May("files") /\ Outcome.outcome = "success" /\ done.result.outcome = "failed"
                    /\ done.result.reason \notin {"unknown_sigkill", "signal"}

SuperviseIInv ==
    /\ SuperviseInv /\ RunInOrder /\ KillInOrder /\ OutputInOrder /\ ReaderInOrder /\ LinesInOrder
    /\ ResultInOrder /\ OutputsAllOrNone /\ PipesInOrder

=============================================================================
