------------------------------ MODULE Command ------------------------------
(* One invocation of the letts command line that works on several daemons:            *)
(*   "run"     letts run, on one host or on several (cmd/letts/run.go);                *)
(*   "exec"    letts exec on one host (exec.go);                                       *)
(*   "fanout"  letts exec on several hosts, with its deadline shared (exec_fanout.go); *)
(*   "apply"   letts apply (apply.go);                                                 *)
(*   "act"     ctl kill, restart or delete of an id whose host is not given            *)
(*             (byid_fanout.go);                                                       *)
(*   "bulk"    ctl restart or delete by selector: the targets are the missions of one  *)
(*             daemon, not hosts (ctl_missions.go).                                    *)
(* A goroutine per target talks to its daemon, the main goroutine waits for them all,  *)
(* downloads the outputs, and turns what it has seen into an exit code.  The daemons,  *)
(* the wait deadline and other programs that write to the same directory interleave.   *)
EXTENDS Integers, Sequences, SequencesExt, FiniteSets, FiniteSetsExt

CONSTANTS
    Targets,        \* the names of hosts, and of missions in a bulk command
    Environments    \* the invocations: [cmd, valid, hosts, alias,
                    \* keys, wait, timeout, detach, rows, old, ends, may]

None == "none"
NoEnd == [outcome |-> None, code |-> 0]

VARIABLES
    env,        \* the invocation: constant
    remote,     \* [target -> [st, end]]: the mission on the daemon
    task,       \* [target -> [pc, done, err, tail]]: its goroutine
    late,       \* the targets whose context has met the deadline
    main,       \* [pc, i, code, verdict, printed]: the main goroutine
    files,      \* [final path -> None, "old", "ours", "bad" or "rival"]: the destinations
    tmps,       \* [output -> None, "ours" or "bad"]: the sidecar files
    acted       \* the targets on which a daemon has carried out the mutation

vars == <<env, remote, task, late, main, files, tmps, acted>>

\* splitHosts drops the repetitions of a name, but two names may be of one daemon.
Hosts == ToSet(env.hosts)
ResolveHost(h) == IF h \in DOMAIN env.alias THEN env.alias[h] ELSE h
Final(h, key) == <<ResolveHost(h), key>>
Outputs == Hosts \X ToSet(env.keys)
Paths == {Final(o[1], o[2]) : o \in Outputs}
May(f) == f \in env.may

Waits == env.cmd \in {"run", "exec", "fanout"}
AllOrNone == env.cmd \in {"exec", "fanout"}

-----------------------------------------------------------------------------
(* The flags are looked at before anything is sent. *)

Exit(code, verdict) ==
    main' = [main EXCEPT !.pc = "exit", !.i = 0, !.code = code, !.verdict = verdict]

\* A run on several hosts takes no --output-file.  Of a run on one, the flag is not looked at
\* before the mission has ended: a pair without a role is found then.
Malformed == "malformed"
OutputsOfMany == env.cmd = "run" /\ Len(env.hosts) > 1 /\ env.keys # <<>>

\* --wait-timeout, where 0 is for ever, or else the timeout of the mission and a grace.
HasDeadline == env.wait = "value" \/ (env.wait = "unset" /\ env.timeout)

Validate ==
    /\ main.pc = "start"
    /\ IF ~ env.valid \/ OutputsOfMany THEN Exit(2, "usage")
       ELSE main' = [main EXCEPT !.pc = "wait"]
    /\ UNCHANGED <<env, remote, task, late, files, tmps, acted>>

-----------------------------------------------------------------------------
(* One target. *)

At(h, pc) == main.pc = "wait" /\ task[h].pc = pc
Live(h) == remote[h].st \in {"running", "done"}

End(h, err) == task' = [task EXCEPT ![h].pc = "end", ![h].err = err]

\* A host without a route or a token is not asked, a request that is refused has no effect,
\* and an answer that is lost for good leaves a mission behind (Dispatch has the retries).
Request(h, next) ==
    /\ \/ /\ remote' = [remote EXCEPT ![h].st = "running"]
          /\ task' = [task EXCEPT ![h].pc = next]
       \/ May("refuse") /\ (End(h, "net") \/ End(h, "config")) /\ UNCHANGED remote
       \/ May("lose") /\ End(h, "net") /\ remote' = [remote EXCEPT ![h].st = "running"]
    /\ UNCHANGED <<env, late, main, files, tmps, acted>>

\* Uploads, the dispatch, and on to the events.
RunDispatch(h) == env.cmd = "run" /\ At(h, "start") /\ Request(h, "stream")
ExecDispatch(h) == env.cmd = "exec" /\ At(h, "start") /\ Request(h, IF env.detach THEN "end" ELSE "stream")
FanOutDispatch(h) == env.cmd = "fanout" /\ At(h, "start") /\ Request(h, IF env.detach THEN "end" ELSE "stream")

\* The client has no timeout of its own, and neither an upload, a dispatch nor a query
\* belongs to the context of the deadline: a daemon that stops in the middle of a body holds
\* the goroutine for ever, and its request may have taken effect.
StallTask(h) ==
    /\ May("stall") /\ env.cmd # "bulk" /\ At(h, "start")
    /\ task' = [task EXCEPT ![h].pc = "stalled"]
    /\ \/ UNCHANGED <<remote, acted>>
       \/ Waits /\ remote' = [remote EXCEPT ![h].st = "running"] /\ UNCHANGED acted
       \/ env.cmd = "apply" /\ acted' = acted \cup {h} /\ UNCHANGED remote
    /\ UNCHANGED <<env, late, main, files, tmps>>

\* The daemon finishes the mission.
FinishRemote(h) ==
    /\ Waits /\ remote[h].st = "running" /\ main.pc # "exit"
    /\ \E e \in env.ends : remote' = [remote EXCEPT ![h] = [st |-> "done", end |-> e]]
    /\ UNCHANGED <<env, task, late, main, files, tmps, acted>>

\* StreamEvents returns the done event, however often it has to reconnect ...
StreamDone(h) ==
    /\ At(h, "stream") /\ remote[h].st = "done"
    /\ task' = [task EXCEPT ![h].pc = "streamed", ![h].done = remote[h].end]
    /\ UNCHANGED <<env, remote, late, main, files, tmps, acted>>

\* ... or a definite error, or that of its context.
StreamFails(h) ==
    /\ At(h, "stream")
    /\ \E err \in (IF May("stream") THEN {"net"} ELSE {}) \cup (IF h \in late THEN {"timeout"} ELSE {}) :
          task' = [task EXCEPT ![h].pc = "streamed", ![h].err = err]
    /\ UNCHANGED <<env, remote, late, main, files, tmps, acted>>

\* The deadline of a run starts when its dispatch is answered, that of a fan-out before
\* any dispatch, for all hosts.
Expire ==
    /\ HasDeadline /\ main.pc = "wait" /\ Waits /\ ~ env.detach
    /\ IF env.cmd = "fanout" THEN late = {} /\ late' = Hosts
       ELSE \E h \in Hosts \ late : task[h].pc \notin {"start", "end"} /\ late' = late \cup {h}
    /\ UNCHANGED <<env, remote, task, main, files, tmps, acted>>

\* The two goroutines that copy stdout and stderr.
TailStream(h) ==
    /\ main.pc = "wait" /\ task[h].pc \in {"stream", "streamed", "drain"} /\ task[h].tail = "open"
    /\ \E t \in (IF remote[h].st = "done" THEN {"eof"} ELSE {})
               \cup (IF May("tail") THEN {"broken"} ELSE {})
               \cup (IF h \in late THEN {"cut"} ELSE {}) :
          task' = [task EXCEPT ![h].tail = t]
    /\ UNCHANGED <<env, remote, late, main, files, tmps, acted>>

\* What a single host makes of the end of the stream: the deadline comes first, even before
\* a done event; then the error.  A fan-out drains the output first.
CheckStream(h) ==
    /\ At(h, "streamed")
    /\ LET err == IF h \in late THEN "timeout" ELSE task[h].err IN
       task' = IF env.cmd = "fanout" \/ err = None THEN [task EXCEPT ![h].pc = "drain"]
               ELSE [task EXCEPT ![h].pc = "end", ![h].err = err, ![h].tail = "cut"]
    /\ UNCHANGED <<env, remote, late, main, files, tmps, acted>>

\* Mutant: the output is waited for without a limit.
NoDrainTimeout(h) == FALSE /\ UNCHANGED vars

\* A second after the done event the output is cut off.
DrainTimeout(h) ==
    /\ At(h, "drain") /\ task[h].tail = "open"
    /\ task' = [task EXCEPT ![h].tail = "cut"]
    /\ UNCHANGED <<env, remote, late, main, files, tmps, acted>>

\* Both tails have returned.  In a fan-out a done event outweighs every error.
Drained(h) ==
    /\ At(h, "drain") /\ task[h].tail # "open"
    /\ End(h, IF task[h].done # NoEnd THEN None ELSE IF h \in late THEN "timeout" ELSE task[h].err)
    /\ UNCHANGED <<env, remote, late, main, files, tmps, acted>>

-----------------------------------------------------------------------------
(* The end of run and exec. *)

AllEnded == main.pc = "wait" /\ \A h \in Hosts : task[h].pc = "end"
Failed(h) == task[h].err # None

\* An error that is none of the CLI's own is 5 after a 401 or 403, 4 if it is of the
\* network, and 1 otherwise.  That of the configuration is 3, but for exec.
NetCodes == {1, 4, 5}
ConfigCode == 3

\* Mutant: the code of the command is passed on as it is.
MapAnyExitCode(end) ==
    IF end.outcome \notin {"success", "failed"} THEN 125
    ELSE IF end.outcome = "failed" /\ end.code = 0 THEN 1
    ELSE end.code

mapExecOutcomeExitCode(end) ==
    IF end.outcome \notin {"success", "failed"} \/ end.code \in {124, 125, 255} THEN 125
    ELSE IF end.outcome = "failed" /\ end.code = 0 THEN 1
    ELSE end.code

\* A fan-out exits with the largest code.
ExecCode ==
    Max({CASE task[h].err = "timeout" -> 124
           [] task[h].err \in {"net", "config"} -> 255
           [] OTHER -> mapExecOutcomeExitCode(task[h].done) : h \in Hosts})

\* The first error that is not the outcome of a mission, then an abnormal outcome, then a
\* failure.
RunCodes ==
    LET setup == SelectSeq(env.hosts, Failed)
        outcomes == {task[h].done.outcome : h \in {g \in Hosts : ~ Failed(g)}}
    IN IF setup # <<>> THEN
            CASE task[setup[1]].err = "timeout" -> {124}
              [] task[setup[1]].err = "config" -> {ConfigCode}
              [] OTHER -> NetCodes
       ELSE IF outcomes \ {"success", "failed"} # {} THEN {125}
       ELSE IF "failed" \in outcomes THEN {1}
       ELSE {0}

Conclude == \E code \in (IF env.cmd = "run" THEN RunCodes ELSE {ExecCode}) : Exit(code, None)

\* What is to be downloaded: the outputs of the hosts that have reported success.
Plan ==
    LET won(h) == ~ Failed(h) /\ task[h].done.outcome = "success"
        outputs(h) == IF won(h) THEN [k \in DOMAIN env.keys |-> <<h, env.keys[k]>>] ELSE <<>>
    IN FlattenSeq([i \in DOMAIN env.hosts |-> outputs(env.hosts[i])])

Output == Plan[main.i]
Path == Final(Output[1], Output[2])

\* A detached command prints its handle if there is anything to be recovered.
Detached ==
    /\ Waits /\ env.detach /\ AllEnded
    /\ main' = [main EXCEPT !.pc = "exit", !.printed = \E h \in Hosts : ~ Failed(h),
                            !.code = IF \E h \in Hosts : Failed(h) THEN 255 ELSE 0]
    /\ UNCHANGED <<env, remote, task, late, files, tmps, acted>>

\* An exec on one host looks first whether the done event names every output.
Gather ==
    /\ Waits /\ ~ env.detach /\ AllEnded
    /\ \/ IF Plan = <<>> THEN Conclude
          ELSE main' = [main EXCEPT !.pc = IF AllOrNone THEN "check" ELSE "fetch", !.i = 1]
       \/ env.cmd = "exec" /\ Plan # <<>> /\ May("role") /\ Exit(255, "download")
    /\ UNCHANGED <<env, remote, task, late, files, tmps, acted>>

-----------------------------------------------------------------------------
(* Downloads.  run takes its outputs one by one, and replaces what is there; exec takes     *)
(* all or none, and replaces nothing (downloadOutputs, downloadAllAtomic,                   *)
(* downloadFanOutOutputs).                                                                  *)

\* The loop goes on with the next path at pc, or is over.
Step(pc, over) == IF main.i < Len(Plan) THEN main' = [main EXCEPT !.pc = pc, !.i = @ + 1] ELSE over

Exists(p) == files[p] # None

NoTmps == [o \in Outputs |-> None]

\* Mutant: what has been promoted stays.
RollbackTmps == tmps' = NoTmps /\ UNCHANGED files

\* The files that were promoted go, by their names, and all sidecar files.
Rollback ==
    /\ tmps' = NoTmps
    /\ files' = [p \in Paths |-> IF \E j \in 1 .. main.i - 1 : Final(Plan[j][1], Plan[j][2]) = p THEN None ELSE files[p]]

\* A fan-out finds here that the done event of a host does not name an output.
CheckNew ==
    /\ main.pc = "check"
    /\ \/ IF Exists(Path) THEN Exit(2, "exists") ELSE Step("check", main' = [main EXCEPT !.pc = "fetch", !.i = 1])
       \/ env.cmd = "fanout" /\ May("role") /\ Exit(2, "missing")
    /\ UNCHANGED <<env, remote, task, late, files, tmps, acted>>

\* A sidecar file and the bytes of the daemon.
Fetched(next) ==
    /\ main.pc = "fetch"
    /\ \E b \in {"ours"} \cup (IF May("corrupt") THEN {"bad"} ELSE {}) : tmps' = [tmps EXCEPT ![Output] = b]
    /\ next

FetchAll ==
    /\ AllOrNone
    /\ \/ Fetched(Step("fetch", main' = [main EXCEPT !.pc = "stat", !.i = 1]))
       \/ main.pc = "fetch" /\ May("fetch") /\ tmps' = NoTmps /\ Exit(255, "download")
    /\ UNCHANGED <<env, remote, task, late, files, acted>>

\* A pair without a role, a role that the done event does not name, or a download.
FetchOne ==
    /\ ~ AllOrNone
    /\ IF main.pc = "fetch" /\ Output[2] = Malformed THEN UNCHANGED tmps /\ Exit(2, "usage")
       ELSE \/ Fetched(main' = [main EXCEPT !.pc = "verify"])
            \/ main.pc = "fetch" /\ May("role") /\ UNCHANGED tmps /\ Exit(1, "download")
            \/ main.pc = "fetch" /\ May("fetch") /\ tmps' = NoTmps /\ \E c \in NetCodes : Exit(c, "download")
    /\ UNCHANGED <<env, remote, task, late, files, acted>>

\* Size and digest against those of the done event; only run looks.
Verify ==
    /\ main.pc = "verify"
    /\ IF tmps[Output] = "bad" THEN tmps' = NoTmps /\ Exit(1, "download")
       ELSE main' = [main EXCEPT !.pc = "rename"] /\ UNCHANGED tmps
    /\ UNCHANGED <<env, remote, task, late, files, acted>>

Recheck ==
    /\ main.pc = "stat"
    /\ IF Exists(Path) THEN Rollback /\ Exit(2, "exists")
       ELSE main' = [main EXCEPT !.pc = "rename"] /\ UNCHANGED <<files, tmps>>
    /\ UNCHANGED <<env, remote, task, late, acted>>

\* os.Rename replaces what has come since.
Promoted(next) ==
    /\ main.pc = "rename"
    /\ files' = [files EXCEPT ![Path] = tmps[Output]]
    /\ tmps' = [tmps EXCEPT ![Output] = None]
    /\ Step(next, Conclude)

PromoteAll ==
    /\ AllOrNone
    /\ \/ Promoted("stat")
       \/ main.pc = "rename" /\ May("rename") /\ Rollback /\ Exit(255, "download")
    /\ UNCHANGED <<env, remote, task, late, acted>>

PromoteOne ==
    /\ ~ AllOrNone
    /\ \/ Promoted("fetch")
       \/ main.pc = "rename" /\ May("rename") /\ tmps' = NoTmps /\ Exit(1, "download") /\ UNCHANGED files
    /\ UNCHANGED <<env, remote, task, late, acted>>

\* Another program creates a file of one of the names.
Rival ==
    /\ May("rival") /\ main.pc # "exit"
    /\ \E p \in Paths : files[p] = None /\ files' = [files EXCEPT ![p] = "rival"]
    /\ UNCHANGED <<env, remote, task, late, main, tmps, acted>>

-----------------------------------------------------------------------------
(* apply: every target at once, one error for all. *)

ApplyTo(h) ==
    /\ env.cmd = "apply" /\ At(h, "start")
    /\ \/ End(h, None) /\ acted' = acted \cup {h}
       \/ May("refuse") /\ End(h, "net") /\ UNCHANGED acted
       \/ May("lose") /\ End(h, "net") /\ acted' = acted \cup {h}
    /\ UNCHANGED <<env, remote, late, main, files, tmps>>

formatApplyResults ==
    /\ env.cmd = "apply" /\ AllEnded
    /\ Exit(IF \E h \in Hosts : Failed(h) THEN 1 ELSE 0, None)
    /\ UNCHANGED <<env, remote, task, late, files, tmps, acted>>

-----------------------------------------------------------------------------
(* kill, restart and delete: locate, then act (LocateThenActByID). *)

\* The row goes away: retention, or another operator.
Vanish(h) ==
    /\ May("vanish") /\ Live(h) /\ main.pc # "exit"
    /\ remote' = [remote EXCEPT ![h].st = "gone"]
    /\ UNCHANGED <<env, task, late, main, files, tmps, acted>>

Locate(h) ==
    /\ env.cmd = "act" /\ At(h, "start")
    /\ \/ End(h, IF Live(h) THEN None ELSE "missing")
       \/ May("refuse") /\ (End(h, "net") \/ End(h, "config"))
    /\ UNCHANGED <<env, remote, late, main, files, tmps, acted>>

Owners == {h \in Hosts : ~ Failed(h)}

\* The errors of the hosts are joined, and that of the configuration is looked for first.
JoinedCodes ==
    IF \E h \in Hosts : task[h].err = "config" THEN {ConfigCode}
    ELSE IF \E h \in Hosts : task[h].err = "net" THEN NetCodes
    ELSE {}

\* Mutant: the first host that has the id is taken.
ResolveFirst ==
    /\ env.cmd = "act" /\ AllEnded
    /\ IF Owners # {} THEN main' = [main EXCEPT !.pc = "act"]
       ELSE IF JoinedCodes # {} THEN \E c \in JoinedCodes : Exit(c, "error")
       ELSE Exit(1, "not found")
    /\ UNCHANGED <<env, remote, task, late, files, tmps, acted>>

\* fanOutByIDHosts: a single owner, whatever the others have answered; a conflict; every
\* error that is not a 404; not found.
Resolve ==
    /\ env.cmd = "act" /\ AllEnded
    /\ IF Cardinality(Owners) = 1 THEN main' = [main EXCEPT !.pc = "act"]
       ELSE IF Owners # {} THEN Exit(1, "conflict")
       ELSE IF JoinedCodes # {} THEN \E c \in JoinedCodes : Exit(c, "error")
       ELSE Exit(1, "not found")
    /\ UNCHANGED <<env, remote, task, late, files, tmps, acted>>

Act ==
    /\ main.pc = "act"
    /\ LET h == CHOOSE g \in Hosts : g \in Owners IN
       \/ Live(h) /\ acted' = acted \cup {h} /\ Exit(0, None)
       \/ ~ Live(h) /\ UNCHANGED acted /\ Exit(1, "error")
       \/ May("refuse") /\ UNCHANGED acted /\ \E c \in NetCodes : Exit(c, "error")
       \/ May("lose") /\ Live(h) /\ acted' = acted \cup {h} /\ Exit(4, "error")
    /\ UNCHANGED <<env, remote, task, late, files, tmps>>

-----------------------------------------------------------------------------
(* Bulk restart and delete: list, confirm, and act on what was listed. *)

\* A target that was not listed is none.
List ==
    /\ env.cmd = "bulk" /\ main.pc = "wait"
    /\ \/ /\ task' = [h \in Hosts |-> [task[h] EXCEPT !.pc = IF Live(h) THEN "start" ELSE "unlisted"]]
          /\ IF \E h \in Hosts : Live(h) THEN main' = [main EXCEPT !.pc = "confirm"] ELSE Exit(0, None)
       \/ May("refuse") /\ UNCHANGED task /\ \E c \in NetCodes \cup {ConfigCode} : Exit(c, "error")
    /\ UNCHANGED <<env, remote, late, files, tmps, acted>>

confirmBulk ==
    /\ main.pc = "confirm"
    /\ main' = [main EXCEPT !.pc = "bulk"] \/ Exit(1, "aborted")
    /\ UNCHANGED <<env, remote, task, late, files, tmps, acted>>

\* The daemon takes the ids one after the other, and reports on each (BulkRestart,
\* BulkDelete); a mission may be in the wrong state for it.
BulkOne(h) ==
    /\ main.pc = "bulk" /\ task[h].pc = "start"
    /\ \A i, j \in DOMAIN env.hosts :
          env.hosts[j] = h /\ i < j => task[env.hosts[i]].pc \in {"end", "unlisted"}
    /\ \/ Live(h) /\ End(h, None) /\ acted' = acted \cup {h}
       \/ Live(h) /\ May("state") /\ End(h, "net") /\ UNCHANGED acted
       \/ ~ Live(h) /\ End(h, "missing") /\ UNCHANGED acted
    /\ UNCHANGED <<env, remote, late, main, files, tmps>>

printBulkResults ==
    /\ main.pc = "bulk" /\ \A h \in Hosts : task[h].pc # "start"
    /\ \/ Exit(IF \E h \in Hosts : Failed(h) THEN 1 ELSE 0, None)
       \/ May("lose") /\ Exit(4, "error")
    /\ UNCHANGED <<env, remote, task, late, files, tmps, acted>>

\* The main goroutine, too, waits for a body without a limit: that of an output, whose
\* sidecar file stays behind, of a mutation, or of a list.
StallMain ==
    /\ May("stall")
    /\ \/ main.pc = "fetch" /\ Output[2] # Malformed /\ tmps' = [tmps EXCEPT ![Output] = "bad"] /\ UNCHANGED acted
       \/ main.pc = "act" /\ UNCHANGED <<tmps, acted>>
       \/ main.pc = "act" /\ (\E h \in Owners : Live(h) /\ acted' = acted \cup {h}) /\ UNCHANGED tmps
       \/ (main.pc = "bulk" \/ (env.cmd = "bulk" /\ main.pc = "wait")) /\ UNCHANGED <<tmps, acted>>
    /\ main' = [main EXCEPT !.pc = "stalled"]
    /\ UNCHANGED <<env, remote, task, late, files>>

-----------------------------------------------------------------------------
Init ==
    /\ env \in Environments
    /\ remote = [h \in Hosts |-> [st |-> IF h \in env.rows THEN "done" ELSE None, end |-> NoEnd]]
    /\ task = [h \in Hosts |-> [pc |-> "start", done |-> NoEnd, err |-> None, tail |-> "open"]]
    /\ late = {}
    /\ main = [pc |-> "start", i |-> 0, code |-> -1, verdict |-> None, printed |-> FALSE]
    /\ files = [p \in Paths |-> IF p \in env.old THEN "old" ELSE None]
    /\ tmps = NoTmps
    /\ acted = {}

\* The steps of the goroutine of a target that depend on nobody, those of the main
\* goroutine, and those of the others.
TaskStep(h) ==
    RunDispatch(h) \/ ExecDispatch(h) \/ FanOutDispatch(h) \/ ApplyTo(h) \/ Locate(h) \/ BulkOne(h) \/ CheckStream(h) \/ DrainTimeout(h) \/ Drained(h)
MainStep ==
    \/ Validate \/ Detached \/ Gather \/ CheckNew \/ FetchAll \/ FetchOne \/ Verify \/ Recheck
    \/ PromoteAll \/ PromoteOne \/ formatApplyResults \/ Resolve \/ Act \/ List \/ confirmBulk \/ printBulkResults
Stalled == main.pc = "stalled" \/ \E h \in Hosts : task[h].pc = "stalled"
Next ==
    \/ MainStep \/ StallMain \/ Expire \/ Rival
    \/ \E h \in Hosts : TaskStep(h) \/ StallTask(h) \/ FinishRemote(h) \/ StreamDone(h) \/ StreamFails(h) \/ TailStream(h) \/ Vanish(h)
    \/ (main.pc = "exit" \/ Stalled) /\ UNCHANGED vars

Spec == Init /\ [][Next]_vars

\* The command runs, timers fire, and a request that does not stall is answered or fails.  Of
\* a daemon no more is assumed where there is a deadline; where there is none, it delivers the
\* done event.
Fairness ==
    /\ WF_vars(MainStep) /\ WF_vars(Expire)
    /\ \A h \in Targets :
          /\ WF_vars(h \in Hosts /\ TaskStep(h))
          /\ WF_vars(h \in Hosts /\ h \in late /\ StreamFails(h))
          /\ WF_vars(h \in Hosts /\ ~ HasDeadline /\ StreamDone(h))
FairSpec == Spec /\ Fairness

-----------------------------------------------------------------------------
TypeOK ==
    /\ env \in Environments /\ Hosts \subseteq Targets
    /\ \A h \in Hosts :
          /\ remote[h].st \in {None, "running", "done", "gone"} /\ remote[h].end \in env.ends \cup {NoEnd}
          /\ task[h].pc \in {"start", "stream", "streamed", "drain", "end", "unlisted", "stalled"}
          /\ task[h].done \in env.ends \cup {NoEnd}
          /\ task[h].err \in {None, "net", "config", "timeout", "missing"}
          /\ task[h].tail \in {"open", "eof", "broken", "cut"}
    /\ late \subseteq Hosts /\ acted \subseteq Hosts
    /\ main.pc \in {"start", "wait", "check", "fetch", "verify", "stat", "rename", "act", "confirm", "bulk", "stalled", "exit"}
    /\ main.i \in 0 .. Len(Plan) /\ main.code \in -1 .. 255 /\ main.printed \in BOOLEAN
    /\ files \in [Paths -> {None, "old", "ours", "bad", "rival"}]
    /\ tmps \in [Outputs -> {None, "ours", "bad"}]

Exited == main.pc = "exit"
Succeeded(h) == remote[h].st = "done" /\ remote[h].end.outcome = "success"

\* What a download may leave: an exec does not look at the bytes (exec_staging.go:159).
Delivered == IF AllOrNone THEN {"ours", "bad"} ELSE {"ours"}

\* Exit code 0 is a promise about every target: its mission has ended in success on its
\* daemon and all its outputs are in place, compared with the done event if it is a run; the
\* state is applied; what was listed has been acted on; and a detached command has started them all and printed how to find them
\* (run.go:333, exec_fanout.go:465, apply.go:199, ctl_missions.go:618).
ZeroMeansDone ==
    Exited /\ main.code = 0 =>
        CASE Waits /\ env.detach -> main.printed /\ \A h \in Hosts : remote[h].st # None
          [] Waits /\ ~ env.detach ->
                (\A h \in Hosts : Succeeded(h)) /\ \A p \in Paths : files[p] \in Delivered
          [] env.cmd = "apply" -> acted = Hosts
          [] env.cmd = "act" -> Cardinality(acted) = 1
          [] env.cmd = "bulk" -> acted = {h \in Hosts : task[h].pc # "unlisted"}

\* The exit code of an exec is that of something that has happened: 124 of a deadline, 125
\* of an abnormal or ambiguous outcome, 2 of a file in the way or an output that was not
\* reported, and any other that of a command, even where the command itself has exited with
\* 124 or 255.  255 has two meanings: the outcome of a host was not found out, or the outcome
\* was success and the outputs could not be had (exec_exit.go:51, exec_fanout.go:455,
\* exec.go:463).
CodeIsTrue ==
    Exited /\ AllOrNone /\ ~ env.detach =>
        CASE main.code = 0 -> TRUE
          [] main.code = 124 -> late # {} /\ \E h \in Hosts : task[h].err = "timeout"
          [] main.code = 255 ->
                \/ main.verdict = None /\ \E h \in Hosts : task[h].err \in {"net", "config"}
                \/ main.verdict = "download" /\ \E h \in Hosts : Succeeded(h) /\ ~ Failed(h)
          [] main.code = 2 ->
                main.verdict \in {"usage", "missing"} \/ (main.verdict = "exists" /\ \E p \in Paths : files[p] \in {"old", "rival"})
          [] main.code = 125 -> \E h \in Hosts :
                remote[h].st = "done" /\ (remote[h].end.outcome \notin {"success", "failed"}
                                          \/ remote[h].end.code \in {124, 125, 255})
          [] OTHER -> \E h \in Hosts :
                /\ remote[h].st = "done" /\ remote[h].end.outcome = "failed"
                /\ remote[h].end.code = main.code \/ (main.code = 1 /\ remote[h].end.code = 0)

\* What a script concludes from the exit code is so.
ExitCodeIsTrue == ZeroMeansDone /\ CodeIsTrue

\* An exec leaves all the outputs it has planned to download, or none, and no command
\* leaves a sidecar file, whatever fails and whoever creates a file meanwhile; run may
\* leave some (exec_staging.go:120, run.go:843).
OutputsAllOrNone ==
    Exited =>
        /\ tmps = NoTmps
        /\ AllOrNone => \/ \A i \in DOMAIN Plan : files[Final(Plan[i][1], Plan[i][2])] \in Delivered
                        \/ \A i \in DOMAIN Plan : files[Final(Plan[i][1], Plan[i][2])] \notin Delivered

\* A file that was there before an exec is there afterwards: it is found before anything is
\* downloaded, and a rollback removes only what the command has made (exec_staging.go:125).
OldFilesKept == AllOrNone => \A p \in env.old : files[p] = "old"

\* Bytes that are not those of the done event never reach the destination of a run, where
\* the old file stays (run.go:908).
OnlyVerifiedBytes == env.cmd = "run" => \A p \in Paths : files[p] # "bad"

\* What a command does to the files of the user.
CommandInv == TypeOK /\ OutputsAllOrNone /\ OldFilesKept /\ OnlyVerifiedBytes

\* A mutation by id is carried out on at most one host, and only if no other host that
\* could be asked has the id as well; nothing has happened when a conflict is reported
\* (byid_fanout.go:40).
ActsOnOneOwner ==
    env.cmd = "act" =>
        /\ Cardinality(acted) <= 1
        /\ acted # {} => Cardinality(Owners) = 1
        /\ main.verdict \in {"conflict", "not found"} => acted = {}

\* "not found" is said only if no host has the id any more: one that could not be asked
\* makes it an error (byid_fanout.go:128).
NotFoundIsCertain == main.verdict = "not found" => \A h \in Hosts : ~ Live(h)

\* What a mutation by id does, and says, of the hosts it has asked.
ByIdIsCertain == ActsOnOneOwner /\ NotFoundIsCertain

\* Unless a daemon stalls in the middle of a transfer, a command with a deadline comes to an
\* end whatever the missions do, and one without does if all its missions end: no goroutine
\* waits for output that does not come (run.go:291, exec_fanout.go:388).
CommandEnds ==
    <>[](~ Stalled /\ (HasDeadline \/ \A t \in Targets : t \in Hosts => remote[t].st # "running"))
    => <>Exited

\* If nothing goes wrong, an exec on several hosts runs once on each of them and ends well:
\* the targets are "a deduplicated list of dugdale IDs" (exec_target.go:18).
CleanExecSucceeds ==
    Exited /\ env.cmd = "fanout" /\ env.valid /\ (\A h \in Hosts : Succeeded(h))
    /\ env.may = {} /\ env.old = {} /\ ~ HasDeadline
    => main.code = 0
=============================================================================
