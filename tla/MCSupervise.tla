---------------------------- MODULE MCSupervise ----------------------------
(* Supervise for TLC. *)
EXTENDS Supervise, SequencesExt

Line(event) == [to |-> "fd3", line |-> [event |-> event, key |-> None]]
OutFile(k) == [to |-> "fd3", line |-> [event |-> "output_file", key |-> k]]
Out(n) == [i \in 1 .. n |-> [to |-> "stdout", line |-> "x"]]
Err(tokens) == [i \in 1 .. Len(tokens) |-> [to |-> "stderr", line |-> tokens[i]]]

Process(kind, ops, may) ==
    [kind |-> kind, ops |-> ops, forever |-> FALSE, code |-> 0, sig |-> None, term |-> "die",
     desc |-> None, late |-> <<>>, timeout |-> FALSE, kills |-> {}, keys |-> {}, may |-> may]
Mission(ops, may) == Process("mission", ops, may)
Exec(ops, may) == Process("exec", ops, may)
Fails(e) == [e EXCEPT !.code = 1]
Signalled(e, sig) == [e EXCEPT !.sig = sig]
Timed(e) == [e EXCEPT !.timeout = TRUE]
Stubborn(e) == [e EXCEPT !.forever = TRUE, !.term = "ignore", !.timeout = TRUE]
Leaves(e, where) == [e EXCEPT !.desc = where]
Api == {"killed_by_api"}

\* What a mission may say on fd3: every sequence of at most three of these.
Saying == {Line("success"), Line("fail"), Line("malformed"), Line("oversized"), OutFile("k"), OutFile("l")}
Protocols == {[Mission(s, {}) EXCEPT !.code = c] : s \in BoundedSeq(Saying, 3), c \in {0, 1}}

PPP == <<Line("progress"), Line("progress"), Line("progress")>>
Done == <<Line("success")>>
Marker == <<"x", "m1", "m2">>

Signals ==
    {Signalled(Mission(s, {}), sig) : s \in {<<>>, Done, <<Line("malformed")>>}, sig \in {"KILL", "SEGV"}}

Kills ==
    {[Timed(Mission(Done, {"shutdown"})) EXCEPT !.kills = Api, !.term = t] : t \in {"die", "exit"}}
    \cup {[Stubborn(Mission(<<>>, {"shutdown"})) EXCEPT !.kills = {"lane_removed", "force_delete"}],
          [Stubborn(Exec(<<>>, {})) EXCEPT !.kills = Api],
          [Timed(Exec(Out(1), {"shutdown"})) EXCEPT !.kills = Api, !.code = 1],
          Signalled(Exec(<<>>, {}), "SEGV")}

Descendants ==
    {Leaves(Timed(Mission(<<Line("fail")>> \o Out(1), {})), d) : d \in {"group", "escaped"}}
    \cup {Leaves(Stubborn(Mission(<<>>, {})), "escaped"),
          Leaves(Exec(Err(<<"x">>), {}), "escaped"),
          [Leaves(Mission(Done, {}), "escaped") EXCEPT !.late = <<[event |-> "fail", key |-> None]>>]}

Captured ==
    {Mission(Out(2) \o Err(Marker), {}), Mission(Err(<<"m1", "nl", "m2">>), {}),
     Mission(Err(Marker) \o Done, {"disk"}), Exec(Out(2) \o Err(Marker), {"disk"}),
     Timed(Mission(Err(<<"m1", "m2">>), {}))}

Collects ==
    {Mission(<<OutFile("k")>> \o Done, {"files", "state"}), Mission(<<OutFile("k")>>, {"shutdown"}),
     [Exec(<<>>, {"files", "state"}) EXCEPT !.keys = {"k", "l"}],
     [Exec(<<>>, {}) EXCEPT !.keys = {"k", "l"}]}

Reported ==
    {Mission(PPP, {}), Mission(PPP \o Done, {"append"}), Mission(<<Line("progress")>>, {"shutdown"}),
     [Mission(<<Line("progress")>>, {}) EXCEPT !.late = <<[event |-> "progress", key |-> None]>>]}

\* The timers of Run fire before everything is read.
Slow ==
    {Mission(Out(1) \o Err(<<"m1", "m2">>), {"slow"}), Mission(<<Line("progress"), Line("fail")>>, {"slow"}),
     Leaves(Exec(Out(2), {"slow"}), "escaped")}

Starts == {Mission(<<>>, {"spawn", "events"}), Leaves(Exec(Out(1), {"spawn", "events"}), "escaped"),
           Mission(<<>>, {"shutdown"}), Exec(<<>>, {"shutdown"})}

Processes == UNION {Protocols, Signals, Kills, Descendants, Captured, Collects, Reported, Slow, Starts}

\* A mission that reports a failure and leaves with 0 while dugdale shuts down.
Shutdowns == {Mission(<<Line("progress"), Line("fail")>>, {"shutdown"})}

\* What the guard of killProcess is there for: "refuse to signal a pgid whose leader the
\* kernel may have already reaped" (waiter.go:216), and to call such an exit a kill.  TLC
\* refutes it: processExited is closed only when Wait has drained the pipes and returned,
\* and a shutdown, a timeout or a kill may come in between.
ReapedIsLeftAlone ==
    [][proc.st = "reaped" => kill'.reason = kill.reason /\ kill'.sent = kill.sent]_vars
=============================================================================
