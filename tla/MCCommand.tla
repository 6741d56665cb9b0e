----------------------------- MODULE MCCommand -----------------------------
(* Command for TLC. *)
EXTENDS Command

Ended(outcome, code) == [outcome |-> outcome, code |-> code]
RunEnds == {Ended("success", 0), Ended("failed", 0), Ended("killed", 0)}
ExecEnds == {Ended("success", 0), Ended("failed", 0), Ended("failed", 3), Ended("failed", 124),
             Ended("failed", 200), Ended("failed", 255), Ended("killed", 0)}

Env(cmd, hosts, keys, may) ==
    [cmd |-> cmd, valid |-> TRUE, hosts |-> hosts, alias |-> <<>>, keys |-> keys, wait |-> "unset", timeout |-> FALSE, detach |-> FALSE,
     rows |-> {}, old |-> {}, ends |-> IF cmd = "run" THEN RunEnds ELSE ExecEnds, may |-> may]
Timed(e) == [e EXCEPT !.timeout = TRUE]
Old(e, paths) == [e EXCEPT !.old = paths]
Found(e, rows) == [e EXCEPT !.rows = rows]

Net == {"refuse", "lose", "stream", "tail"}
Disk == {"fetch", "rename", "rival", "corrupt"}
AB == <<"a", "b">>
ABC == <<"a", "b", "c">>

Invocations ==
    {[Env("run", AB, <<>>, Net) EXCEPT !.wait = "value"],
     [Env("run", <<"a">>, <<>>, {}) EXCEPT !.wait = "zero", !.timeout = TRUE],
     Env("run", <<"a">>, <<"x", "y">>, {"stream", "role", "stall"} \cup Disk),
     Env("run", <<"a">>, <<"x", Malformed>>, {"stall"}),
     Old(Timed(Env("run", <<"a">>, <<"x", "y">>, {"tail", "fetch", "corrupt"})), {<<"a", "y">>}),
     Timed(Env("exec", <<"a">>, <<"x", "y">>, Net \cup Disk \cup {"role", "stall"})),
     Old(Env("exec", <<"a">>, <<"x", "y">>, Disk), {<<"a", "y">>}),
     [Env("exec", <<"a">>, <<>>, Net) EXCEPT !.detach = TRUE],
     Timed(Env("fanout", AB, <<>>, Net \cup {"stall"})),
     [Timed(Env("fanout", AB, <<"x", "y">>, Disk)) EXCEPT !.ends = {Ended("success", 0), Ended("failed", 124)}],
     [Old(Env("fanout", AB, <<"x">>, Disk \cup {"role"}), {<<"b", "x">>}) EXCEPT !.ends = {Ended("success", 0), Ended("killed", 0)}],
     [Env("fanout", AB, <<>>, Net) EXCEPT !.detach = TRUE],
     [Env("fanout", AB, <<"x">>, {}) EXCEPT !.valid = FALSE],
     Env("run", AB, <<"x">>, {}),
     Env("apply", AB, <<>>, {"refuse", "lose", "stall"}),
     Found(Env("act", ABC, <<>>, {"refuse", "lose", "vanish", "stall"}), {"a"}),
     Found(Env("act", ABC, <<>>, {"refuse", "vanish"}), {"a", "b"}),
     Env("act", AB, <<>>, {"refuse"}),
     Found(Env("bulk", ABC, <<>>, {"refuse", "lose", "vanish", "state", "stall"}), {"a", "b"})}

\* "Exec transport error before any terminal outcome" is what src/README.md:720 says of 255.
\* A download that fails after the mission has succeeded makes it 255, too (exec.go:463): TLC
\* refutes this among the invocations above.
TransportCodeIsEarly ==
    Exited /\ AllOrNone /\ ~ env.detach /\ main.code = 255 => \E h \in Hosts : Failed(h)

\* "client-side deadline", src/README.md:800.  A daemon that stalls in an upload, in the
\* answer to the dispatch or in a download is not subject to it (run.go:892,
\* exec_staging.go:159): TLC refutes this among the invocations above.
DeadlineEndsCommand == [](HasDeadline /\ Waits) => <>Exited

\* Two hosts, the second of which is an alias of the first: TLC refutes
\* CleanExecSucceeds here (no run of its own).
Twice == {[Env("fanout", AB, <<"x">>, {}) EXCEPT !.alias = [b |-> "a"]]}
=============================================================================
