----------------------------- MODULE MCDispatch ----------------------------
(* Dispatch for TLC. *)
EXTENDS Dispatch

Ask(kind, key, work, staged) ==
    [kind |-> kind, key |-> key, work |-> work, staged |-> staged, valid |-> TRUE, from |-> None]
Again(key, from) == [Ask("restart", key, "w", FALSE) EXCEPT !.from = from]
Env(may, reqs) == [may |-> may, reqs |-> reqs, limit |-> 2, lane |-> "up"]

Mission == Ask("mission", "k", "w", TRUE)
Exec == Ask("exec", "k", "w", TRUE)
OtherWork == Ask("mission", "k", "v", TRUE)

\* One client and its retries; two with one key; two with a queue of one; restarts.
Creation == {Env({"lose", "dbError", "ioError", "crash", "unstage"}, <<Mission>>),
             Env({"lose", "crash", "unstage", "delete"}, <<Exec>>),
             Env({"lose", "drain", "quota"}, <<Mission>>),
             Env({"lose", "drain", "quota", "prune"}, <<Exec>>),
             Env({"lose", "prune"}, <<Mission>>),
             Env({"dbError", "ioError", "unstage"}, <<Mission, OtherWork>>),
             Env({"crash", "delete"}, <<Exec, Exec>>),
             Env({"unstage", "delete"}, <<Mission, OtherWork>>),
             [Env({"dbError"}, <<Mission, Ask("mission", "l", "w", FALSE)>>) EXCEPT !.limit = 1],
             [Env({}, <<[Exec EXCEPT !.valid = FALSE]>>) EXCEPT !.lane = "unapplied"],
             [Env({}, <<Mission>>) EXCEPT !.lane = "unapplied"],
             Env({"crash", "delete", "unstage", "ioError", "dbError", "prune"}, <<Mission, Again("n", "k")>>)}

\* The theorems of DispatchProofs apply to it.
ASSUME CreationKeysApart == Environments = Creation => KeysApart

-----------------------------------------------------------------------------
(* Where comments say what the code does not keep; neither has a run of its    *)
(* own.  TLC refutes TrustedIsUndispatchable in Hiccup, RefusedMeansNotCreated *)
(* in Shutdown, StreamBehindRow in TwoEndpoints.                               *)

\* Two missions with one key, and a query that fails.
Hiccup == {Env({"dbError"}, <<Mission, OtherWork>>)}

\* A client alone, an answer that is lost, and a shutdown.
Shutdown == {Env({"lose", "drain"}, <<Mission>>)}

\* One key at both endpoints, each of which has a mutex of its own.
TwoEndpoints == {Env({}, <<Mission, Exec>>)}
=============================================================================
