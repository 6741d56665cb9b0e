----------------------------- MODULE MCStaging -----------------------------
(* Staging for TLC. *)
EXTENDS Staging

Env(may, contents, n, m) == [may |-> may, contents |-> contents, puts |-> n, rows |-> m, faults |-> 2]
Fewer(e) == [e EXCEPT !.faults = 1]
Once == <<"a">>
Same == <<"a", "a">>
Other == <<"a", "b">>

\* Retries after broken connections, database errors and restarts; two clients with one
\* id; a mission, a delete and a download; aborts; leftovers that the scanner meets while a
\* second client uploads.
UploadLife == {Env({"disconnect", "dbError", "restart"}, Once, 2, 2), Env({"disconnect"}, Other, 2, 1),
               Env({"disconnect"}, Same, 3, 1), Env({"dbError"}, Same, 2, 1),
               Env({"delete", "download"}, Once, 2, 2),
               Env({"quota", "idle"}, Once, 2, 1), Env({"quota", "dbError"}, Once, 2, 2),
               Env({"idle", "dbError"}, Once, 2, 2), Env({"mission", "restart"}, Once, 2, 2),
               Fewer(Env({"mission", "delete"}, Same, 2, 2))}
Retries == {Env({"disconnect"}, Same, 3, 1)}

\* The scanner that removes "files whose staging row is unknown" (disk_scan.go:155) may
\* remove the input of a mission: TLC refutes this in the last of the environments above.
ScannerTakesLeftovers ==
    (\A h \in DOMAIN puts : ~puts[h].evicted) /\ mission.status \in {"queued", "running"}
    => disk.path # 0
=============================================================================
