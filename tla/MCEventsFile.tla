---------------------------- MODULE MCEventsFile ----------------------------
(* EventsFile for TLC. *)
EXTENDS EventsFile

\* Torn writes with crashes; breaking connections; what a power loss or a lost file
\* takes away; a mission deleted under its readers.
TearsAndLosses == {{"ioError", "crash"}, {"crash", "idleCut", "disconnect"}, {"ioError", "powerLoss"},
                   {"crash", "eventsLost"}, {"delete", "disconnect"}}
=============================================================================
