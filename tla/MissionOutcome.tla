--------------------------- MODULE MissionOutcome ---------------------------
(***************************************************************************)
(* What the daemon promises about a mission's outcome: the public stream   *)
(* tells one terminal event, the mission row settles on exactly what the   *)
(* stream told, and a deletion is never undone.                            *)
(***************************************************************************)
CONSTANTS Event, None

VARIABLES
    told,     \* the terminal events any reader of the stream has ever seen
    row,      \* "live", "done" or "removed", as the API shows it
    outcome   \* the outcome stored in the row

OutcomeInit == told = {} /\ row = "live" /\ outcome = None

Publish ==
    /\ told = {} /\ \E e \in told' : e \in Event /\ told' = {e}
    /\ UNCHANGED <<row, outcome>>

Settle ==
    /\ row = "live" /\ row' = "done"
    /\ outcome' \in told
    /\ UNCHANGED told

Remove ==
    /\ row # "removed" /\ row' = "removed"
    /\ UNCHANGED <<told, outcome>>

OutcomeNext == Publish \/ Settle \/ Remove

OutcomeSpec == OutcomeInit /\ [][OutcomeNext]_<<told, row, outcome>>

=============================================================================
