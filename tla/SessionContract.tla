--------------------------- MODULE SessionContract ---------------------------
(***************************************************************************)
(* What the sessions component promises its clients about the status of    *)
(* one session: it is created once, in "recording"; it then moves along    *)
(* the transition table, goes back to "recording" only from "abandoned",   *)
(* and can be tombstoned from anywhere; a tombstone is for ever.           *)
(* SessionLifecycle is shown to implement this contract.                   *)
(***************************************************************************)
EXTENDS SessionStates

VARIABLE status      \* "absent" until the session is created

Init == status = "absent"

\* POST /internal/sessions
Create == status = "absent" /\ status' = "recording"

\* PATCH with a status: an edge of the table
Advance == \E to \in Statuses : CanTransition(status, to) /\ status' = to

\* POST /resume
Resume == status = "abandoned" /\ status' = "recording"

\* DELETE: the cascade tombstones a session in any status
Tombstone == status \in Statuses /\ status' = "deleted"

Next == Create \/ Advance \/ Resume \/ Tombstone

Spec == Init /\ [][Next]_status
=============================================================================
