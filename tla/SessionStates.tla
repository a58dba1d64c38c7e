---------------------------- MODULE SessionStates ----------------------------
(***************************************************************************)
(* The statuses of a recording session and the transition table that       *)
(* PATCH /internal/sessions/{id} consults (src/state.rs).                  *)
(***************************************************************************)

\* The seven values of enum SessionStatus.
Statuses == {"recording", "uploaded", "transcribing", "transcribing_failed",
             "transcribed", "abandoned", "deleted"}

\* can_transition: the edges a raw PATCH may take.  The way back from
\* "abandoned" to "recording" is not among them: only POST /resume takes it.
CanTransition(from, to) ==
    \/ from = "recording"           /\ to \in {"uploaded", "abandoned", "deleted"}
    \/ from = "uploaded"            /\ to \in {"transcribing", "abandoned", "deleted"}
    \/ from = "transcribing"        /\ to \in {"transcribing", "transcribed",
                                               "transcribing_failed", "deleted"}
    \/ from = "transcribing_failed" /\ to \in {"transcribing", "deleted"}
    \/ from = "transcribed"         /\ to = "deleted"
    \/ from = "abandoned"           /\ to = "deleted"
=============================================================================
