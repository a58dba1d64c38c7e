------------------------ MODULE MCParticipantConsent ------------------------
(* Model-checking instance of ParticipantConsent. *)
EXTENDS ParticipantConsent
=============================================================================
