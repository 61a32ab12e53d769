--------------------------- MODULE MCRequestSessions ---------------------------
(* Instances of RequestSessions for TLC. *)
EXTENDS RequestSessions
=============================================================================
