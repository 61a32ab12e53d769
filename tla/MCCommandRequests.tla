--------------------------- MODULE MCCommandRequests ---------------------------
(* Instances of CommandRequests for TLC.                                     *)
EXTENDS CommandRequests
=============================================================================
