---------------------------- MODULE MCEmergencyStop ----------------------------
(* Instances of EmergencyStop for TLC: one owner with a few commands.        *)
EXTENDS EmergencyStop
=============================================================================
