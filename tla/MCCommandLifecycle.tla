-------------------------- MODULE MCCommandLifecycle --------------------------
(* Instances of CommandLifecycle for TLC: one command, and the reports its   *)
(* device sends.                                                             *)
EXTENDS CommandLifecycle

NoReports == {}
Refusal == {"declined"}
FullRun == {"accepted", "progress", "success"}

\* The service is disturbed for good after the first step. No action waits for
\* serving, so the other variables take the steps they take under Spec.
DisturbedSpec == Init /\ [][Next /\ ~serving']_vars
=============================================================================
