-------------------------- MODULE MCCriticalAlerts --------------------------
(* Bounds for checking CriticalAlerts with TLC. *)
EXTENDS CriticalAlerts, TLC

\* One tick for the commit of an evaluation, two for a recovery to be heard in.
MCCommitLag == 1
MCRecoverySeconds == 2
=============================================================================
