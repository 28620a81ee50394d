-------------------------- MODULE MCHealthMonitor ---------------------------
(* HealthMonitor for TLC.                                                  *)
EXTENDS HealthMonitor
=============================================================================
