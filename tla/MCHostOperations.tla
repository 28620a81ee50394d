-------------------------- MODULE MCHostOperations --------------------------
(* HostOperations on a small instance. *)
EXTENDS HostOperations
=============================================================================
