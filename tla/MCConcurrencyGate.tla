------------------------- MODULE MCConcurrencyGate --------------------------
(* ConcurrencyGate for TLC: callers are model values.                      *)
EXTENDS ConcurrencyGate
=============================================================================
