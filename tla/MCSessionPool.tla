--------------------------- MODULE MCSessionPool ----------------------------
(* SessionPool for TLC: requests are interchangeable model values.         *)
EXTENDS SessionPool, TLC

Symmetry == Permutations(Requests)
=============================================================================
