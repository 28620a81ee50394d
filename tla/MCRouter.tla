------------------------------ MODULE MCRouter ------------------------------
(* Router for TLC: accounts and requests are interchangeable model values. *)
EXTENDS Router, TLC

Symmetry == Permutations(Accounts) \cup Permutations(Requests)
=============================================================================
