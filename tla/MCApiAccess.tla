---------------------------- MODULE MCApiAccess -----------------------------
(* ApiAccess for TLC: client keys and secrets are interchangeable.  A rule  *)
(* is written with host bits its prefix clears; the addresses are one in    *)
(* its network, one outside and one of the other width with the same value. *)
EXTENDS ApiAccess, TLC

MCModels == {"chat", "reasoner"}

MCAddresses ==
  {[bits |-> 2, value |-> 2], [bits |-> 2, value |-> 1], [bits |-> 3, value |-> 2]}

Confined ==
  [scopes   |-> {"chat"},
   networks |-> {[bits |-> 2, value |-> 3, prefix |-> 1]},
   models   |-> {"chat"}]

(* A rule the schema refuses.                                               *)
Unreadable ==
  [Confined EXCEPT !.networks = {[bits |-> 2, value |-> 3, prefix |-> 3]}]

MCPolicies == {Confined, Unreadable}

(* No action reads the last answer: states that differ in it only are one,  *)
(* and the properties, all of steps, are checked on every step all the same. *)
AllButAnswer ==
  <<now, keys, minutes, days, events, window, inFlight, history, requests, changes>>

Symmetry == Permutations(ClientKeys) \cup Permutations(Secrets)
=============================================================================
