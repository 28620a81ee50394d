----------------------------- MODULE PermitPool -----------------------------
(***************************************************************************)
(* What a concurrency gate promises its callers, without its counter, its  *)
(* two queues, its timers or its abort listeners: at most Limit callers    *)
(* hold a permit, a caller waits only while all the permits are out, and a *)
(* permit that comes back goes to a waiting caller when there is one.      *)
(* ConcurrencyGate is shown to implement this module.                      *)
(***************************************************************************)
EXTENDS Naturals, FiniteSets

CONSTANTS
  Callers,  \* whoever may ask for a permit
  Limit     \* the number of permits

VARIABLES
  holders,  \* the callers that hold a permit
  waiting   \* the callers that wait for one

vars == <<holders, waiting>>

Init == holders = {} /\ waiting = {}

Absent(c) == c \notin holders /\ c \notin waiting

(* A free permit is taken at once, never past a waiting caller.            *)
Take(c) ==
  /\ Absent(c) /\ waiting = {} /\ Cardinality(holders) < Limit
  /\ holders' = holders \cup {c}
  /\ UNCHANGED waiting

(* A caller waits only when every permit is out.                           *)
Wait(c) ==
  /\ Absent(c) /\ Cardinality(holders) = Limit
  /\ waiting' = waiting \cup {c}
  /\ UNCHANGED holders

(* A waiting caller may be turned away (its timeout or its abort).         *)
GiveUp(c) ==
  /\ c \in waiting
  /\ waiting' = waiting \ {c}
  /\ UNCHANGED holders

(* A returned permit is handed over in the same step.                      *)
Return(c) ==
  /\ c \in holders
  /\ \/ /\ waiting = {}
        /\ holders' = holders \ {c}
        /\ UNCHANGED waiting
     \/ \E w \in waiting :
          /\ holders' = (holders \ {c}) \cup {w}
          /\ waiting' = waiting \ {w}

Next == \E c \in Callers : Take(c) \/ Wait(c) \/ GiveUp(c) \/ Return(c)

Spec == Init /\ [][Next]_vars
=============================================================================
