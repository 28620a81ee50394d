---------------------------- MODULE RouterProofs ----------------------------
(***************************************************************************)
(* Proofs about Router for every set of accounts and of requests, every    *)
(* concurrency, queue depth and reserve.                                   *)
(***************************************************************************)
EXTENDS Router, WellFoundedInduction, FiniteSetTheorems, SequenceTheorems, TLAPS

Gate == [holders : SUBSET Requests, queue : Seq(Requests)]

Types ==
  /\ gate \in [Accounts -> Gate]
  /\ pc \in [Requests -> Phase]
  /\ at \in [Requests -> Accounts \cup {NoAccount}]
  /\ attempted \in [Requests -> SUBSET Accounts]
  /\ DOMAIN status = Accounts

Elements(q) == {q[i] : i \in 1..Len(q)}

Distinct(q) == \A i, j \in 1..Len(q) : q[i] = q[j] => i = j

Outside == {"idle", "arrived", "waiting"}

(* The gates gs hold exactly what the requests R have in phases ps.        *)
Follow(R, gs, ps) ==
  \A a \in Accounts :
    /\ gs[a].holders = {q \in R : at[q] = a /\ ps[q] \notin Outside}
    /\ Elements(gs[a].queue) = {q \in R : at[q] = a /\ ps[q] = "waiting"}
    /\ Distinct(gs[a].queue)

(* The account a request waits for is one it has not tried, the one it     *)
(* works with one it has.                                                  *)
Tried ==
  \A r \in Requests :
    /\ pc[r] \in {"idle", "arrived"} => attempted[r] = {}
    /\ pc[r] \in {"waiting", "granted"} => at[r] \in Accounts \ attempted[r]
    /\ pc[r] \in {"forwarding", "priming", "serving"} => at[r] \in Accounts \cap attempted[r]

(* The inductive invariant: a released permit goes to whoever is in the    *)
(* queue, so the queue must name only waiting requests, and each once.     *)
IInv == Types /\ Follow(Requests, gate, pc) /\ Tried

(* The least of a set of natural numbers is one of them.                   *)
LEMMA MinIsMember ==
  ASSUME NEW S \in SUBSET Nat, S # {}
  PROVE  Min(S) \in S
  <1> DEFINE R == {ss \in Nat \X Nat : ss[1] < ss[2]}
  <1>1. IsWellFoundedOn(R, Nat)
    BY NatLessThanWellFounded DEF OpToRel
  <1>2. PICK x \in S : \A y \in S : ~ (<<y, x>> \in R)
    BY <1>1, WFMin
  <1>3. \A y \in S : x =< y
    <2> TAKE y \in S
    <2>1. x \in Nat /\ y \in Nat
      OBVIOUS
    <2>2. ~ (<<y, x>> \in R)
      BY <1>2
    <2>3. ~ (y < x)
      BY <2>1, <2>2
    <2> QED BY <2>1, <2>3
  <1>4. \E z \in S : \A y \in S : z =< y
    BY <1>3
  <1> QED BY <1>4 DEF Min

(* With gates gs and phases ps, r has left the gates and at most handed a  *)
(* permit on.                                                              *)
Detached(r, gs, ps) ==
  /\ gs \in [Accounts -> Gate]
  /\ ps \in [Requests -> Phase]
  /\ Follow(Requests \ {r}, gs, ps)
  /\ \A q \in Requests \ {r} : ps[q] = pc[q] \/ (pc[q] = "waiting" /\ ps[q] = "granted")

LEMMA RemoveAtFacts ==
  ASSUME NEW S, NEW q \in Seq(S), NEW i \in 1..Len(q), Distinct(q)
  PROVE  /\ RemoveAt(q, i) \in Seq(S)
         /\ Elements(RemoveAt(q, i)) = Elements(q) \ {q[i]}
         /\ Distinct(RemoveAt(q, i))
  <1> DEFINE p == RemoveAt(q, i)
  <1>1. /\ p \in Seq(S) /\ Len(p) = Len(q) - 1
        /\ \A j \in 1..(Len(q) - 1) : p[j] = IF j < i THEN q[j] ELSE q[j + 1]
    <2> DEFINE u == SubSeq(q, 1, i - 1)
               v == SubSeq(q, i + 1, Len(q))
    <2>1. Len(q) \in Nat /\ i \in 1..Len(q)
      OBVIOUS
    <2>2. u \in Seq(S) /\ Len(u) = i - 1 /\ \A j \in 1..(i - 1) : u[j] = q[j]
      BY <2>1, SubSeqProperties
    <2>3. v \in Seq(S) /\ Len(v) = Len(q) - i /\ \A j \in 1..(Len(q) - i) : v[j] = q[i + j]
      BY <2>1, SubSeqProperties
    <2>4. p = u \o v
      BY DEF RemoveAt
    <2> HIDE DEF u, v, p
    <2>5. p \in Seq(S) /\ Len(p) = Len(q) - 1
      BY <2>1, <2>2, <2>3, <2>4
    <2>6. ASSUME NEW j \in 1..(Len(q) - 1)
          PROVE  p[j] = IF j < i THEN q[j] ELSE q[j + 1]
      <3>1. p[j] = IF j <= Len(u) THEN u[j] ELSE v[j - Len(u)]
        BY <2>1, <2>2, <2>3, <2>4, <2>5
      <3>2. CASE j < i
        BY <2>1, <2>2, <3>1, <3>2
      <3>3. CASE ~(j < i)
        <4>1. j - Len(u) \in 1..(Len(q) - i) /\ i + (j - Len(u)) = j + 1 /\ ~(j <= Len(u))
          BY <2>1, <2>2, <3>3
        <4> QED BY <2>3, <3>1, <3>3, <4>1
      <3> QED BY <3>2, <3>3
    <2> QED BY <2>5, <2>6
  <1> HIDE DEF p
  <1>2. Distinct(p)
    <2> SUFFICES ASSUME NEW j \in 1..Len(p), NEW k \in 1..Len(p), p[j] = p[k] PROVE j = k
      BY DEF Distinct
    <2>1. Len(q) \in Nat /\ j \in 1..(Len(q) - 1) /\ k \in 1..(Len(q) - 1)
      BY <1>1
    <2> DEFINE J == IF j < i THEN j ELSE j + 1
               K == IF k < i THEN k ELSE k + 1
    <2>2. J \in 1..Len(q) /\ K \in 1..Len(q) /\ p[j] = q[J] /\ p[k] = q[K]
      BY <1>1, <2>1
    <2>3. J = K
      BY <2>2 DEF Distinct
    <2> QED BY <2>1, <2>3
  <1>3. Elements(p) \subseteq Elements(q) \ {q[i]}
    <2> SUFFICES ASSUME NEW j \in 1..Len(p)
                 PROVE  p[j] \in Elements(q) \ {q[i]}
      BY DEF Elements
    <2>1. Len(q) \in Nat /\ j \in 1..(Len(q) - 1)
      BY <1>1
    <2> DEFINE J == IF j < i THEN j ELSE j + 1
    <2>2. J \in 1..Len(q) /\ J # i /\ p[j] = q[J]
      BY <1>1, <2>1
    <2> HIDE DEF J
    <2> QED BY <2>2 DEF Distinct, Elements
  <1>4. Elements(q) \ {q[i]} \subseteq Elements(p)
    <2> SUFFICES ASSUME NEW J \in 1..Len(q), q[J] # q[i]
                 PROVE  q[J] \in Elements(p)
      BY DEF Elements
    <2> DEFINE j == IF J < i THEN J ELSE J - 1
    <2>1. Len(q) \in Nat /\ J # i
      OBVIOUS
    <2>2. j \in 1..(Len(q) - 1) /\ p[j] = q[J]
      BY <1>1, <2>1
    <2>3. j \in 1..Len(p)
      BY <1>1, <2>2
    <2> HIDE DEF j
    <2> QED BY <2>2, <2>3 DEF Elements
  <1> QED BY <1>1, <1>2, <1>3, <1>4 DEF p

LEMMA AppendElements ==
  ASSUME NEW S, NEW q \in Seq(S), NEW r \in S
  PROVE  Elements(Append(q, r)) = Elements(q) \cup {r}
  <1> DEFINE p == Append(q, r)
  <1>1. /\ Len(p) = Len(q) + 1 /\ Len(q) \in Nat
        /\ \A i \in 1..Len(p) : p[i] = IF i <= Len(q) THEN q[i] ELSE r
    OBVIOUS
  <1> HIDE DEF p
  <1>2. Elements(p) \subseteq Elements(q) \cup {r}
    BY <1>1 DEF Elements
  <1>3. r \in Elements(p)
    <2>1. Len(q) + 1 \in 1..Len(p) /\ p[Len(q) + 1] = r
      BY <1>1
    <2> QED BY <2>1 DEF Elements
  <1>4. ASSUME NEW i \in 1..Len(q) PROVE q[i] \in Elements(p)
    <2>1. i \in 1..Len(p) /\ p[i] = q[i]
      BY <1>1
    <2> QED BY <2>1 DEF Elements
  <1> QED BY <1>2, <1>3, <1>4 DEF Elements, p

LEMMA RouterInit == Init => IInv
  <1> SUFFICES ASSUME Init PROVE IInv
    OBVIOUS
  <1> USE DEF Init
  <1>1. Types
    BY DEF Types, Gate, Phase
  <1>2. Follow(Requests, gate, pc)
    BY DEF Follow, Elements, Distinct, Outside
  <1>3. Tried
    BY DEF Tried
  <1> QED BY <1>1, <1>2, <1>3 DEF IInv

-----------------------------------------------------------------------------
(* The three ways in which a request is detached from the gates.           *)

LEMMA DetachedOutside ==
  ASSUME IInv, NEW r \in Requests, pc[r] \in {"idle", "arrived"}
  PROVE  Detached(r, gate, pc)
  BY DEF IInv, Types, Follow, Outside, Detached

LEMMA DetachedByLeaving ==
  ASSUME IInv, NEW r \in Requests, pc[r] = "waiting"
  PROVE  Detached(r, GatesLeft(r), pc)
  <1> DEFINE a == at[r]
             q == gate[a].queue
             i == Place(q, r)
  <1>1. a \in Accounts /\ gate[a] \in Gate /\ q \in Seq(Requests)
    BY DEF IInv, Types, Gate, Tried
  <1>2. r \in Elements(q) /\ Distinct(q)
    BY <1>1 DEF IInv, Follow
  <1>3. i \in 1..Len(q) /\ q[i] = r
    BY <1>2 DEF Elements, Place
  <1> HIDE DEF i
  <1> DEFINE p == RemoveAt(q, i)
  <1>4. p \in Seq(Requests) /\ Elements(p) = Elements(q) \ {r} /\ Distinct(p)
    BY <1>1, <1>2, <1>3, RemoveAtFacts
  <1>5. GatesLeft(r) = [gate EXCEPT ![a].queue = p]
    BY DEF GatesLeft, i
  <1> HIDE DEF p
  <1>6. GatesLeft(r) \in [Accounts -> Gate]
    BY <1>1, <1>4, <1>5 DEF IInv, Types, Gate
  <1>7. Follow(Requests \ {r}, GatesLeft(r), pc)
    <2> SUFFICES ASSUME NEW b \in Accounts
                 PROVE  /\ GatesLeft(r)[b].holders
                             = {x \in Requests \ {r} : at[x] = b /\ pc[x] \notin Outside}
                        /\ Elements(GatesLeft(r)[b].queue)
                             = {x \in Requests \ {r} : at[x] = b /\ pc[x] = "waiting"}
                        /\ Distinct(GatesLeft(r)[b].queue)
      BY DEF Follow
    <2>1. /\ gate[b].holders = {x \in Requests : at[x] = b /\ pc[x] \notin Outside}
          /\ Elements(gate[b].queue) = {x \in Requests : at[x] = b /\ pc[x] = "waiting"}
          /\ Distinct(gate[b].queue)
      BY DEF IInv, Follow
    <2>2. /\ GatesLeft(r)[b].holders = gate[b].holders
          /\ GatesLeft(r)[b].queue = IF b = a THEN p ELSE gate[b].queue
      BY <1>1, <1>5 DEF IInv, Types, Gate
    <2> QED BY <1>4, <2>1, <2>2 DEF Outside
  <1> QED BY <1>6, <1>7 DEF Detached, IInv, Types

LEMMA FirstWaiterInQueue ==
  ASSUME NEW q \in Seq(Requests), q # <<>>
  PROVE  FirstWaiter(q) \in 1..Len(q)
  <1> DEFINE foreground == {i \in 1..Len(q) : q[i] \notin background}
  <1>1. Len(q) \in Nat /\ 1 \in 1..Len(q)
    OBVIOUS
  <1>2. CASE foreground = {}
    BY <1>1, <1>2 DEF FirstWaiter
  <1>3. CASE foreground # {}
    <2>1. foreground \in SUBSET Nat
      BY <1>1
    <2>2. Min(foreground) \in foreground
      BY <1>3, <2>1, MinIsMember
    <2> QED BY <1>3, <2>2 DEF FirstWaiter
  <1> QED BY <1>2, <1>3

LEMMA DetachedByRelease ==
  ASSUME IInv, NEW r \in Requests, pc[r] \notin Outside
  PROVE  Detached(r, GatesWithout(r), PhasesWithout(r))
  <1> DEFINE a == at[r]
             g == gate[a]
             i == FirstWaiter(g.queue)
             s == g.queue[i]
             h == Returned(r, a)
  <1>1. /\ pc \in [Requests -> Phase] /\ at \in [Requests -> Accounts \cup {NoAccount}]
        /\ gate \in [Accounts -> Gate]
    BY DEF IInv, Types
  <1>2. a \in Accounts /\ g \in Gate /\ g.queue \in Seq(Requests) /\ g.holders \subseteq Requests
    BY <1>1 DEF IInv, Tried, Gate, Phase, Outside
  <1>3. /\ g.holders = {x \in Requests : at[x] = a /\ pc[x] \notin Outside}
        /\ Elements(g.queue) = {x \in Requests : at[x] = a /\ pc[x] = "waiting"}
        /\ Distinct(g.queue)
    BY <1>2 DEF IInv, Follow
  <1>4. /\ h \in Gate
        /\ h.holders = {x \in Requests \ {r} : at[x] = a /\ PhasesWithout(r)[x] \notin Outside}
        /\ Elements(h.queue)
             = {x \in Requests \ {r} : at[x] = a /\ PhasesWithout(r)[x] = "waiting"}
        /\ Distinct(h.queue)
        /\ \A x \in Requests : at[x] # a /\ pc[x] = "waiting" => x \notin h.holders
    <2>1. CASE g.queue = <<>>
      <3>1. h = [g EXCEPT !.holders = @ \ {r}]
        BY <2>1 DEF Returned
      <3>2. h \in Gate /\ h.holders = g.holders \ {r} /\ h.queue = g.queue
        BY <1>2, <3>1 DEF Gate
      <3>3. \A x \in Requests : PhasesWithout(r)[x] = pc[x]
        BY <1>3, <3>2 DEF PhasesWithout, Outside
      <3>4. \A x \in Requests : at[x] = a => pc[x] # "waiting"
        BY <1>3, <2>1 DEF Elements
      <3> QED BY <1>3, <3>2, <3>3, <3>4 DEF Outside
    <2>2. CASE g.queue # <<>>
      <3>1. h = [holders |-> (g.holders \ {r}) \cup {s}, queue |-> RemoveAt(g.queue, i)]
        BY <2>2 DEF Returned
      <3>2. i \in 1..Len(g.queue)
        BY <1>2, <2>2, FirstWaiterInQueue
      <3>3. s \in Elements(g.queue)
        BY <3>2 DEF Elements
      <3>4. s \in Requests /\ at[s] = a /\ pc[s] = "waiting" /\ s # r
        BY <1>3, <3>3 DEF Outside
      <3>5. /\ RemoveAt(g.queue, i) \in Seq(Requests)
            /\ Elements(RemoveAt(g.queue, i)) = Elements(g.queue) \ {s}
            /\ Distinct(RemoveAt(g.queue, i))
        BY <1>2, <1>3, <3>2, RemoveAtFacts
      <3> HIDE DEF i, s
      <3>6. /\ h \in Gate /\ h.holders = (g.holders \ {r}) \cup {s}
            /\ Elements(h.queue) = Elements(g.queue) \ {s} /\ Distinct(h.queue)
        BY <1>2, <3>1, <3>4, <3>5 DEF Gate
      <3> HIDE DEF h
      <3>7. \A x \in Requests :
              PhasesWithout(r)[x] = IF x = s THEN "granted" ELSE pc[x]
        BY <1>3, <3>4, <3>6 DEF PhasesWithout, Outside, h
      <3> HIDE DEF g
      <3> QED BY <1>3, <3>4, <3>6, <3>7 DEF Outside
    <2> QED BY <2>1, <2>2
  <1>5. GatesWithout(r) = [gate EXCEPT ![a] = h]
    BY DEF GatesWithout
  <1> HIDE DEF h, g
  <1>6. GatesWithout(r) \in [Accounts -> Gate]
    BY <1>1, <1>4, <1>5
  <1>7. \A x \in Requests :
          /\ PhasesWithout(r)[x] = pc[x] \/ (pc[x] = "waiting" /\ PhasesWithout(r)[x] = "granted")
          /\ at[x] # a => PhasesWithout(r)[x] = pc[x]
    BY <1>4 DEF PhasesWithout, h
  <1>8. PhasesWithout(r) \in [Requests -> Phase]
    BY <1>1 DEF PhasesWithout, Phase
  <1>9. Follow(Requests \ {r}, GatesWithout(r), PhasesWithout(r))
    <2> SUFFICES ASSUME NEW b \in Accounts
                 PROVE  /\ GatesWithout(r)[b].holders
                             = {x \in Requests \ {r} : at[x] = b /\ PhasesWithout(r)[x] \notin Outside}
                        /\ Elements(GatesWithout(r)[b].queue)
                             = {x \in Requests \ {r} : at[x] = b /\ PhasesWithout(r)[x] = "waiting"}
                        /\ Distinct(GatesWithout(r)[b].queue)
      BY DEF Follow
    <2>1. CASE b = a
      <3>1. GatesWithout(r)[b] = h
        BY <1>1, <1>5, <2>1
      <3> QED BY <1>4, <2>1, <3>1
    <2>2. CASE b # a
      <3>1. GatesWithout(r)[b] = gate[b]
        BY <1>1, <1>5, <2>2
      <3>2. /\ gate[b].holders = {x \in Requests : at[x] = b /\ pc[x] \notin Outside}
            /\ Elements(gate[b].queue) = {x \in Requests : at[x] = b /\ pc[x] = "waiting"}
            /\ Distinct(gate[b].queue)
        BY DEF IInv, Follow
      <3>3. \A x \in Requests : at[x] = b => x # r /\ PhasesWithout(r)[x] = pc[x]
        BY <1>7, <2>2
      <3> QED BY <3>1, <3>2, <3>3
    <2> QED BY <2>1, <2>2
  <1> QED BY <1>6, <1>7, <1>8, <1>9 DEF Detached

-----------------------------------------------------------------------------
(* The three ways in which a handler goes on with a detached request.      *)

LEMMA DoneKeeps ==
  ASSUME IInv, NEW r \in Requests, NEW gs, NEW ps, Detached(r, gs, ps),
         Done(r, gs, ps), DOMAIN status' = Accounts
  PROVE  IInv'
  <1> USE DEF Done
  <1>1. Types'
    <2>1. /\ gs \in [Accounts -> Gate] /\ ps \in [Requests -> Phase]
          /\ at \in [Requests -> Accounts \cup {NoAccount}]
          /\ attempted \in [Requests -> SUBSET Accounts]
      BY DEF IInv, Types, Detached
    <2>2. pc' \in [Requests -> Phase]
      BY <2>1 DEF Phase
    <2>3. at' \in [Requests -> Accounts \cup {NoAccount}]
      BY <2>1
    <2>4. attempted' \in [Requests -> SUBSET Accounts]
      BY <2>1
    <2> QED BY <2>1, <2>2, <2>3, <2>4 DEF Types
  <1>2. \A q \in Requests :
          /\ pc'[q] = IF q = r THEN "idle" ELSE ps[q]
          /\ at'[q] = IF q = r THEN NoAccount ELSE at[q]
          /\ attempted'[q] = IF q = r THEN {} ELSE attempted[q]
    BY DEF IInv, Types, Detached
  <1>3. Follow(Requests, gate, pc)'
    <2> SUFFICES ASSUME NEW a \in Accounts
                 PROVE  /\ gs[a].holders
                             = {q \in Requests : at'[q] = a /\ pc'[q] \notin Outside}
                        /\ Elements(gs[a].queue)
                             = {q \in Requests : at'[q] = a /\ pc'[q] = "waiting"}
                        /\ Distinct(gs[a].queue)
      BY DEF Follow, Elements, Distinct
    <2>1. /\ gs[a].holders = {q \in Requests \ {r} : at[q] = a /\ ps[q] \notin Outside}
          /\ Elements(gs[a].queue) = {q \in Requests \ {r} : at[q] = a /\ ps[q] = "waiting"}
          /\ Distinct(gs[a].queue)
      BY DEF Detached, Follow
    <2>2. a # NoAccount
      BY RouterAssumption
    <2> QED BY <1>2, <2>1, <2>2 DEF Outside
  <1>4. Tried'
    BY <1>2 DEF IInv, Detached, Tried
  <1> QED BY <1>1, <1>3, <1>4 DEF IInv

LEMMA DispatchKeeps ==
  ASSUME IInv, NEW r \in Requests, NEW gs, NEW ps, Detached(r, gs, ps),
         NEW a \in Accounts, NEW tried \in SUBSET Accounts,
         Dispatch(r, a, gs, ps, tried), DOMAIN status' = Accounts
  PROVE  IInv'
  <1> USE DEF Dispatch
  <1>1. /\ gs \in [Accounts -> Gate] /\ ps \in [Requests -> Phase]
        /\ at \in [Requests -> Accounts \cup {NoAccount}]
        /\ attempted \in [Requests -> SUBSET Accounts]
    BY DEF IInv, Types, Detached
  <1>2. /\ gate' \in [Accounts -> Gate]
        /\ \A b \in Accounts :
             /\ gate'[b].holders = IF b = a THEN gs[b].holders \cup {r} ELSE gs[b].holders
             /\ gate'[b].queue = gs[b].queue
    BY <1>1 DEF Gate
  <1>3. Types'
    <2>1. pc' \in [Requests -> Phase]
      BY <1>1 DEF Phase
    <2>2. at' \in [Requests -> Accounts \cup {NoAccount}]
      BY <1>1
    <2>3. attempted' \in [Requests -> SUBSET Accounts]
      BY <1>1
    <2> QED BY <1>2, <2>1, <2>2, <2>3 DEF Types
  <1>4. \A q \in Requests :
          /\ pc'[q] = IF q = r THEN "forwarding" ELSE ps[q]
          /\ at'[q] = IF q = r THEN a ELSE at[q]
          /\ attempted'[q] = IF q = r THEN tried \cup {a} ELSE attempted[q]
    BY <1>1
  <1>5. Follow(Requests, gate, pc)'
    <2> SUFFICES ASSUME NEW b \in Accounts
                 PROVE  /\ gate'[b].holders
                             = {q \in Requests : at'[q] = b /\ pc'[q] \notin Outside}
                        /\ Elements(gate'[b].queue)
                             = {q \in Requests : at'[q] = b /\ pc'[q] = "waiting"}
                        /\ Distinct(gate'[b].queue)
      BY DEF Follow, Elements, Distinct
    <2>1. /\ gs[b].holders = {q \in Requests \ {r} : at[q] = b /\ ps[q] \notin Outside}
          /\ Elements(gs[b].queue) = {q \in Requests \ {r} : at[q] = b /\ ps[q] = "waiting"}
          /\ Distinct(gs[b].queue)
      BY DEF Detached, Follow
    <2> HIDE DEF Dispatch
    <2>2. gate'[b].holders = {q \in Requests : at'[q] = b /\ pc'[q] \notin Outside}
      <3> DEFINE held == {q \in Requests : at'[q] = b /\ pc'[q] \notin Outside}
      <3>1. \A q \in Requests \ {r} : q \in held <=> q \in gs[b].holders
        BY <1>4, <2>1
      <3>2. r \in held <=> a = b
        BY <1>4 DEF Outside
      <3>3. r \notin gs[b].holders /\ gs[b].holders \subseteq Requests
        BY <2>1
      <3> HIDE DEF held
      <3>4. held \subseteq Requests
        BY DEF held
      <3>5. held = IF b = a THEN gs[b].holders \cup {r} ELSE gs[b].holders
        BY <3>1, <3>2, <3>3, <3>4
      <3> QED BY <1>2, <3>5 DEF held
    <2>3. Elements(gate'[b].queue) = {q \in Requests : at'[q] = b /\ pc'[q] = "waiting"}
      BY <1>2, <1>4, <2>1
    <2>4. Distinct(gate'[b].queue)
      BY <1>2, <2>1
    <2> QED BY <2>2, <2>3, <2>4
  <1>6. Tried'
    BY <1>4 DEF IInv, Detached, Tried
  <1> QED BY <1>3, <1>5, <1>6 DEF IInv

LEMMA QueueKeeps ==
  ASSUME IInv, NEW r \in Requests, NEW gs, NEW ps, Detached(r, gs, ps),
         NEW tried \in SUBSET Accounts, NEW cands \in SUBSET (Accounts \ tried),
         Queue(r, cands, gs, ps, tried), DOMAIN status' = Accounts
  PROVE  IInv'
  <1>1. CASE Done(r, gs, ps)
    BY <1>1, DoneKeeps
  <1>2. ASSUME NEW a \in cands,
               gate' = [gs EXCEPT ![a].queue = Append(@, r)],
               pc' = [ps EXCEPT ![r] = "waiting"],
               at' = [at EXCEPT ![r] = a],
               attempted' = [attempted EXCEPT ![r] = tried]
        PROVE  IInv'
    <2> DEFINE q == gs[a].queue
               p == Append(q, r)
    <2>1. /\ gs \in [Accounts -> Gate] /\ ps \in [Requests -> Phase]
          /\ at \in [Requests -> Accounts \cup {NoAccount}]
          /\ attempted \in [Requests -> SUBSET Accounts]
          /\ a \in Accounts \ tried /\ q \in Seq(Requests)
      BY DEF IInv, Types, Detached, Gate
    <2>2. /\ Elements(q) = {x \in Requests \ {r} : at[x] = a /\ ps[x] = "waiting"}
          /\ Distinct(q)
      BY <2>1 DEF Detached, Follow
    <2>3. /\ p \in Seq(Requests) /\ Len(p) = Len(q) + 1 /\ Len(q) \in Nat
          /\ \A i \in 1..Len(p) : p[i] = IF i <= Len(q) THEN q[i] ELSE r
      BY <2>1
    <2> HIDE DEF p
    <2>4. Elements(p) = Elements(q) \cup {r}
      BY <2>1, AppendElements DEF p
    <2>5. Distinct(p)
      <3>1. \A i \in 1..Len(q) : q[i] # r
        BY <2>2 DEF Elements
      <3> QED BY <2>2, <2>3, <3>1 DEF Distinct
    <2>6. /\ gate' \in [Accounts -> Gate]
          /\ \A b \in Accounts :
               /\ gate'[b].holders = gs[b].holders
               /\ gate'[b].queue = IF b = a THEN p ELSE gs[b].queue
      BY <1>2, <2>1, <2>3 DEF Gate, p
    <2>7. Types'
      <3>1. pc' \in [Requests -> Phase]
        BY <1>2, <2>1 DEF Phase
      <3>2. at' \in [Requests -> Accounts \cup {NoAccount}]
        BY <1>2, <2>1
      <3>3. attempted' \in [Requests -> SUBSET Accounts]
        BY <1>2, <2>1
      <3> QED BY <2>6, <3>1, <3>2, <3>3 DEF Types
    <2>8. \A x \in Requests :
            /\ pc'[x] = IF x = r THEN "waiting" ELSE ps[x]
            /\ at'[x] = IF x = r THEN a ELSE at[x]
            /\ attempted'[x] = IF x = r THEN tried ELSE attempted[x]
      BY <1>2, <2>1
    <2>9. Follow(Requests, gate, pc)'
      <3> SUFFICES ASSUME NEW b \in Accounts
                   PROVE  /\ gate'[b].holders
                               = {x \in Requests : at'[x] = b /\ pc'[x] \notin Outside}
                          /\ Elements(gate'[b].queue)
                               = {x \in Requests : at'[x] = b /\ pc'[x] = "waiting"}
                          /\ Distinct(gate'[b].queue)
        BY DEF Follow, Elements, Distinct
      <3>1. /\ gs[b].holders = {x \in Requests \ {r} : at[x] = b /\ ps[x] \notin Outside}
            /\ Elements(gs[b].queue) = {x \in Requests \ {r} : at[x] = b /\ ps[x] = "waiting"}
            /\ Distinct(gs[b].queue)
        BY DEF Detached, Follow
      <3>2. gate'[b].holders = {x \in Requests : at'[x] = b /\ pc'[x] \notin Outside}
        BY <2>6, <2>8, <3>1 DEF Outside
      <3>3. Elements(gate'[b].queue) = {x \in Requests : at'[x] = b /\ pc'[x] = "waiting"}
        BY <2>4, <2>6, <2>8, <3>1
      <3>4. Distinct(gate'[b].queue)
        BY <2>5, <2>6, <3>1
      <3> QED BY <3>2, <3>3, <3>4
    <2>10. Tried'
      BY <2>1, <2>8 DEF IInv, Detached, Tried
    <2> QED BY <2>7, <2>9, <2>10 DEF IInv
  <1> QED BY <1>1, <1>2 DEF Queue

LEMMA RouteKeeps ==
  ASSUME IInv, NEW r \in Requests, NEW gs, NEW ps, Detached(r, gs, ps),
         NEW tried \in SUBSET Accounts, Route(r, gs, ps, tried),
         DOMAIN status' = Accounts
  PROVE  IInv'
  <1> DEFINE cands == {a \in Accounts : Eligible(a, status', open')} \ tried
  <1> HIDE DEF cands
  <1>0. cands \in SUBSET (Accounts \ tried)
    BY DEF cands
  <1>1. CASE Done(r, gs, ps)
    BY <1>1, DoneKeeps
  <1>2. ASSUME NEW a \in cands, Dispatch(r, a, gs, ps, tried) PROVE IInv'
    BY <1>0, <1>2, DispatchKeeps
  <1>3. CASE Queue(r, cands, gs, ps, tried)
    BY <1>0, <1>3, QueueKeeps
  <1>4. CASE ReserveCandidate(r, cands, gs, ps, tried)
    BY <1>2, <1>3, <1>4 DEF ReserveCandidate
  <1>5. CASE ReserveBackground(r, cands, gs, ps, tried)
    BY <1>1, <1>2, <1>5 DEF ReserveBackground
  <1> QED BY <1>1, <1>4, <1>5 DEF Route, cands

-----------------------------------------------------------------------------
(* The invariant.                                                          *)

(* What a handler does to the statuses leaves every account one.           *)
LEMMA StatusKept ==
  ASSUME Types, NEW a, NEW s, SetStatus(a, s)
  PROVE  DOMAIN status' = Accounts
  BY DEF Types, SetStatus

(* Steps that move no request between the gates.                           *)
LEMMA PhaseStepKeeps ==
  ASSUME IInv, NEW r \in Requests, NEW phase \in Phase, pc' = [pc EXCEPT ![r] = phase],
         \/ pc[r] = "idle" /\ phase = "arrived"
         \/ pc[r] \in {"forwarding", "priming"} /\ phase \in {"priming", "serving"},
         UNCHANGED <<gate, at, attempted, status>>
  PROVE  IInv'
  <1>1. Types'
    BY DEF IInv, Types
  <1>2. \A q \in Requests : pc'[q] = IF q = r THEN phase ELSE pc[q]
    BY DEF IInv, Types
  <1>3. Follow(Requests, gate, pc)'
    <2> SUFFICES ASSUME NEW a \in Accounts
                 PROVE  /\ gate[a].holders
                             = {q \in Requests : at[q] = a /\ pc'[q] \notin Outside}
                        /\ Elements(gate[a].queue)
                             = {q \in Requests : at[q] = a /\ pc'[q] = "waiting"}
                        /\ Distinct(gate[a].queue)
      BY DEF Follow, Elements, Distinct
    <2>1. /\ gate[a].holders = {q \in Requests : at[q] = a /\ pc[q] \notin Outside}
          /\ Elements(gate[a].queue) = {q \in Requests : at[q] = a /\ pc[q] = "waiting"}
          /\ Distinct(gate[a].queue)
      BY DEF IInv, Follow
    <2> QED BY <1>2, <2>1 DEF Outside
  <1>4. Tried'
    BY <1>2 DEF IInv, Tried
  <1> QED BY <1>1, <1>3, <1>4 DEF IInv

(* After the await the request has the permit it is dispatched with.       *)
LEMMA ResumeKeeps ==
  ASSUME IInv, NEW r \in Requests, pc[r] = "granted", UNCHANGED status,
         Dispatch(r, at[r], gate, pc, attempted[r])
  PROVE  IInv'
  <1> DEFINE a == at[r]
  <1>1. /\ gate \in [Accounts -> Gate] /\ pc \in [Requests -> Phase]
        /\ at \in [Requests -> Accounts \cup {NoAccount}]
        /\ attempted \in [Requests -> SUBSET Accounts]
        /\ a \in Accounts /\ r \in gate[a].holders
    BY DEF IInv, Types, Tried, Follow, Outside
  <1>2. /\ gate' \in [Accounts -> Gate]
        /\ \A b \in Accounts : gate'[b].holders = gate[b].holders /\ gate'[b].queue = gate[b].queue
    BY <1>1 DEF Dispatch, Gate
  <1>3. \A q \in Requests :
          /\ pc'[q] = IF q = r THEN "forwarding" ELSE pc[q]
          /\ at'[q] = at[q]
          /\ attempted'[q] = IF q = r THEN attempted[r] \cup {a} ELSE attempted[q]
    BY <1>1 DEF Dispatch
  <1>4. Types'
    <2>1. pc' \in [Requests -> Phase]
      BY <1>1 DEF Dispatch, Phase
    <2>2. at' \in [Requests -> Accounts \cup {NoAccount}]
      BY <1>1 DEF Dispatch
    <2>3. attempted' \in [Requests -> SUBSET Accounts]
      BY <1>1 DEF Dispatch
    <2> QED BY <1>2, <2>1, <2>2, <2>3 DEF IInv, Types
  <1>5. Follow(Requests, gate, pc)'
    <2> SUFFICES ASSUME NEW b \in Accounts
                 PROVE  /\ gate'[b].holders
                             = {q \in Requests : at'[q] = b /\ pc'[q] \notin Outside}
                        /\ Elements(gate'[b].queue)
                             = {q \in Requests : at'[q] = b /\ pc'[q] = "waiting"}
                        /\ Distinct(gate'[b].queue)
      BY DEF Follow, Elements, Distinct
    <2>1. /\ gate[b].holders = {q \in Requests : at[q] = b /\ pc[q] \notin Outside}
          /\ Elements(gate[b].queue) = {q \in Requests : at[q] = b /\ pc[q] = "waiting"}
          /\ Distinct(gate[b].queue)
      BY DEF IInv, Follow
    <2>2. gate'[b].holders = {q \in Requests : at'[q] = b /\ pc'[q] \notin Outside}
      BY <1>2, <1>3, <2>1 DEF Outside
    <2>3. Elements(gate'[b].queue) = {q \in Requests : at'[q] = b /\ pc'[q] = "waiting"}
      BY <1>2, <1>3, <2>1
    <2> QED BY <1>2, <2>1, <2>2, <2>3
  <1>6. Tried'
    BY <1>1, <1>3 DEF IInv, Tried
  <1> QED BY <1>4, <1>5, <1>6 DEF IInv

(* The answer of a forwarded request, and the failure of a primed one.     *)
LEMMA ForwardFailsKeeps ==
  ASSUME IInv, NEW r \in Requests, NEW kind, ForwardFails(r, kind)
  PROVE  IInv'
  <1> DEFINE gs == GatesWithout(r)
             ps == PhasesWithout(r)
  <1>1. Detached(r, gs, ps)
    BY DetachedByRelease DEF ForwardFails, Outside
  <1>2. DOMAIN status' = Accounts
    BY StatusKept DEF IInv, Types, ForwardFails, HandleFailure, accountVars
  <1>3. attempted[r] \in SUBSET Accounts
    BY DEF IInv, Types
  <1> HIDE DEF gs, ps
  <1>4. CASE Done(r, gs, ps)
    BY <1>1, <1>2, <1>4, DoneKeeps
  <1>5. CASE Route(r, gs, ps, attempted[r])
    BY <1>1, <1>2, <1>3, <1>5, RouteKeeps
  <1> QED BY <1>4, <1>5 DEF ForwardFails, gs, ps

LEMMA RequestKeeps ==
  ASSUME IInv, NEW r \in Requests,
         \/ \E isBackground, isStream \in BOOLEAN : Arrive(r, isBackground, isStream)
         \/ Start(r) \/ Abort(r) \/ QueueTimeout(r) \/ Resume(r) \/ Provider(r)
  PROVE  IInv'
  <1> DEFINE gs == GatesWithout(r)
             ps == PhasesWithout(r)
  <1>0. /\ DOMAIN status = Accounts /\ attempted[r] \in SUBSET Accounts
        /\ pc[r] \notin Outside => Detached(r, gs, ps)
    BY DetachedByRelease DEF IInv, Types
  <1> HIDE DEF gs, ps
  <1>1. ASSUME NEW isBackground \in BOOLEAN, NEW isStream \in BOOLEAN,
               Arrive(r, isBackground, isStream)
        PROVE  IInv'
    BY <1>1, PhaseStepKeeps DEF Arrive, accountVars, Phase
  <1>2. CASE Start(r)
    <2>1. Detached(r, gate, pc) /\ DOMAIN status' = Accounts
      BY <1>0, <1>2, DetachedOutside DEF Start, accountVars
    <2> QED BY <1>2, <2>1, RouteKeeps DEF Start
  <1>3. CASE Abort(r) \/ QueueTimeout(r)
    <2>1. DOMAIN status' = Accounts
      BY <1>0, <1>3 DEF Abort, QueueTimeout, accountVars
    <2>2. CASE pc[r] = "waiting" /\ Done(r, GatesLeft(r), pc)
      BY <2>1, <2>2, DetachedByLeaving, DoneKeeps
    <2>3. CASE UNCHANGED <<used, gate, pc, at, attempted, background, streaming>>
      <3>1. Types'
        BY <2>1, <2>3 DEF IInv, Types
      <3>2. Follow(Requests, gate, pc)'
        BY <2>3 DEF IInv, Follow, Elements, Distinct
      <3> QED BY <2>3, <3>1, <3>2 DEF IInv, Tried
    <2> QED BY <1>3, <2>2, <2>3 DEF Abort, QueueTimeout
  <1>4. CASE Resume(r)
    <2>1. status' = status /\ pc[r] = "granted"
      BY <1>4 DEF Resume, accountVars
    <2>2. CASE Dispatch(r, at[r], gate, pc, attempted[r])
      BY <2>1, <2>2, ResumeKeeps
    <2>3. CASE Done(r, gs, ps)
      BY <1>0, <2>1, <2>3, DoneKeeps DEF Outside
    <2> QED BY <1>4, <2>2, <2>3 DEF Resume, gs, ps
  <1>5. CASE ForwardSucceeds(r)
    <2>1. PICK phase \in {"priming", "serving"} : pc' = [pc EXCEPT ![r] = phase]
      BY <1>5 DEF ForwardSucceeds
    <2> QED BY <1>5, <2>1, PhaseStepKeeps DEF ForwardSucceeds, accountVars, Phase
  <1>6. CASE StreamPrimed(r)
    BY <1>6, PhaseStepKeeps DEF StreamPrimed, accountVars, Phase
  <1>7. CASE PrimeFails(r)
    <2>1. pc[r] \notin Outside /\ Route(r, gs, ps, attempted[r]) /\ status' = status
      BY <1>7 DEF PrimeFails, Outside, gs, ps
    <2> QED BY <1>0, <2>1, RouteKeeps
  <1>8. CASE FinishWell(r)
    <2>1. pc[r] \notin Outside /\ Done(r, gs, ps)
      BY <1>8 DEF FinishWell, Outside, gs, ps
    <2>2. DOMAIN status' = Accounts
      BY <1>8, StatusKept DEF FinishWell, IInv
    <2> QED BY <1>0, <2>1, <2>2, DoneKeeps
  <1>9. ASSUME NEW kind \in Kinds, FinishBadly(r, kind)
        PROVE  IInv'
    <2>1. pc[r] \notin Outside /\ Done(r, gs, ps)
      BY <1>9 DEF FinishBadly, Outside, gs, ps
    <2>2. DOMAIN status' = Accounts
      BY <1>0, <1>9, StatusKept DEF FinishBadly, HandleFailure, accountVars, IInv
    <2> QED BY <1>0, <2>1, <2>2, DoneKeeps
  <1> QED BY <1>1, <1>2, <1>3, <1>4, <1>5, <1>6, <1>7, <1>8, <1>9, ForwardFailsKeeps DEF Provider

(* Time, the health checks and the admin routes write account rows only.   *)
LEMMA EnvironmentKeeps ==
  ASSUME IInv, DOMAIN status' = Accounts, UNCHANGED <<gate, pc, at, attempted>>
  PROVE  IInv'
  <1>1. Types'
    BY DEF IInv, Types
  <1>2. Follow(Requests, gate, pc)'
    BY DEF IInv, Follow, Elements, Distinct
  <1> QED BY <1>1, <1>2 DEF IInv, Tried

LEMMA RouterKeeps == IInv /\ [Next]_vars => IInv'
  <1> SUFFICES ASSUME IInv, [Next]_vars PROVE IInv'
    OBVIOUS
  <1>0. DOMAIN status = Accounts
    BY DEF IInv, Types
  <1>1. ASSUME NEW a \in Accounts, CooldownEnds(a) \/ UsageExpires(a)
        PROVE  IInv'
    BY <1>0, <1>1, EnvironmentKeeps DEF CooldownEnds, UsageExpires, requestVars, accountVars
  <1>2. ASSUME NEW a \in Accounts, NEW by, CheckStarts(a, by)
        PROVE  IInv'
    BY <1>0, <1>2, EnvironmentKeeps DEF CheckStarts, requestVars, accountVars
  <1>3. ASSUME NEW a \in Accounts, NEW s \in {"active", "inactive", "deleted"}, AdminWrites(a, s)
        PROVE  IInv'
    <2>1. DOMAIN status' = Accounts
      BY <1>3, StatusKept DEF IInv, AdminWrites
    <2> QED BY <1>3, <2>1, EnvironmentKeeps DEF AdminWrites, requestVars
  <1>4. ASSUME NEW c \in checks, CheckHealthy(c) \/ CheckUnhealthy(c)
        PROVE  IInv'
    <2>1. DOMAIN status' = Accounts
      BY <1>4, StatusKept DEF IInv, CheckHealthy, CheckUnhealthy
    <2> QED BY <1>4, <2>1, EnvironmentKeeps DEF CheckHealthy, CheckUnhealthy, requestVars
  <1>5. ASSUME NEW c \in checks, CheckInconclusive(c)
        PROVE  IInv'
    <2>1. DOMAIN status' = Accounts
      BY <1>0, <1>5, StatusKept DEF IInv, CheckInconclusive
    <2> QED BY <1>5, <2>1, EnvironmentKeeps DEF CheckInconclusive, requestVars
  <1>6. CASE UNCHANGED vars
    BY <1>0, <1>6, EnvironmentKeeps DEF vars
  <1> QED BY <1>1, <1>2, <1>3, <1>4, <1>5, <1>6, RequestKeeps DEF Next

(* The invariant holds for every set of accounts and of requests, every    *)
(* concurrency, queue depth, reserve and daily limit                       *)
(* (router.ts:103-138, 464-476).                                           *)
THEOREM RouterInvariant == Spec => []IInv
  BY RouterInit, RouterKeeps, PTL DEF Spec

(* Whatever way a request leaves the loop by, it keeps no permit and no    *)
(* place in a queue (router.ts:109-138, 186-208, 218-221, 464-476).        *)
THEOREM RouterPermitsFollowRequests == Spec => []PermitsFollowRequests
  <1>1. IInv => PermitsFollowRequests
    <2> SUFFICES ASSUME IInv, NEW a \in Accounts
                 PROVE  /\ gate[a].holders
                             = {r \in Requests : at[r] = a /\ pc[r] \notin {"idle", "arrived", "waiting"}}
                        /\ \A r \in Requests :
                             (at[r] = a /\ pc[r] = "waiting")
                               <=> (\E i \in 1..Len(gate[a].queue) : gate[a].queue[i] = r)
      BY DEF PermitsFollowRequests
    <2>1. /\ gate[a].holders = {r \in Requests : at[r] = a /\ pc[r] \notin Outside}
          /\ Elements(gate[a].queue) = {r \in Requests : at[r] = a /\ pc[r] = "waiting"}
      BY DEF IInv, Follow
    <2>2. \A r \in Requests :
            r \in Elements(gate[a].queue) <=> \E i \in 1..Len(gate[a].queue) : gate[a].queue[i] = r
      BY DEF Elements
    <2> QED BY <2>1, <2>2 DEF Outside
  <1> QED BY <1>1, RouterInvariant, PTL

-----------------------------------------------------------------------------
(* Which account a step sends a request to.                                *)

(* r is sent to an account it had not tried, eligible by the rows st and   *)
(* the circuits op, or is sent nowhere.                                    *)
Sends(r, tried, st, op) ==
  \/ attempted'[r] \subseteq tried
  \/ \E a \in Accounts \ tried :
       attempted'[r] = tried \cup {a} /\ Eligible(a, st, op)

Others(r) == \A q \in Requests \ {r} : attempted'[q] = attempted[q]

LEMMA DoneSends ==
  ASSUME Types, NEW r \in Requests, NEW gs, NEW ps, Done(r, gs, ps)
  PROVE  attempted'[r] = {} /\ Others(r)
  BY DEF Types, Done, Others

LEMMA RouteSends ==
  ASSUME Types, NEW r \in Requests, NEW gs, NEW ps, NEW tried \in SUBSET Accounts,
         Route(r, gs, ps, tried)
  PROVE  Sends(r, tried, status', open') /\ Others(r)
  <1> DEFINE cands == {a \in Accounts : Eligible(a, status', open')} \ tried
  <1>1. CASE Done(r, gs, ps)
    BY <1>1, DoneSends DEF Sends
  <1>2. ASSUME NEW a \in cands, Dispatch(r, a, gs, ps, tried)
        PROVE  Sends(r, tried, status', open') /\ Others(r)
    BY <1>2 DEF Types, Dispatch, Sends, Others
  <1> HIDE DEF cands
  <1>3. CASE Queue(r, cands, gs, ps, tried)
    <2>1. CASE attempted' = [attempted EXCEPT ![r] = tried]
      BY <2>1 DEF Types, Sends, Others
    <2> QED BY <1>1, <1>3, <2>1 DEF Queue
  <1>4. CASE ReserveCandidate(r, cands, gs, ps, tried)
    BY <1>2, <1>3, <1>4 DEF ReserveCandidate
  <1>5. CASE ReserveBackground(r, cands, gs, ps, tried)
    BY <1>1, <1>2, <1>5 DEF ReserveBackground
  <1> QED BY <1>1, <1>4, <1>5 DEF Route, cands

SentWell(r) == Sends(r, attempted[r], status, open) /\ Others(r)

(* A failure changes the row and the circuit of the account that was tried,*)
(* so a later candidate is eligible by the old ones too.                   *)
LEMMA FailureSends ==
  ASSUME IInv, NEW r \in Requests, at[r] \in attempted[r], NEW gs, NEW ps,
         Route(r, gs, ps, attempted[r]), NEW kind,
         HandleFailure(at[r], kind) \/ (RecordFailure(at[r], kind) /\ UNCHANGED status)
  PROVE  SentWell(r)
  <1>1. attempted[r] \in SUBSET Accounts /\ DOMAIN status = Accounts
    BY DEF IInv, Types
  <1>2. Sends(r, attempted[r], status', open') /\ Others(r)
    BY <1>1, RouteSends DEF IInv
  <1>3. \A a \in Accounts \ {at[r]} : status'[a] = status[a]
    BY <1>1 DEF HandleFailure, SetStatus
  <1>4. \A a \in Accounts \ {at[r]} : a \in open' <=> a \in open
    BY DEF HandleFailure, RecordFailure
  <1>5. \A a \in Accounts \ attempted[r] :
          Eligible(a, status', open') => Eligible(a, status, open)
    BY <1>3, <1>4 DEF Eligible
  <1> QED BY <1>2, <1>5 DEF Sends, SentWell

LEMMA RequestSends ==
  ASSUME IInv, NEW r \in Requests,
         \/ \E isBackground, isStream \in BOOLEAN : Arrive(r, isBackground, isStream)
         \/ Start(r) \/ Abort(r) \/ QueueTimeout(r) \/ Resume(r) \/ Provider(r)
  PROVE  SentWell(r)
  <1>0. /\ Types /\ attempted[r] \in SUBSET Accounts
        /\ pc[r] = "arrived" => attempted[r] = {}
        /\ pc[r] = "granted" => at[r] \in Accounts \ attempted[r]
        /\ pc[r] \in {"forwarding", "priming"} => at[r] \in attempted[r]
    BY DEF IInv, Types, Tried
  <1>1. ASSUME NEW gs, NEW ps, Done(r, gs, ps) PROVE SentWell(r)
    BY <1>0, <1>1, DoneSends DEF SentWell, Sends
  <1>2. ASSUME UNCHANGED attempted PROVE SentWell(r)
    BY <1>2 DEF SentWell, Sends, Others
  <1>3. CASE Start(r)
    <2>1. Sends(r, {}, status', open') /\ Others(r)
      BY <1>0, <1>3, RouteSends DEF Start
    <2> QED BY <1>0, <1>3, <2>1 DEF Start, accountVars, SentWell
  <1>4. CASE Resume(r)
    <2>1. CASE Eligible(at[r], status, open) /\ Dispatch(r, at[r], gate, pc, attempted[r])
      BY <1>0, <1>4, <2>1 DEF Resume, Dispatch, Types, SentWell, Sends, Others
    <2> QED BY <1>1, <1>4, <2>1 DEF Resume
  <1>5. CASE PrimeFails(r)
    BY <1>0, <1>5, FailureSends DEF PrimeFails
  <1>6. ASSUME NEW kind \in Kinds, ForwardFails(r, kind)
        PROVE  SentWell(r)
    <2>1. CASE Done(r, GatesWithout(r), PhasesWithout(r))
      BY <1>1, <2>1
    <2>2. CASE /\ Route(r, GatesWithout(r), PhasesWithout(r), attempted[r])
               /\ \/ HandleFailure(at[r], kind)
                  \/ RecordFailure(at[r], kind) /\ UNCHANGED status
      BY <1>0, <1>6, <2>2, FailureSends DEF ForwardFails
    <2> QED BY <1>6, <2>1, <2>2 DEF ForwardFails
  <1>7. ASSUME NEW kind \in Kinds, FinishBadly(r, kind)
        PROVE  SentWell(r)
    BY <1>1, <1>7 DEF FinishBadly
  <1> QED BY <1>1, <1>2, <1>3, <1>4, <1>5, <1>6, <1>7
          DEF Arrive, Abort, QueueTimeout, Provider, ForwardSucceeds, StreamPrimed, FinishWell

(* No step sends a request to an account that is not eligible at that      *)
(* moment, or that it has tried before (router.ts:105-109, 471-477).       *)
THEOREM RouterSendsToEligibleAccount == Spec => SentToEligibleAccount
  <1>1. IInv /\ [Next]_vars =>
          [\A r \in Requests :
             attempted'[r] \subseteq attempted[r] \/
             \E a \in Accounts \ attempted[r] :
               attempted'[r] = attempted[r] \cup {a} /\ Eligible(a, status, open)]_vars
    <2> SUFFICES ASSUME IInv, Next, NEW r \in Requests
                 PROVE  \/ attempted'[r] \subseteq attempted[r]
                        \/ \E a \in Accounts \ attempted[r] :
                             attempted'[r] = attempted[r] \cup {a} /\ Eligible(a, status, open)
      OBVIOUS
    <2>1. CASE \E q \in Requests :
                 \/ \E isBackground, isStream \in BOOLEAN : Arrive(q, isBackground, isStream)
                 \/ Start(q) \/ Abort(q) \/ QueueTimeout(q) \/ Resume(q) \/ Provider(q)
      <3>1. PICK q \in Requests : SentWell(q)
        BY <2>1, RequestSends
      <3>2. CASE q = r
        BY <3>1, <3>2 DEF SentWell, Sends
      <3>3. CASE q # r
        BY <3>1, <3>3 DEF SentWell, Others
      <3> QED BY <3>2, <3>3
    <2>2. CASE UNCHANGED attempted
      BY <2>2
    <2> QED BY <2>1, <2>2
            DEF Next, CooldownEnds, UsageExpires, CheckStarts, AdminWrites, CheckHealthy,
                CheckUnhealthy, CheckInconclusive, requestVars
  <1> QED BY <1>1, RouterInvariant, PTL DEF Spec, SentToEligibleAccount

-----------------------------------------------------------------------------
(* Every account's gate is a permit pool.                                  *)

(* A request waits at a gate only while all its permits are out.           *)
Full(g) ==
  /\ IsFiniteSet(g.holders)
  /\ Cardinality(g.holders) <= AccountConcurrency
  /\ Elements(g.queue) # {} => Cardinality(g.holders) = AccountConcurrency

(* From the gate g to the gate h by what r does, as a permit pool sees it. *)
Moves(r, g, h) ==
  \/ h.holders = g.holders /\ Elements(h.queue) = Elements(g.queue)
  \/ /\ r \notin g.holders /\ r \notin Elements(g.queue)
     /\ \/ /\ Elements(g.queue) = {} /\ Cardinality(g.holders) < AccountConcurrency
           /\ h.holders = g.holders \cup {r} /\ Elements(h.queue) = {}
        \/ /\ Cardinality(g.holders) = AccountConcurrency
           /\ h.holders = g.holders /\ Elements(h.queue) = Elements(g.queue) \cup {r}
  \/ /\ r \in Elements(g.queue)
     /\ h.holders = g.holders /\ Elements(h.queue) = Elements(g.queue) \ {r}
  \/ /\ r \in g.holders
     /\ \/ /\ Elements(g.queue) = {} /\ Elements(h.queue) = {}
           /\ h.holders = g.holders \ {r}
        \/ \E s \in Elements(g.queue) :
             /\ h.holders = (g.holders \ {r}) \cup {s}
             /\ Elements(h.queue) = Elements(g.queue) \ {s}

LEMMA MovesKeepFull ==
  ASSUME NEW r, NEW g, NEW h, Full(g), Moves(r, g, h),
         g.holders \cap Elements(g.queue) = {}
  PROVE  Full(h)
  <1> DEFINE G == g.holders
             Q == Elements(g.queue)
             H == h.holders
             P == Elements(h.queue)
  <1>1. /\ IsFiniteSet(G) /\ Cardinality(G) \in Nat /\ Cardinality(G) <= AccountConcurrency
        /\ Q # {} => Cardinality(G) = AccountConcurrency
        /\ AccountConcurrency \in Nat
    BY FS_CardinalityType, RouterAssumption DEF Full
  <1>2. Moves(r, g, h) /\ G \cap Q = {}
    OBVIOUS
  <1> SUFFICES /\ IsFiniteSet(H) /\ Cardinality(H) <= AccountConcurrency
               /\ P # {} => Cardinality(H) = AccountConcurrency
    BY DEF Full
  <1>3. CASE H = G /\ (P \subseteq Q \/ Cardinality(G) = AccountConcurrency)
    BY <1>1, <1>3
  <1>4. CASE r \notin G /\ Cardinality(G) < AccountConcurrency /\ H = G \cup {r} /\ P = {}
    <2>1. IsFiniteSet(G \cup {r}) /\ Cardinality(G \cup {r}) = Cardinality(G) + 1
      BY <1>1, <1>4, FS_AddElement
    <2> HIDE DEF G, H, P
    <2> QED BY <1>1, <1>4, <2>1
  <1>5. CASE r \in G /\ P = {} /\ H = G \ {r}
    <2>1. IsFiniteSet(G \ {r}) /\ Cardinality(G \ {r}) = Cardinality(G) - 1
      BY <1>1, <1>5, FS_RemoveElement
    <2> HIDE DEF G, H, P
    <2> QED BY <1>1, <1>5, <2>1
  <1>6. ASSUME r \in G, NEW s \in Q, H = (G \ {r}) \cup {s}, P = Q \ {s}
        PROVE  IsFiniteSet(H) /\ Cardinality(H) = AccountConcurrency
    <2>1. /\ IsFiniteSet(G \ {r}) /\ Cardinality(G \ {r}) = Cardinality(G) - 1
          /\ s \notin G \ {r}
      BY <1>1, <1>2, <1>6, FS_RemoveElement
    <2>2. IsFiniteSet(H) /\ Cardinality(H) = Cardinality(G \ {r}) + 1
      BY <1>6, <2>1, FS_AddElement
    <2> QED BY <1>1, <1>6, <2>1, <2>2
  <1> HIDE DEF G, Q, H, P
  <1> QED BY <1>1, <1>2, <1>3, <1>4, <1>5, <1>6 DEF Moves, G, Q, H, P

(* The instance counts as this module does.                                *)
LEMMA PoolCounts ==
  ASSUME NEW a, NEW S
  PROVE  Pool(a)!Cardinality(S) = Cardinality(S)
  BY DEF Cardinality, Pool!Cardinality

LEMMA MovesArePoolSteps ==
  ASSUME NEW a \in Accounts, NEW r \in Requests, Moves(r, gate[a], gate'[a])
  PROVE  Pool(a)!Next \/ UNCHANGED Pool(a)!vars
  BY PoolCounts DEF Moves, Elements, Pool!Next, Pool!Take, Pool!Wait, Pool!GiveUp, Pool!Return,
         Pool!Absent, Pool!vars

PoolInv == \A a \in Accounts : Full(gate[a])

Moved(r) == \A a \in Accounts : Moves(r, gate[a], gate'[a])

(* A request is at the gate of the account it waits for or works with.     *)
LEMMA Elsewhere ==
  ASSUME IInv, NEW r \in Requests, NEW a \in Accounts,
         at[r] # a \/ pc[r] \in {"idle", "arrived"}
  PROVE  r \notin gate[a].holders /\ r \notin Elements(gate[a].queue)
  BY DEF IInv, Follow, Outside

LEMMA LeavingMoves ==
  ASSUME IInv, NEW r \in Requests, pc[r] = "waiting", gate' = GatesLeft(r)
  PROVE  Moved(r)
  <1> DEFINE a == at[r]
             q == gate[a].queue
             i == Place(q, r)
             p == RemoveAt(q, i)
  <1>1. a \in Accounts /\ q \in Seq(Requests) /\ gate \in [Accounts -> Gate]
    BY DEF IInv, Types, Gate, Tried
  <1>2. r \in Elements(q) /\ Distinct(q)
    BY <1>1 DEF IInv, Follow
  <1>3. i \in 1..Len(q) /\ q[i] = r
    BY <1>2 DEF Elements, Place
  <1> HIDE DEF i
  <1>4. Elements(p) = Elements(q) \ {r}
    BY <1>1, <1>2, <1>3, RemoveAtFacts
  <1>5. gate' = [gate EXCEPT ![a].queue = p]
    BY DEF GatesLeft, i
  <1> HIDE DEF p
  <1>6. \A b \in Accounts :
          /\ gate'[b].holders = gate[b].holders
          /\ gate'[b].queue = IF b = a THEN p ELSE gate[b].queue
    BY <1>1, <1>5 DEF Gate
  <1> HIDE DEF q
  <1>7. \A b \in Accounts \ {a} : Moves(r, gate[b], gate'[b])
    BY <1>6 DEF Moves
  <1>8. Moves(r, gate[a], gate'[a])
    BY <1>1, <1>2, <1>4, <1>6 DEF Moves, q
  <1> QED BY <1>7, <1>8 DEF Moved

LEMMA ReleaseMoves ==
  ASSUME IInv, NEW r \in Requests, pc[r] \notin Outside
  PROVE  /\ Moves(r, gate[at[r]], GatesWithout(r)[at[r]])
         /\ \A b \in Accounts \ {at[r]} : GatesWithout(r)[b] = gate[b]
  <1> DEFINE a == at[r]
             g == gate[a]
             i == FirstWaiter(g.queue)
             h == Returned(r, a)
  <1>1. /\ a \in Accounts /\ g \in Gate /\ g.queue \in Seq(Requests)
        /\ gate \in [Accounts -> Gate]
    BY DEF IInv, Types, Tried, Gate, Phase, Outside
  <1>2. r \in g.holders /\ Distinct(g.queue)
    BY <1>1 DEF IInv, Follow
  <1>3. GatesWithout(r) = [gate EXCEPT ![a] = h]
    BY DEF GatesWithout
  <1>4. Moves(r, g, h)
    <2>1. CASE g.queue = <<>>
      <3>1. h.holders = g.holders \ {r} /\ h.queue = g.queue
        BY <1>1, <2>1 DEF Returned, Gate
      <3>2. Elements(g.queue) = {}
        BY <2>1 DEF Elements
      <3> HIDE DEF h, g
      <3> QED BY <1>2, <3>1, <3>2 DEF Moves
    <2>2. CASE g.queue # <<>>
      <3>1. i \in 1..Len(g.queue)
        BY <1>1, <2>2, FirstWaiterInQueue
      <3>2. /\ g.queue[i] \in Elements(g.queue)
            /\ Elements(RemoveAt(g.queue, i)) = Elements(g.queue) \ {g.queue[i]}
        BY <1>1, <1>2, <3>1, RemoveAtFacts DEF Elements
      <3>3. /\ h.holders = (g.holders \ {r}) \cup {g.queue[i]}
            /\ h.queue = RemoveAt(g.queue, i)
        BY <2>2 DEF Returned
      <3> HIDE DEF h, g, i
      <3> QED BY <1>2, <3>2, <3>3 DEF Moves
    <2> QED BY <2>1, <2>2
  <1> HIDE DEF h, g
  <1> QED BY <1>1, <1>3, <1>4 DEF g

(* r may go to the gates of cands, where it is not, and has gone from      *)
(* every other gate as a pool allows.                                      *)
Free(r, gs, cands) ==
  /\ gs \in [Accounts -> Gate]
  /\ cands \subseteq Accounts
  /\ \A a \in cands :
       gs[a] = gate[a] /\ r \notin gate[a].holders /\ r \notin Elements(gate[a].queue)
  /\ \A a \in Accounts \ cands : gs[a] # gate[a] => Moves(r, gate[a], gs[a])

LEMMA UnmovedMoves ==
  ASSUME NEW r, NEW g
  PROVE  Moves(r, g, g)
  BY DEF Moves

LEMMA DispatchMoves ==
  ASSUME PoolInv, NEW r \in Requests, NEW gs, NEW ps, NEW cands, Free(r, gs, cands),
         NEW tried, NEW a \in cands, Dispatch(r, a, gs, ps, tried),
         FreePermit(gs[a]) \/ gs[a].holders = {}
  PROVE  Moved(r)
  <1>1. /\ gate'[a].holders = gate[a].holders \cup {r} /\ gate'[a].queue = gate[a].queue
        /\ \A b \in Accounts \ {a} : gate'[b] = gs[b]
    BY DEF Free, Dispatch, Gate
  <1>2. Elements(gate[a].queue) = {} /\ Cardinality(gate[a].holders) < AccountConcurrency
    <2>1. CASE FreePermit(gs[a])
      BY <2>1 DEF FreePermit, Free, Elements
    <2>2. CASE gs[a].holders = {}
      BY <2>2, FS_EmptySet, RouterAssumption DEF Free, PoolInv, Full
    <2> QED BY <2>1, <2>2
  <1>3. Moves(r, gate[a], gate'[a])
    BY <1>1, <1>2 DEF Moves, Free
  <1>4. \A b \in Accounts \ {a} : Moves(r, gate[b], gate'[b])
    BY <1>1, UnmovedMoves DEF Free
  <1> QED BY <1>3, <1>4 DEF Moved

LEMMA DoneMoves ==
  ASSUME NEW r, NEW gs, NEW ps, NEW cands, Free(r, gs, cands), Done(r, gs, ps)
  PROVE  Moved(r)
  BY UnmovedMoves DEF Free, Done, Moved

LEMMA QueueMoves ==
  ASSUME PoolInv, NEW r \in Requests, NEW gs, NEW ps, NEW cands, Free(r, gs, cands),
         NEW tried, Queue(r, cands, gs, ps, tried),
         \A a \in cands : ~FreePermit(gs[a])
  PROVE  Moved(r)
  <1>1. CASE Done(r, gs, ps)
    BY <1>1, DoneMoves
  <1>2. ASSUME NEW a \in cands, gate' = [gs EXCEPT ![a].queue = Append(@, r)]
        PROVE  Moved(r)
    <2> DEFINE q == gate[a].queue
    <2>1. /\ a \in Accounts /\ gs[a] = gate[a] /\ q \in Seq(Requests)
          /\ Full(gate[a]) /\ r \notin gate[a].holders /\ r \notin Elements(q)
      BY DEF Free, Gate, PoolInv
    <2>2. /\ gate'[a].holders = gate[a].holders /\ gate'[a].queue = Append(q, r)
          /\ \A b \in Accounts \ {a} : gate'[b] = gs[b]
      BY <1>2, <2>1 DEF Free, Gate
    <2>3. Elements(Append(q, r)) = Elements(q) \cup {r}
      BY <2>1, AppendElements
    <2>4. Cardinality(gate[a].holders) = AccountConcurrency
      <3>1. CASE q = <<>>
        BY <2>1, <3>1, FS_CardinalityType, RouterAssumption DEF FreePermit, Full
      <3>2. CASE q # <<>>
        <4>1. 1 \in 1..Len(q)
          BY <2>1, <3>2
        <4> QED BY <2>1, <4>1 DEF Full, Elements
      <3> QED BY <3>1, <3>2
    <2> HIDE DEF q
    <2>5. Moves(r, gate[a], gate'[a])
      BY <2>1, <2>2, <2>3, <2>4 DEF Moves, q
    <2>6. \A b \in Accounts \ {a} : Moves(r, gate[b], gate'[b])
      BY <2>2, UnmovedMoves DEF Free
    <2> QED BY <2>5, <2>6 DEF Moved
  <1> QED BY <1>1, <1>2 DEF Queue

LEMMA RouteMoves ==
  ASSUME PoolInv, NEW r \in Requests, NEW gs, NEW ps, NEW tried,
         Free(r, gs, Accounts \ tried), Route(r, gs, ps, tried)
  PROVE  Moved(r)
  <1> DEFINE cands == {a \in Accounts : Eligible(a, status', open')} \ tried
  <1>0. \A c : c \subseteq cands => Free(r, gs, c)
    BY UnmovedMoves DEF Free
  <1>1. CASE Done(r, gs, ps)
    BY <1>1, DoneMoves
  <1> HIDE DEF cands
  <1>2. ASSUME NEW a \in cands, Dispatch(r, a, gs, ps, tried),
               FreePermit(gs[a]) \/ gs[a].holders = {}
        PROVE  Moved(r)
    BY <1>0, <1>2, DispatchMoves
  <1>3. CASE ReserveCandidate(r, cands, gs, ps, tried)
    BY <1>0, <1>2, <1>3, QueueMoves DEF ReserveCandidate
  <1>4. CASE ReserveBackground(r, cands, gs, ps, tried)
    BY <1>1, <1>2, <1>4 DEF ReserveBackground
  <1> QED BY <1>1, <1>3, <1>4 DEF Route, cands

LEMMA RequestMoves ==
  ASSUME IInv, PoolInv, NEW r \in Requests,
         \/ \E isBackground, isStream \in BOOLEAN : Arrive(r, isBackground, isStream)
         \/ Start(r) \/ Abort(r) \/ QueueTimeout(r) \/ Resume(r) \/ Provider(r)
  PROVE  Moved(r)
  <1> DEFINE gs == GatesWithout(r)
             ps == PhasesWithout(r)
  <1>0. /\ gate \in [Accounts -> Gate]
        /\ pc[r] \notin Outside => at[r] \in Accounts
        /\ pc[r] \in {"forwarding", "priming"} => at[r] \in attempted[r]
    BY DEF IInv, Types, Tried, Phase, Outside
  <1>1. ASSUME UNCHANGED gate PROVE Moved(r)
    BY <1>1, UnmovedMoves DEF Moved
  <1>2. ASSUME pc[r] \notin Outside, NEW cands \in SUBSET (Accounts \ {at[r]})
        PROVE  Free(r, gs, cands)
    <2>1. /\ Moves(r, gate[at[r]], gs[at[r]])
          /\ \A b \in Accounts \ {at[r]} : gs[b] = gate[b]
      BY <1>2, ReleaseMoves
    <2>2. gs \in [Accounts -> Gate]
      BY <1>2, DetachedByRelease DEF Detached
    <2>3. \A b \in cands : r \notin gate[b].holders /\ r \notin Elements(gate[b].queue)
      BY <1>2, Elsewhere
    <2> HIDE DEF gs
    <2> QED BY <1>0, <1>2, <2>1, <2>2, <2>3 DEF Free
  <1> HIDE DEF gs, ps
  <1>3. ASSUME pc[r] \notin Outside, Done(r, gs, ps) PROVE Moved(r)
    BY <1>2, <1>3, DoneMoves
  <1>4. ASSUME pc[r] \in {"forwarding", "priming"}, Route(r, gs, ps, attempted[r])
        PROVE  Moved(r)
    <2>1. Free(r, gs, Accounts \ attempted[r])
      BY <1>0, <1>2, <1>4 DEF Outside
    <2> QED BY <1>4, <2>1, RouteMoves
  <1>5. CASE \E isBackground, isStream \in BOOLEAN : Arrive(r, isBackground, isStream)
    BY <1>1, <1>5 DEF Arrive
  <1>6. CASE Start(r)
    <2>1. Free(r, gate, Accounts \ {})
      BY <1>0, <1>6, Elsewhere DEF Free, Start
    <2> QED BY <1>6, <2>1, RouteMoves DEF Start
  <1>7. CASE Abort(r) \/ QueueTimeout(r)
    BY <1>1, <1>7, LeavingMoves DEF Abort, QueueTimeout, Done
  <1>8. CASE Resume(r)
    <2>1. CASE Dispatch(r, at[r], gate, pc, attempted[r])
      <3>1. at[r] \in Accounts /\ r \in gate[at[r]].holders
        BY <1>8 DEF Resume, IInv, Tried, Follow, Outside
      <3> DEFINE a == at[r]
      <3> HIDE DEF a
      <3>2. a \in Accounts /\ r \in gate[a].holders /\ gate' = [gate EXCEPT ![a].holders = @ \cup {r}]
        BY <2>1, <3>1 DEF Dispatch, a
      <3>3. \A b \in Accounts :
              gate'[b].holders = gate[b].holders /\ gate'[b].queue = gate[b].queue
        BY <1>0, <3>2 DEF Gate
      <3> QED BY <3>3 DEF Moved, Moves
    <2> QED BY <1>3, <1>8, <2>1 DEF Resume, Outside, gs, ps
  <1>9. CASE Provider(r)
    <2>1. CASE ForwardSucceeds(r) \/ StreamPrimed(r)
      BY <1>1, <2>1 DEF ForwardSucceeds, StreamPrimed
    <2>2. CASE PrimeFails(r)
      BY <1>4, <2>2 DEF PrimeFails, gs, ps
    <2>3. CASE FinishWell(r) \/ \E kind \in Kinds : FinishBadly(r, kind)
      BY <1>3, <2>3 DEF FinishWell, FinishBadly, Outside, gs, ps
    <2>4. ASSUME NEW kind \in Kinds, ForwardFails(r, kind) PROVE Moved(r)
      <3>1. pc[r] = "forwarding" /\ (Done(r, gs, ps) \/ Route(r, gs, ps, attempted[r]))
        BY <2>4 DEF ForwardFails, gs, ps
      <3> QED BY <1>3, <1>4, <3>1 DEF Outside
    <2> QED BY <1>9, <2>1, <2>2, <2>3, <2>4 DEF Provider
  <1> QED BY <1>5, <1>6, <1>7, <1>8, <1>9

LEMMA StepMoves ==
  ASSUME IInv, PoolInv, [Next]_vars
  PROVE  UNCHANGED gate \/ \E r \in Requests : Moved(r)
  <1>1. CASE \E r \in Requests :
               \/ \E isBackground, isStream \in BOOLEAN : Arrive(r, isBackground, isStream)
               \/ Start(r) \/ Abort(r) \/ QueueTimeout(r) \/ Resume(r) \/ Provider(r)
    BY <1>1, RequestMoves
  <1> QED BY <1>1
          DEF Next, vars, CooldownEnds, UsageExpires, CheckStarts, AdminWrites, CheckHealthy,
              CheckUnhealthy, CheckInconclusive, requestVars

(* Each account's gate, moved by failovers that give one permit back and   *)
(* take another in one step, implements a permit pool                      *)
(* (router.ts:109-134, 436-478).                                           *)
THEOREM RouterGatesArePools == Spec => EveryGateIsAPool
  <1>1. Init => PoolInv /\ \A a \in Accounts : Pool(a)!Init
    <2> SUFFICES ASSUME Init, NEW a \in Accounts PROVE Full(gate[a]) /\ Pool(a)!Init
      BY DEF PoolInv
    <2>1. gate[a].holders = {} /\ gate[a].queue = <<>>
      BY DEF Init
    <2>2. Elements(gate[a].queue) = {} /\ {gate[a].queue[i] : i \in 1..Len(gate[a].queue)} = {}
      BY <2>1 DEF Elements
    <2> QED BY <2>1, <2>2, FS_EmptySet, RouterAssumption DEF Full, Pool!Init
  <1>2. IInv /\ PoolInv /\ [Next]_vars => PoolInv'
    <2> SUFFICES ASSUME IInv, PoolInv, [Next]_vars, NEW a \in Accounts
                 PROVE  Full(gate'[a])
      BY DEF PoolInv, Full, Elements
    <2>1. gate[a].holders \cap Elements(gate[a].queue) = {}
      BY DEF IInv, Follow, Outside
    <2>2. Full(gate[a]) /\ (UNCHANGED gate \/ \E r \in Requests : Moves(r, gate[a], gate'[a]))
      BY StepMoves DEF PoolInv, Moved
    <2> QED BY <2>1, <2>2, MovesKeepFull
  <1>3. IInv /\ PoolInv /\ [Next]_vars =>
          [\A a \in Accounts : Pool(a)!Next \/ UNCHANGED Pool(a)!vars]_vars
    <2> SUFFICES ASSUME IInv, PoolInv, Next, NEW a \in Accounts
                 PROVE  Pool(a)!Next \/ UNCHANGED Pool(a)!vars
      OBVIOUS
    <2>1. CASE UNCHANGED gate
      BY <2>1 DEF Pool!vars
    <2>2. CASE \E r \in Requests : Moved(r)
      BY <2>2, MovesArePoolSteps DEF Moved
    <2> QED BY <2>1, <2>2, StepMoves
  <1> QED BY <1>1, <1>2, <1>3, RouterInvariant, PTL DEF Spec, EveryGateIsAPool

-----------------------------------------------------------------------------
(* The reserve of idle accounts.                                           *)

Reserving == AccountReserve > 0 /\ IsFiniteSet(Accounts)

(* A permit that is passed on in a queue is not tested against the reserve:*)
(* background work must never be in one.                                   *)
ReserveInv ==
  /\ \A q \in Requests : pc[q] = "waiting" => q \notin background
  /\ DOMAIN used = Accounts

(* What ReserveKept says of a step.                                        *)
KeepsReserve ==
  \A a \in Accounts :
    AccountReserve > 0 /\ BackgroundOnly(a)' /\ ~BackgroundOnly(a) =>
      \/ gate'[a].holders \subseteq gate[a].holders
      \/ gate[a].holders = {} /\ Cardinality(Idle') >= AccountReserve

(* With gates gs the accounts that have come into the hands of background  *)
(* work alone are those that foreground work left.                         *)
Spared(gs) ==
  \A a \in Accounts :
    /\ gs[a].holders # {} /\ gs[a].holders \subseteq background /\ ~BackgroundOnly(a)
    => gs[a].holders \subseteq gate[a].holders

LEMMA SparedByLeaving ==
  ASSUME IInv, NEW r \in Requests
  PROVE  Spared(GatesLeft(r))
  <1>1. \A a \in Accounts : GatesLeft(r)[a].holders = gate[a].holders
    <2>1. gate \in [Accounts -> Gate]
      BY DEF IInv, Types
    <2> QED BY <2>1 DEF GatesLeft, Gate
  <1> QED BY <1>1 DEF Spared

(* A permit that is given back is nobody's, or a foreground request's.     *)
LEMMA SparedByRelease ==
  ASSUME IInv, ReserveInv, NEW r \in Requests, pc[r] \notin Outside
  PROVE  /\ Spared(GatesWithout(r))
         /\ \A b \in Accounts : b # at[r] => GatesWithout(r)[b] = gate[b]
  <1> DEFINE a == at[r]
             g == gate[a]
             i == FirstWaiter(g.queue)
  <1>1. gate \in [Accounts -> Gate] /\ a \in Accounts /\ g.queue \in Seq(Requests)
    BY DEF IInv, Types, Tried, Gate, Phase, Outside
  <1>2. GatesWithout(r)[a] = Returned(r, a)
    BY <1>1 DEF GatesWithout
  <1>3. \/ GatesWithout(r)[a].holders \subseteq g.holders
        \/ \E s \in Requests \ background : s \in GatesWithout(r)[a].holders
    <2>1. CASE g.queue = <<>>
      <3>1. Returned(r, a).holders = g.holders \ {r}
        BY <1>1, <2>1 DEF Returned, Gate
      <3> QED BY <1>2, <3>1
    <2>2. CASE g.queue # <<>>
      <3>1. i \in 1..Len(g.queue)
        BY <1>1, <2>2, FirstWaiterInQueue
      <3>2. g.queue[i] \in Elements(g.queue)
        BY <3>1 DEF Elements
      <3>3. g.queue[i] \in Requests /\ pc[g.queue[i]] = "waiting"
        BY <1>1, <3>2 DEF IInv, Follow
      <3>4. g.queue[i] \notin background
        BY <3>3 DEF ReserveInv
      <3>5. Returned(r, a).holders = (g.holders \ {r}) \cup {g.queue[i]}
        BY <2>2 DEF Returned
      <3> HIDE DEF g, i
      <3> QED BY <1>2, <3>3, <3>4, <3>5
    <2> QED BY <2>1, <2>2
  <1>4. \A b \in Accounts : b # a => GatesWithout(r)[b] = gate[b]
    BY <1>1 DEF GatesWithout
  <1> HIDE DEF i
  <1> QED BY <1>1, <1>3, <1>4 DEF Spared

LEMMA DoneSpares ==
  ASSUME IInv, ReserveInv, NEW r \in Requests, NEW gs, NEW ps,
         Detached(r, gs, ps), Spared(gs), Done(r, gs, ps)
  PROVE  ReserveInv' /\ KeepsReserve
  <1>1. \A q \in Requests : pc'[q] = "waiting" => q \notin background'
    BY DEF Detached, ReserveInv, Done
  <1>2. KeepsReserve
    BY DEF KeepsReserve, BackgroundOnly, Spared, Done
  <1> QED BY <1>1, <1>2 DEF ReserveInv, Done

LEMMA DispatchTakes ==
  ASSUME ReserveInv, NEW r \in Requests, NEW gs, NEW ps, Detached(r, gs, ps),
         NEW a \in Accounts, NEW tried, Dispatch(r, a, gs, ps, tried)
  PROVE  /\ ReserveInv'
         /\ background' = background
         /\ \A b \in Accounts : gate'[b].holders = IF b = a THEN gs[b].holders \cup {r}
                                                   ELSE gs[b].holders
         /\ \A b \in Accounts : b # a => used'[b] = used[b]
  <1>1. gs \in [Accounts -> Gate] /\ ps \in [Requests -> Phase]
    BY DEF Detached
  <1>2. \A b \in Accounts : gate'[b].holders = IF b = a THEN gs[b].holders \cup {r}
                                               ELSE gs[b].holders
    BY <1>1 DEF Dispatch, Gate
  <1>3. \A q \in Requests : pc'[q] = "waiting" => q \notin background'
    BY <1>1 DEF Dispatch, Detached, ReserveInv
  <1>4. DOMAIN used' = Accounts /\ \A b \in Accounts : b # a => used'[b] = used[b]
    BY DEF Dispatch, Consume, ReserveInv
  <1> QED BY <1>2, <1>3, <1>4 DEF ReserveInv, Dispatch

LEMMA ForegroundDispatchSpares ==
  ASSUME ReserveInv, NEW r \in Requests, NEW gs, NEW ps,
         Detached(r, gs, ps), Spared(gs), NEW a \in Accounts,
         r \notin background, NEW tried, Dispatch(r, a, gs, ps, tried)
  PROVE  ReserveInv' /\ KeepsReserve
  <1>1. /\ ReserveInv' /\ background' = background
        /\ \A b \in Accounts : gate'[b].holders = IF b = a THEN gs[b].holders \cup {r}
                                                  ELSE gs[b].holders
    BY DispatchTakes
  <1>2. KeepsReserve
    BY <1>1 DEF KeepsReserve, BackgroundOnly, Spared
  <1> QED BY <1>1, <1>2

(* Background work joins others at an account, which stays in their hands. *)
LEMMA SharedDispatchSpares ==
  ASSUME ReserveInv, NEW r \in Requests, NEW gs, NEW ps,
         Detached(r, gs, ps), Spared(gs), NEW a \in Accounts, gs[a] = gate[a],
         gs[a].holders # {}, NEW tried, Dispatch(r, a, gs, ps, tried)
  PROVE  ReserveInv' /\ KeepsReserve
  <1>1. /\ ReserveInv' /\ background' = background
        /\ \A b \in Accounts : gate'[b].holders = IF b = a THEN gs[b].holders \cup {r}
                                                  ELSE gs[b].holders
    BY DispatchTakes
  <1>2. KeepsReserve
    BY <1>1 DEF KeepsReserve, BackgroundOnly, Spared
  <1> QED BY <1>1, <1>2

(* More accounts than the reserve are idle, and one of them is taken.      *)
LEMMA FreshDispatchSpares ==
  ASSUME Reserving, ReserveInv, NEW r \in Requests, NEW gs, NEW ps,
         Detached(r, gs, ps), Spared(gs),
         NEW idle \in SUBSET Accounts,
         \A b \in idle : gs[b].holders = {} /\ Eligible(b, status', open'),
         SparesReserve(idle), NEW a \in idle, gs[a] = gate[a],
         NEW tried, Dispatch(r, a, gs, ps, tried)
  PROVE  ReserveInv' /\ KeepsReserve
  <1>1. /\ ReserveInv' /\ background' = background
        /\ \A b \in Accounts : gate'[b].holders = IF b = a THEN gs[b].holders \cup {r}
                                                  ELSE gs[b].holders
        /\ \A b \in Accounts : b # a => used'[b] = used[b]
    <2>1. a \in Accounts
      OBVIOUS
    <2> QED BY ONLY <2>1, DispatchTakes, ReserveInv, r \in Requests, Detached(r, gs, ps),
                    Dispatch(r, a, gs, ps, tried)
  <1> DEFINE left == idle \ {a}
  <1>2. left \subseteq Idle'
    BY <1>1 DEF Idle, Eligible, UnderLimit
  <1>3. IsFiniteSet(idle) /\ IsFiniteSet(left) /\ Cardinality(left) = Cardinality(idle) - 1
    BY FS_Subset, FS_RemoveElement DEF Reserving
  <1>4. IsFiniteSet(Idle')
    BY FS_Subset DEF Idle, Reserving
  <1> HIDE DEF left
  <1>5. Cardinality(left) <= Cardinality(Idle')
    BY <1>2, <1>4, FS_Subset
  <1>6. /\ Cardinality(Idle') \in Nat /\ Cardinality(idle) \in Nat
        /\ AccountReserve \in Nat /\ Cardinality(idle) > AccountReserve
    BY <1>3, <1>4, FS_CardinalityType, RouterAssumption DEF SparesReserve
  <1>7. Cardinality(Idle') >= AccountReserve
    BY <1>3, <1>5, <1>6
  <1>8. gate[a].holders = {}
    OBVIOUS
  <1>9. KeepsReserve
    BY <1>1, <1>7, <1>8 DEF KeepsReserve, BackgroundOnly, Spared
  <1> QED BY <1>1, <1>9

LEMMA QueueSpares ==
  ASSUME IInv, ReserveInv, NEW r \in Requests, NEW gs, NEW ps,
         Detached(r, gs, ps), Spared(gs), r \notin background,
         NEW tried, NEW cands \in SUBSET Accounts, Queue(r, cands, gs, ps, tried)
  PROVE  ReserveInv' /\ KeepsReserve
  <1>1. CASE Done(r, gs, ps)
    BY <1>1, DoneSpares
  <1>2. ASSUME NEW a \in cands, gate' = [gs EXCEPT ![a].queue = Append(@, r)],
               pc' = [ps EXCEPT ![r] = "waiting"], UNCHANGED <<used, background>>
        PROVE  ReserveInv' /\ KeepsReserve
    <2>1. gs \in [Accounts -> Gate] /\ ps \in [Requests -> Phase]
      BY DEF Detached
    <2>2. \A b \in Accounts : gate'[b].holders = gs[b].holders
      BY <1>2, <2>1 DEF Gate
    <2>3. \A q \in Requests : pc'[q] = "waiting" => q \notin background'
      BY <1>2, <2>1 DEF Detached, ReserveInv
    <2>4. KeepsReserve
      BY <1>2, <2>2 DEF KeepsReserve, BackgroundOnly, Spared
    <2> QED BY <1>2, <2>3, <2>4 DEF ReserveInv
  <1> QED BY <1>1, <1>2 DEF Queue

(* The gates gs differ from the gates before only at accounts that were    *)
(* tried.                                                                  *)
LEMMA RouteSpares ==
  ASSUME Reserving, IInv, ReserveInv, NEW r \in Requests, NEW gs, NEW ps,
         Detached(r, gs, ps), Spared(gs), NEW tried,
         \A b \in Accounts : b \notin tried => gs[b] = gate[b], Route(r, gs, ps, tried)
  PROVE  ReserveInv' /\ KeepsReserve
  <1> DEFINE cands == {a \in Accounts : Eligible(a, status', open')} \ tried
  <1>0. AccountReserve + UsageReserve > 0
    BY RouterAssumption DEF Reserving
  <1>1. /\ cands \in SUBSET Accounts
        /\ \A b \in cands : gs[b] = gate[b] /\ Eligible(b, status', open')
    OBVIOUS
  <1> HIDE DEF cands
  <1>2. CASE Done(r, gs, ps)
    BY <1>2, DoneSpares
  <1>3. CASE r \notin background /\ ReserveCandidate(r, cands, gs, ps, tried)
    <2>1. ASSUME NEW a \in cands, Dispatch(r, a, gs, ps, tried)
          PROVE  ReserveInv' /\ KeepsReserve
      BY <1>1, <1>3, <2>1, ForegroundDispatchSpares
    <2>2. CASE Queue(r, cands, gs, ps, tried)
      BY <1>1, <1>3, <2>2, QueueSpares
    <2> QED BY <1>3, <2>1, <2>2 DEF ReserveCandidate
  <1>4. CASE ReserveBackground(r, cands, gs, ps, tried)
    <2> DEFINE idle == {a \in cands : gs[a].holders = {}}
    <2>1. ASSUME NEW a \in cands \ idle, Dispatch(r, a, gs, ps, tried)
          PROVE  ReserveInv' /\ KeepsReserve
      <3>1. a \in Accounts /\ gs[a] = gate[a] /\ gs[a].holders # {}
        BY <1>1
      <3> HIDE DEF idle
      <3> QED BY <2>1, <3>1, SharedDispatchSpares
    <2>2. ASSUME SparesReserve(idle), NEW a \in idle, Dispatch(r, a, gs, ps, tried)
          PROVE  ReserveInv' /\ KeepsReserve
      <3>1. /\ idle \in SUBSET Accounts /\ gs[a] = gate[a]
            /\ \A b \in idle : gs[b].holders = {} /\ Eligible(b, status', open')
        BY <1>1
      <3> HIDE DEF idle
      <3> QED BY <2>2, <3>1, FreshDispatchSpares
    <2> QED BY <1>1, <1>2, <1>4, <2>1, <2>2 DEF ReserveBackground
  <1> QED BY <1>0, <1>2, <1>3, <1>4 DEF Route, cands

(* A step that moves no permit and brings no background work to wait.      *)
LEMMA UnmovedSpares ==
  ASSUME IInv, ReserveInv, UNCHANGED gate, DOMAIN used' = Accounts,
         \A q \in Requests : pc'[q] = "waiting" => pc[q] = "waiting",
         \A q \in Requests : q \in background' => q \in background \/ pc'[q] # "waiting"
  PROVE  ReserveInv' /\ KeepsReserve
  <1>1. \A q \in Requests : pc'[q] = "waiting" => q \notin background'
    BY DEF ReserveInv
  <1>2. KeepsReserve
    BY DEF KeepsReserve
  <1> QED BY <1>1, <1>2 DEF ReserveInv

LEMMA RequestSpares ==
  ASSUME Reserving, IInv, ReserveInv, NEW r \in Requests,
         \/ \E isBackground, isStream \in BOOLEAN : Arrive(r, isBackground, isStream)
         \/ Start(r) \/ Abort(r) \/ QueueTimeout(r) \/ Resume(r) \/ Provider(r)
  PROVE  ReserveInv' /\ KeepsReserve
  <1> DEFINE gs == GatesWithout(r)
             ps == PhasesWithout(r)
  <1>0. pc[r] \notin Outside =>
          /\ Detached(r, gs, ps) /\ Spared(gs)
          /\ \A b \in Accounts : b # at[r] => gs[b] = gate[b]
    BY DetachedByRelease, SparedByRelease
  <1>00. pc \in [Requests -> Phase] /\ DOMAIN used = Accounts
    BY DEF IInv, Types, ReserveInv
  <1> HIDE DEF gs, ps
  <1>1. ASSUME NEW isBackground \in BOOLEAN, NEW isStream \in BOOLEAN,
               Arrive(r, isBackground, isStream)
        PROVE  ReserveInv' /\ KeepsReserve
    <2>1. \A q \in Requests : pc'[q] = "waiting" => pc[q] = "waiting"
      BY <1>00, <1>1 DEF Arrive
    <2>2. \A q \in Requests : q \in background' => q \in background \/ pc'[q] # "waiting"
      BY <1>00, <1>1 DEF Arrive
    <2> QED BY <1>00, <1>1, <2>1, <2>2, UnmovedSpares DEF Arrive
  <1>2. CASE Start(r)
    <2>1. Spared(gate)
      BY DEF Spared
    <2> QED BY <1>2, <2>1, DetachedOutside, RouteSpares DEF Start
  <1>3. CASE pc[r] = "waiting" /\ Done(r, GatesLeft(r), pc)
    BY <1>3, DetachedByLeaving, SparedByLeaving, DoneSpares
  <1>4. CASE UNCHANGED <<gate, pc, background, used>>
    BY <1>00, <1>4, UnmovedSpares
  <1>5. CASE Resume(r)
    <2>1. CASE Dispatch(r, at[r], gate, pc, attempted[r])
      <3>1. gate \in [Accounts -> Gate] /\ at[r] \in Accounts /\ r \in gate[at[r]].holders
        BY <1>5 DEF IInv, Types, Tried, Follow, Outside, Resume
      <3>2. gate' = gate
        <4>1. [gate[at[r]] EXCEPT !.holders = @ \cup {r}] = gate[at[r]]
          BY <3>1 DEF Gate
        <4> QED BY <2>1, <3>1, <4>1 DEF Dispatch
      <3>3. \A q \in Requests : pc'[q] = "waiting" => pc[q] = "waiting"
        BY <1>00, <2>1 DEF Dispatch
      <3>4. background' = background /\ DOMAIN used' = Accounts
        BY <1>00, <2>1 DEF Dispatch, Consume
      <3> QED BY <3>2, <3>3, <3>4, UnmovedSpares
    <2>2. CASE Done(r, gs, ps)
      BY <1>0, <1>5, <2>2, DoneSpares DEF Resume, Outside
    <2> QED BY <1>5, <2>1, <2>2 DEF Resume, gs, ps
  <1>6. CASE ForwardSucceeds(r) \/ StreamPrimed(r)
    <2>1. \A q \in Requests : pc'[q] = "waiting" => pc[q] = "waiting"
      BY <1>00, <1>6 DEF ForwardSucceeds, StreamPrimed
    <2> QED BY <1>00, <1>6, <2>1, UnmovedSpares DEF ForwardSucceeds, StreamPrimed
  <1>7. CASE pc[r] \in {"forwarding", "priming", "serving"} /\
             (Done(r, gs, ps) \/ Route(r, gs, ps, attempted[r]))
    <2>1. pc[r] \notin Outside /\ at[r] \in attempted[r]
      BY <1>7 DEF IInv, Tried, Outside
    <2>2. \A b \in Accounts : b \notin attempted[r] => gs[b] = gate[b]
      BY <1>0, <2>1
    <2> QED BY <1>0, <1>7, <2>1, <2>2, DoneSpares, RouteSpares
  <1> QED BY <1>1, <1>2, <1>3, <1>4, <1>5, <1>6, <1>7
          DEF Abort, QueueTimeout, Provider, PrimeFails, ForwardFails, FinishWell, FinishBadly,
              gs, ps

LEMMA ReserveKeeps ==
  ASSUME Reserving
  PROVE  IInv /\ ReserveInv /\ [Next]_vars => ReserveInv' /\ [KeepsReserve]_vars
  <1> SUFFICES ASSUME IInv, ReserveInv, [Next]_vars PROVE ReserveInv' /\ [KeepsReserve]_vars
    OBVIOUS
  <1>1. CASE UNCHANGED <<gate, pc, background>> /\ DOMAIN used' = Accounts
    BY <1>1, UnmovedSpares
  <1>2. \/ UNCHANGED <<gate, pc, background>> /\ DOMAIN used' = Accounts
        \/ \E r \in Requests :
             \/ \E isBackground, isStream \in BOOLEAN : Arrive(r, isBackground, isStream)
             \/ Start(r) \/ Abort(r) \/ QueueTimeout(r) \/ Resume(r) \/ Provider(r)
    BY DEF Next, vars, CooldownEnds, UsageExpires, CheckStarts, AdminWrites, CheckHealthy,
       CheckUnhealthy, CheckInconclusive, requestVars, ReserveInv
  <1> QED BY <1>1, <1>2, RequestSpares

(* Background work takes up an idle account only when the reserve of idle, *)
(* usable accounts is left to foreground work, and comes to be alone at    *)
(* another one only when foreground work leaves it there, for every finite *)
(* set of accounts, any number of permits for each and any number of       *)
(* requests (router.ts:443-449, 497-519, config.ts:39).                    *)
THEOREM RouterReserveKept ==
  ASSUME IsFiniteSet(Accounts)
  PROVE  Spec => ReserveKept
  <1>1. CASE AccountReserve > 0
    <2>1. Reserving
      BY <1>1 DEF Reserving
    <2>2. Init => ReserveInv
      BY DEF Init, ReserveInv
    <2>3. IInv /\ ReserveInv /\ [Next]_vars => ReserveInv' /\ [KeepsReserve]_vars
      BY <2>1, ReserveKeeps
    <2> QED BY <2>2, <2>3, RouterInvariant, PTL DEF Spec, ReserveKept, KeepsReserve
  <1>2. CASE ~ (AccountReserve > 0)
    <2>1. [Next]_vars => [KeepsReserve]_vars
      BY <1>2 DEF KeepsReserve
    <2> QED BY <2>1, PTL DEF Spec, ReserveKept, KeepsReserve
  <1> QED BY <1>1, <1>2
=============================================================================
