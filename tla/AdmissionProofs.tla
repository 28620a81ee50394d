-------------------------- MODULE AdmissionProofs ---------------------------
(***************************************************************************)
(* Proofs about what a request passes before it is worked on: about        *)
(* ConcurrencyGate for every set of callers, every limit and every queue   *)
(* bound, and about ApiAccess for every set of keys, every policy, rate,   *)
(* quota and window, and any number of key changes and restarts.           *)
(***************************************************************************)
EXTENDS ConcurrencyGate, ApiAccess, FiniteSetTheorems, SequenceTheorems, WellFoundedInduction,
        TLAPS

-----------------------------------------------------------------------------
(* The gate.                                                               *)

(* The inductive invariant.  That the counter equals the number of         *)
(* holders is not inductive alone: drain grants whoever it finds in the    *)
(* queues, so every entry must be a pending caller, entered once and not   *)
(* aborted; and that drain serves exactly one waiter per release needs     *)
(* that all the permits are out while anybody waits.                       *)
IInv ==
  /\ TypeOK
  /\ IsFiniteSet(Holders)
  /\ PermitsAccounted
  /\ NoIdlePermit
  /\ QueuesExact

(* What drain does when it is entered by a release: nobody waits and the   *)
(* permit is free, or the first waiter takes it over.                      *)
HandOver(c, w, p) ==
  /\ Len(queue[p]) > 0 /\ w = queue[p][1]
  /\ active' = active
  /\ queue' = [queue EXCEPT ![p] = SubSeq(@, 2, Len(@))]
  /\ phase' = [phase EXCEPT ![c] = "released", ![w] = "holding"]

PutBack(c) ==
  /\ getQueued = 0
  /\ active' = active - 1
  /\ phase' = [phase EXCEPT ![c] = "released"]
  /\ queue' = queue

(* A drained gate with no waiters shifts nothing.                          *)
LEMMA ShiftedNone ==
  ASSUME IInv, getQueued = 0
  PROVE  /\ Waiting = <<>>
         /\ \A free \in Nat : Shifted(free) = 0
         /\ Granted(0) = {}
  <1>1. queue["foreground"] = <<>> /\ queue["background"] = <<>>
    BY DEF IInv, TypeOK, getQueued, Priority
  <1>2. Waiting = <<>>
    BY <1>1 DEF Waiting, Order
  <1>3. Granted(0) = {}
    BY DEF Granted
  <1>4. \A free \in Nat : Shifted(free) = 0
    BY <1>2 DEF Shifted
  <1> QED BY <1>2, <1>3, <1>4

(* With waiters and one free permit the loop shifts exactly one waiter.    *)
LEMMA ShiftedOne ==
  ASSUME IInv, getQueued > 0
  PROVE  /\ Len(Waiting) >= 1 /\ Waiting[1] \notin aborted
         /\ Shifted(1) = 1
         /\ Granted(1) = {1} /\ Cardinality(Granted(1)) = 1
         /\ \E p \in Priority :
              /\ Len(queue[p]) > 0 /\ Waiting[1] = queue[p][1]
              /\ p = "background" => queue["foreground"] = <<>>
  <1>1. \E p \in Priority :
              /\ Len(queue[p]) > 0 /\ Waiting[1] = queue[p][1]
              /\ p = "background" => queue["foreground"] = <<>>
    <2>1. CASE Len(queue["foreground"]) > 0
      <3>1. Waiting[1] = queue["foreground"][1]
        BY <2>1 DEF Waiting, Order, IInv, TypeOK, Priority
      <3> QED BY <2>1, <3>1 DEF Priority
    <2>2. CASE ~ Len(queue["foreground"]) > 0
      <3>1. queue["foreground"] = <<>> /\ Len(queue["background"]) > 0
        BY <2>2 DEF IInv, TypeOK, getQueued, Priority
      <3>2. Waiting[1] = queue["background"][1]
        BY <3>1 DEF Waiting, Order, IInv, TypeOK, Priority
      <3> QED BY <3>1, <3>2 DEF Priority
    <2> QED BY <2>1, <2>2
  <1>2. Waiting[1] \notin aborted
    BY <1>1 DEF IInv, TypeOK, QueuesExact, EntriesPending
  <1>3. Waiting \in Seq(Callers) /\ Len(Waiting) >= 1
    BY DEF Waiting, Order, IInv, TypeOK, Priority, getQueued
  <1>4. Granted(1) = {1} /\ Granted(0) = {}
    BY <1>2 DEF Granted
  <1>5. Cardinality(Granted(1)) = 1 /\ Cardinality(Granted(0)) = 0
    BY <1>4, FS_EmptySet, FS_Singleton
  <1>6. Shifted(1) = 1
    <2> DEFINE S(n) == /\ n = Len(Waiting) \/ Cardinality(Granted(n)) = 1
                       /\ \A m \in 0..(n - 1) : Cardinality(Granted(m)) < 1
    <2>1. 1 \in 0..Len(Waiting) /\ S(1)
      BY <1>3, <1>5
    <2>2. \A n \in 0..Len(Waiting) : S(n) => n = 1
      <3> SUFFICES ASSUME NEW n \in 0..Len(Waiting), S(n)
                   PROVE  n = 1
        OBVIOUS
      <3>1. n # 0
        BY <1>3, <1>5
      <3>2. ~ n > 1
        <4> SUFFICES ASSUME n > 1 PROVE FALSE
          OBVIOUS
        <4>1. 1 \in 0..(n - 1)
          BY <1>3
        <4> QED BY <4>1, <1>5
      <3> QED BY <3>1, <3>2, <1>3
    <2>3. Shifted(1) = CHOOSE n \in 0..Len(Waiting) : S(n)
      BY DEF Shifted
    <2> HIDE DEF S
    <2> QED BY <2>1, <2>2, <2>3
  <1> QED BY <1>1, <1>2, <1>3, <1>4, <1>5, <1>6

(* drain with the number of waiters it shifts named.                       *)
LEMMA DrainShifting ==
  ASSUME NEW count, NEW ph, NEW n, n = Shifted(Limit - count),
         Drain(count, ph)
  PROVE  /\ active' = count + Cardinality(Granted(n))
         /\ queue' = [queue EXCEPT
              !["foreground"] = SubSeq(queue["foreground"], n + 1, Len(queue["foreground"])),
              !["background"] =
                 IF n <= Len(queue["foreground"]) THEN queue["background"]
                 ELSE SubSeq(queue["background"], n - Len(queue["foreground"]) + 1,
                             Len(queue["background"]))]
         /\ phase' = [c \in Callers |->
              IF c \in {Waiting[i] : i \in Granted(n)} THEN "holding"
              ELSE IF c \in {Waiting[i] : i \in (1..n) \ Granted(n)} THEN "idle"
              ELSE ph[c]]
  <1>1. Order[1] = "foreground" /\ Order[2] = "background"
    BY DEF Order
  <1> QED BY <1>1, Zenon DEF Drain

(* A release either frees the permit or hands it to exactly one waiter,    *)
(* the oldest of the first queue that has one.                             *)
LEMMA ReleaseEffect ==
  ASSUME IInv, NEW c \in Callers, phase[c] = "holding", Release(c)
  PROVE  /\ UNCHANGED aborted
         /\ \/ PutBack(c)
            \/ \E p \in Priority :
                 /\ HandOver(c, queue[p][1], p)
                 /\ p = "background" => queue["foreground"] = <<>>
  <1>1. Drain(Decremented, Freed(c)) /\ UNCHANGED aborted
    BY DEF Release
  <1>2. Decremented = active - 1 /\ active \in 1..Limit
    <2>1. c \in Holders
      BY DEF Holders
    <2>2. Cardinality(Holders) # 0
      BY <2>1, FS_EmptySet DEF IInv
    <2> QED BY <2>2, GateAssumption DEF Decremented, IInv, TypeOK, PermitsAccounted
  <1> DEFINE fg == queue["foreground"]
             bg == queue["background"]
             n  == Shifted(Limit - Decremented)
             ph == Freed(c)
  <1>3. fg \in Seq(Callers) /\ bg \in Seq(Callers)
    BY DEF IInv, TypeOK, Priority
  <1>4. /\ active' = Decremented + Cardinality(Granted(n))
        /\ queue' = [queue EXCEPT
              !["foreground"] = SubSeq(fg, n + 1, Len(fg)),
              !["background"] = IF n <= Len(fg) THEN bg
                                ELSE SubSeq(bg, n - Len(fg) + 1, Len(bg))]
        /\ phase' = [d \in Callers |->
              IF d \in {Waiting[i] : i \in Granted(n)} THEN "holding"
              ELSE IF d \in {Waiting[i] : i \in (1..n) \ Granted(n)} THEN "idle"
              ELSE ph[d]]
    BY <1>1, DrainShifting
  <1>5. ph = [phase EXCEPT ![c] = "released"]
    BY DEF Freed
  <1> HIDE DEF n, ph
  <1>6. CASE getQueued = 0
    <2>1. n = 0 /\ Granted(n) = {}
      BY <1>2, <1>6, ShiftedNone, GateAssumption DEF n
    <2>2. active' = active - 1
      <3>1. Cardinality(Granted(n)) = 0
        BY <2>1, FS_EmptySet
      <3> QED BY <1>2, <1>4, <3>1
    <2>3. fg = <<>> /\ bg = <<>>
      BY <1>6 DEF IInv, TypeOK, getQueued, Priority
    <2>4. SubSeq(fg, n + 1, Len(fg)) = fg /\ n <= Len(fg)
      BY <2>1, <2>3
    <2>5. queue' = [queue EXCEPT !["foreground"] = fg, !["background"] = bg]
      BY <1>4, <2>4
    <2>6. queue' = queue
      BY <2>5 DEF IInv, TypeOK, Priority
    <2>7. phase' = [d \in Callers |-> ph[d]]
      BY <1>4, <2>1
    <2>8. phase' = [phase EXCEPT ![c] = "released"]
      BY <1>5, <2>7 DEF IInv, TypeOK
    <2> QED BY <1>1, <1>6, <2>2, <2>6, <2>8 DEF PutBack
  <1>7. CASE getQueued > 0
    <2>1. n = 1 /\ Granted(n) = {1} /\ Cardinality(Granted(n)) = 1
      <3>1. active = Limit
        BY <1>7 DEF IInv, NoIdlePermit
      <3>2. Limit - Decremented = 1
        BY <1>2, <3>1, GateAssumption
      <3> QED BY <1>7, <3>2, ShiftedOne DEF n
    <2>2. PICK p \in Priority :
              /\ Len(queue[p]) > 0 /\ Waiting[1] = queue[p][1]
              /\ p = "background" => queue["foreground"] = <<>>
      BY <1>7, ShiftedOne
    <2>3. active' = active
      BY <1>2, <1>4, <2>1
    <2>4. phase' = [phase EXCEPT ![c] = "released", ![queue[p][1]] = "holding"]
      <3>1. /\ {Waiting[i] : i \in Granted(n)} = {queue[p][1]}
            /\ (1..n) \ Granted(n) = {}
        BY <2>1, <2>2
      <3>2. phase' = [d \in Callers |-> IF d = queue[p][1] THEN "holding" ELSE ph[d]]
        BY <1>4, <3>1
      <3> QED BY <1>5, <3>2 DEF IInv, TypeOK
    <2>5. queue' = [queue EXCEPT ![p] = SubSeq(@, 2, Len(@))]
      <3>1. CASE p = "foreground"
        <4>1. n <= Len(fg) /\ n + 1 = 2
          BY <1>3, <2>1, <2>2, <3>1
        <4>2. queue' = [queue EXCEPT !["foreground"] = SubSeq(fg, 2, Len(fg)),
                                     !["background"] = bg]
          BY <1>4, <4>1
        <4> QED BY <3>1, <4>2 DEF IInv, TypeOK, Priority
      <3>2. CASE p = "background"
        <4>1. fg = <<>> /\ Len(fg) = 0
          BY <2>2, <3>2
        <4>2. /\ SubSeq(fg, n + 1, Len(fg)) = fg
              /\ ~(n <= Len(fg)) /\ n - Len(fg) + 1 = 2
          BY <2>1, <4>1
        <4>3. queue' = [queue EXCEPT !["foreground"] = fg,
                                     !["background"] = SubSeq(bg, 2, Len(bg))]
          BY <1>4, <4>2
        <4> QED BY <3>2, <4>3 DEF IInv, TypeOK, Priority
      <3> QED BY <3>1, <3>2 DEF Priority
    <2> QED BY <1>1, <2>2, <2>3, <2>4, <2>5 DEF HandOver
  <1>8. getQueued \in Nat
    BY DEF IInv, TypeOK, getQueued, Priority
  <1> QED BY <1>6, <1>7, <1>8

-----------------------------------------------------------------------------
LEMMA InitIInv == Init => IInv
  <1> SUFFICES ASSUME Init PROVE IInv
    OBVIOUS
  <1>1. TypeOK
    BY GateAssumption DEF Init, TypeOK, Phase, Priority
  <1>2. Holders = {}
    BY DEF Init, Holders
  <1>3. IsFiniteSet(Holders) /\ PermitsAccounted
    BY <1>2, FS_EmptySet, GateAssumption DEF Init, PermitsAccounted
  <1>4. getQueued = 0
    BY DEF Init, getQueued, Priority
  <1>5. NoIdlePermit
    BY <1>4 DEF NoIdlePermit
  <1>6. QueuesExact
    BY <1>4, GateAssumption
    DEF Init, QueuesExact, EntriesPending, EntriesDistinct, PendingEntered, Priority
  <1> QED BY <1>1, <1>3, <1>5, <1>6 DEF IInv

(* The queued total follows the length of the one queue that changes.      *)
LEMMA QueuedChange ==
  ASSUME queue \in [Priority -> Seq(Callers)], queue' \in [Priority -> Seq(Callers)],
         NEW p \in Priority, NEW d \in Int, Len(queue'[p]) = Len(queue[p]) + d,
         \A r \in Priority \ {p} : queue'[r] = queue[r]
  PROVE  getQueued' = getQueued + d /\ getQueued \in Nat /\ getQueued >= Len(queue[p])
  <1> DEFINE f  == Len(queue["foreground"])
             b  == Len(queue["background"])
             f2 == Len(queue'["foreground"])
             b2 == Len(queue'["background"])
             l  == Len(queue[p])
  <1>1. f \in Nat /\ b \in Nat
    BY DEF Priority
  <1>2. getQueued = f + b /\ getQueued' = f2 + b2
    BY DEF getQueued
  <1>3. \/ f2 = f + d /\ b2 = b /\ l = f
        \/ f2 = f /\ b2 = b + d /\ l = b
    <2>1. CASE p = "foreground"
      BY <2>1, Zenon DEF Priority
    <2>2. CASE p = "background"
      BY <2>2, Zenon DEF Priority
    <2> QED BY <2>1, <2>2 DEF Priority
  <1> HIDE DEF f, b, f2, b2, l
  <1>4. f2 + b2 = (f + b) + d /\ f + b \in Nat /\ f + b >= l
    BY <1>1, <1>3
  <1>5. getQueued >= l
    BY <1>2, <1>4
  <1> QED BY <1>2, <1>4, <1>5 DEF l

(* A caller that takes a free permit.                                      *)
LEMMA TakePreserves ==
  ASSUME IInv, NEW c \in Callers, phase[c] = "idle", Available,
         active' = active + 1, phase' = [phase EXCEPT ![c] = "holding"],
         UNCHANGED <<queue, aborted>>
  PROVE  IInv'
  <1>1. getQueued = 0 /\ getQueued' = 0
    BY DEF Available, getQueued
  <1>2. TypeOK'
    BY GateAssumption DEF IInv, TypeOK, Available, Phase
  <1>3. Holders' = Holders \cup {c} /\ c \notin Holders
    BY DEF Holders, IInv, TypeOK
  <1>4. IsFiniteSet(Holders)' /\ Cardinality(Holders)' = Cardinality(Holders) + 1
    BY <1>3, FS_AddElement DEF IInv
  <1>5. PermitsAccounted'
    BY <1>4, GateAssumption DEF IInv, TypeOK, PermitsAccounted, Available
  <1>6. NoIdlePermit'
    BY <1>1 DEF NoIdlePermit
  <1>7. \A p \in Priority : queue[p] = <<>>
    BY <1>1 DEF IInv, TypeOK, getQueued, Priority
  <1>8. QueuesExact'
    BY <1>1, <1>7, GateAssumption
    DEF IInv, TypeOK, QueuesExact, EntriesPending, EntriesDistinct, PendingEntered
  <1> QED BY <1>2, <1>4, <1>5, <1>6, <1>8 DEF IInv

(* A caller that joins the end of a queue.                                 *)
LEMMA JoinPreserves ==
  ASSUME IInv, NEW c \in Callers, NEW p \in Priority,
         phase[c] = "idle", ~Available, Enqueueable(c),
         queue' = [queue EXCEPT ![p] = Push(@, c)],
         phase' = [phase EXCEPT ![c] = "queued"],
         UNCHANGED <<active, aborted>>
  PROVE  IInv'
  <1>1. /\ \A r \in Priority : queue[r] \in Seq(Callers)
        /\ queue'[p] = Append(queue[p], c)
        /\ \A r \in Priority : r # p => queue'[r] = queue[r]
    BY DEF IInv, TypeOK, Push
  <1>2. getQueued' = getQueued + 1 /\ getQueued \in Nat
    <2>1. Len(queue'[p]) = Len(queue[p]) + 1
      BY <1>1
    <2>2. queue \in [Priority -> Seq(Callers)] /\ queue' \in [Priority -> Seq(Callers)]
      BY <1>1 DEF IInv, TypeOK, Push
    <2>3. \A r \in Priority \ {p} : queue'[r] = queue[r]
      BY <1>1
    <2>4. 1 \in Int
      OBVIOUS
    <2> QED BY <2>1, <2>2, <2>3, <2>4, QueuedChange, Zenon
  <1>3. TypeOK'
    BY <1>1 DEF IInv, TypeOK, Push, Phase
  <1>4. Holders' = Holders
    BY DEF Holders, IInv, TypeOK
  <1>5. IsFiniteSet(Holders)' /\ PermitsAccounted'
    BY <1>4 DEF IInv, PermitsAccounted
  <1>6. NoIdlePermit'
    BY <1>2, GateAssumption
    DEF IInv, TypeOK, NoIdlePermit, Available, PermitsAccounted
  <1>7. getQueued' <= MaxQueue
    BY <1>2, GateAssumption DEF Enqueueable
  <1>8. \A r \in Priority : \A i \in 1..Len(queue'[r]) :
          \/ i \in 1..Len(queue[r]) /\ queue'[r][i] = queue[r][i]
          \/ r = p /\ i = Len(queue[p]) + 1 /\ queue'[r][i] = c
    BY <1>1
  <1>9. \A r \in Priority : \A i \in 1..Len(queue[r]) :
          /\ i \in 1..Len(queue'[r]) /\ queue'[r][i] = queue[r][i]
          /\ queue[r][i] # c /\ queue[r][i] \in Callers
    BY <1>1 DEF IInv, QueuesExact, EntriesPending
  <1>10. EntriesPending'
    <2>1. \A d \in Callers : phase[d] = "queued" => phase'[d] = "queued"
      BY DEF IInv, TypeOK
    <2>2. phase'[c] = "queued" /\ c \notin aborted'
      BY DEF IInv, TypeOK, Enqueueable
    <2> QED BY <1>8, <1>9, <2>1, <2>2 DEF IInv, QueuesExact, EntriesPending
  <1>11. EntriesDistinct'
    BY <1>8, <1>9 DEF IInv, QueuesExact, EntriesDistinct
  <1>12. PendingEntered'
    <2> SUFFICES ASSUME NEW d \in Callers, phase'[d] = "queued"
                 PROVE  \E r \in Priority : \E i \in 1..Len(queue'[r]) : queue'[r][i] = d
      BY DEF PendingEntered
    <2>1. CASE d = c
      <3>1. Len(queue[p]) + 1 \in 1..Len(queue'[p]) /\ queue'[p][Len(queue[p]) + 1] = c
        BY <1>1
      <3> QED BY <2>1, <3>1
    <2>2. CASE d # c
      <3>1. phase[d] = "queued"
        BY <2>2 DEF IInv, TypeOK
      <3> QED BY <3>1, <1>9 DEF IInv, QueuesExact, PendingEntered
    <2> QED BY <2>1, <2>2
  <1>13. QueuesExact'
    BY <1>7, <1>10, <1>11, <1>12 DEF QueuesExact
  <1> QED BY <1>3, <1>5, <1>6, <1>13 DEF IInv

(* One entry, the i-th of queue p, has left and the others keep their      *)
(* order.                                                                  *)
Removed(p, i) ==
  /\ queue' \in [Priority -> Seq(Callers)]
  /\ Len(queue'[p]) = Len(queue[p]) - 1
  /\ \A j \in 1..(Len(queue[p]) - 1) :
       queue'[p][j] = queue[p][IF j < i THEN j ELSE j + 1]
  /\ \A r \in Priority \ {p} : queue'[r] = queue[r]

LEMMA RemoveAtRemoves ==
  ASSUME TypeOK, NEW p \in Priority, NEW i \in 1..Len(queue[p]),
         queue' = [queue EXCEPT ![p] = RemoveAt(@, i)]
  PROVE  Removed(p, i)
  <1> DEFINE q == queue[p]
  <1>1. q \in Seq(Callers)
    BY DEF TypeOK
  <1>2. RemoveAt(q, i) = SubSeq(q, 1, i - 1) \o SubSeq(q, i + 1, Len(q))
    BY DEF RemoveAt
  <1> DEFINE left  == SubSeq(q, 1, i - 1)
             right == SubSeq(q, i + 1, Len(q))
  <1>3. /\ left \in Seq(Callers) /\ Len(left) = i - 1
        /\ \A j \in 1..(i - 1) : left[j] = q[j]
        /\ right \in Seq(Callers) /\ Len(right) = Len(q) - i
        /\ \A j \in 1..(Len(q) - i) : right[j] = q[i + j]
    BY <1>1
  <1> HIDE DEF left, right
  <1>4. /\ left \o right \in Seq(Callers)
        /\ Len(left \o right) = Len(left) + Len(right)
        /\ \A j \in 1..(Len(left) + Len(right)) :
             (left \o right)[j] = IF j <= Len(left) THEN left[j] ELSE right[j - Len(left)]
    BY <1>3, ConcatProperties
  <1>5. /\ RemoveAt(q, i) \in Seq(Callers) /\ Len(RemoveAt(q, i)) = Len(q) - 1
        /\ \A j \in 1..(Len(q) - 1) : RemoveAt(q, i)[j] = q[IF j < i THEN j ELSE j + 1]
    <2>1. RemoveAt(q, i) = left \o right /\ Len(q) \in Nat
      BY <1>1, <1>2 DEF left, right
    <2>2. Len(left) + Len(right) = Len(q) - 1
      BY <1>3, <2>1
    <2>3. \A j \in 1..(Len(q) - 1) :
            (left \o right)[j] = q[IF j < i THEN j ELSE j + 1]
      <3> SUFFICES ASSUME NEW j \in 1..(Len(q) - 1)
                   PROVE  (left \o right)[j] = q[IF j < i THEN j ELSE j + 1]
        OBVIOUS
      <3>1. CASE j < i
        <4>1. (left \o right)[j] = left[j] /\ j \in 1..(i - 1)
          BY <1>3, <1>4, <2>2, <3>1
        <4> QED BY <1>3, <3>1, <4>1
      <3>2. CASE ~(j < i)
        <4>1. (left \o right)[j] = right[j - (i - 1)] /\ j - (i - 1) \in 1..(Len(q) - i)
          BY <1>3, <1>4, <2>1, <2>2, <3>2
        <4>2. i + (j - (i - 1)) = j + 1
          OBVIOUS
        <4> QED BY <1>3, <3>2, <4>1, <4>2
      <3> QED BY <3>1, <3>2
    <2> QED BY <1>4, <2>1, <2>2, <2>3
  <1>6. queue'[p] = RemoveAt(q, i) /\ \A r \in Priority \ {p} : queue'[r] = queue[r]
    BY DEF TypeOK
  <1>7. queue' \in [Priority -> Seq(Callers)]
    BY <1>5 DEF TypeOK
  <1> QED BY <1>5, <1>6, <1>7 DEF Removed

LEMMA TailRemoves ==
  ASSUME TypeOK, NEW p \in Priority, Len(queue[p]) > 0,
         queue' = [queue EXCEPT ![p] = SubSeq(@, 2, Len(@))]
  PROVE  Removed(p, 1)
  <1>1. queue[p] \in Seq(Callers)
    BY DEF TypeOK
  <1>2. /\ SubSeq(queue[p], 2, Len(queue[p])) \in Seq(Callers)
        /\ Len(SubSeq(queue[p], 2, Len(queue[p]))) = Len(queue[p]) - 1
        /\ \A j \in 1..(Len(queue[p]) - 1) :
             SubSeq(queue[p], 2, Len(queue[p]))[j] = queue[p][j + 1]
    BY <1>1
  <1>3. /\ queue'[p] = SubSeq(queue[p], 2, Len(queue[p]))
        /\ \A r \in Priority \ {p} : queue'[r] = queue[r]
        /\ queue' \in [Priority -> Seq(Callers)]
    BY <1>2 DEF TypeOK
  <1> QED BY <1>2, <1>3 DEF Removed

(* What the other entries see when one leaves.                             *)
LEMMA RemovedKeepsOthers ==
  ASSUME IInv, NEW p \in Priority, NEW i \in 1..Len(queue[p]), Removed(p, i)
  PROVE  /\ getQueued > 0 /\ getQueued' = getQueued - 1 /\ getQueued \in Nat
         /\ \A r \in Priority : \A j \in 1..Len(queue'[r]) :
              \E k \in 1..Len(queue[r]) :
                queue'[r][j] = queue[r][k] /\ queue[r][k] # queue[p][i]
         /\ EntriesDistinct'
         /\ \A r \in Priority : \A k \in 1..Len(queue[r]) :
              queue[r][k] # queue[p][i] =>
                \E j \in 1..Len(queue'[r]) : queue'[r][j] = queue[r][k]
  <1>1. \A r \in Priority : queue[r] \in Seq(Callers) /\ Len(queue[r]) \in Nat
    BY DEF IInv, TypeOK
  <1>2. getQueued > 0 /\ getQueued' = getQueued - 1 /\ getQueued \in Nat
    <2>1. Len(queue'[p]) = Len(queue[p]) + (-1)
      BY <1>1 DEF Removed
    <2>2. queue \in [Priority -> Seq(Callers)] /\ queue' \in [Priority -> Seq(Callers)]
      BY DEF IInv, TypeOK, Removed
    <2>3. getQueued' = getQueued + (-1) /\ getQueued \in Nat /\ getQueued >= Len(queue[p])
      <3>1. -1 \in Int /\ \A r \in Priority \ {p} : queue'[r] = queue[r]
        BY DEF Removed
      <3> QED BY <2>1, <2>2, <3>1, QueuedChange, Zenon
    <2> QED BY <1>1, <2>3
  <1> DEFINE Old(r, j) == IF r = p /\ j >= i THEN j + 1 ELSE j
  <1>3. \A r \in Priority : \A j \in 1..Len(queue'[r]) :
          /\ Old(r, j) \in 1..Len(queue[r])
          /\ queue'[r][j] = queue[r][Old(r, j)]
          /\ ~(r = p /\ Old(r, j) = i)
    BY <1>1 DEF Removed
  <1>4. \A r \in Priority : \A j \in 1..Len(queue'[r]) :
          queue[r][Old(r, j)] # queue[p][i]
    BY <1>1, <1>3 DEF IInv, QueuesExact, EntriesDistinct
  <1>5. EntriesDistinct'
    <2> SUFFICES ASSUME NEW r \in Priority, NEW t \in Priority,
                        NEW j \in 1..Len(queue'[r]), NEW k \in 1..Len(queue'[t]),
                        queue'[r][j] = queue'[t][k]
                 PROVE  r = t /\ j = k
      BY DEF EntriesDistinct
    <2> DEFINE a == Old(r, j)
               b == Old(t, k)
    <2>1. a \in 1..Len(queue[r]) /\ b \in 1..Len(queue[t]) /\ queue[r][a] = queue[t][b]
      BY <1>3
    <2> HIDE DEF a, b
    <2>2. r = t /\ a = b
      BY <2>1 DEF IInv, QueuesExact, EntriesDistinct
    <2> USE DEF a, b
    <2> QED BY <1>1, <2>2 DEF Removed
  <1>6. \A r \in Priority : \A k \in 1..Len(queue[r]) :
          queue[r][k] # queue[p][i] =>
            \E j \in 1..Len(queue'[r]) : queue'[r][j] = queue[r][k]
    <2> SUFFICES ASSUME NEW r \in Priority, NEW k \in 1..Len(queue[r]),
                        queue[r][k] # queue[p][i]
                 PROVE  \E j \in 1..Len(queue'[r]) : queue'[r][j] = queue[r][k]
      OBVIOUS
    <2>1. CASE r # p
      BY <2>1 DEF Removed
    <2>2. CASE r = p /\ k < i
      <3>1. k \in 1..Len(queue'[r]) /\ queue'[r][k] = queue[r][k]
        BY <1>1, <2>2 DEF Removed
      <3> QED BY <3>1
    <2>3. CASE r = p /\ k > i
      <3>1. k - 1 \in 1..Len(queue'[r]) /\ queue'[r][k - 1] = queue[r][k]
        BY <1>1, <2>3 DEF Removed
      <3> QED BY <3>1
    <2> QED BY <2>1, <2>2, <2>3
  <1> HIDE DEF Old
  <1> QED BY <1>2, <1>3, <1>4, <1>5, <1>6

(* The queues stay exact when the entry that leaves is settled and nothing *)
(* else changes for the other waiters.                                     *)
LEMMA LeavingKeepsExact ==
  ASSUME IInv, NEW p \in Priority, NEW i \in 1..Len(queue[p]), Removed(p, i),
         NEW w, w = queue[p][i], phase'[w] # "queued",
         aborted' \subseteq aborted \cup {w},
         \A d \in Callers : d # w => (phase'[d] = "queued" <=> phase[d] = "queued")
  PROVE  QueuesExact'
  <1>1. getQueued' <= MaxQueue
    BY RemovedKeepsOthers, GateAssumption DEF IInv, QueuesExact
  <1>2. EntriesDistinct'
    BY RemovedKeepsOthers
  <1>3. EntriesPending'
    <2> SUFFICES ASSUME NEW r \in Priority, NEW j \in 1..Len(queue'[r])
                 PROVE  phase'[queue'[r][j]] = "queued" /\ queue'[r][j] \notin aborted'
      BY DEF EntriesPending
    <2>1. PICK k \in 1..Len(queue[r]) : queue'[r][j] = queue[r][k] /\ queue[r][k] # w
      BY RemovedKeepsOthers
    <2>2. queue[r][k] \in Callers
      BY DEF IInv, TypeOK
    <2>3. phase[queue[r][k]] = "queued" /\ queue[r][k] \notin aborted
      BY DEF IInv, QueuesExact, EntriesPending
    <2> QED BY <2>1, <2>2, <2>3
  <1>4. PendingEntered'
    <2> SUFFICES ASSUME NEW d \in Callers, phase'[d] = "queued"
                 PROVE  \E r \in Priority : \E j \in 1..Len(queue'[r]) : queue'[r][j] = d
      BY DEF PendingEntered
    <2>1. d # w /\ phase[d] = "queued"
      OBVIOUS
    <2>2. PICK r \in Priority : \E k \in 1..Len(queue[r]) : queue[r][k] = d
      BY <2>1 DEF IInv, QueuesExact, PendingEntered
    <2>3. PICK k \in 1..Len(queue[r]) : queue[r][k] = d
      BY <2>2
    <2>4. \A s \in Priority : \A m \in 1..Len(queue[s]) :
            queue[s][m] # queue[p][i] =>
              \E j \in 1..Len(queue'[s]) : queue'[s][j] = queue[s][m]
      BY RemovedKeepsOthers, Zenon
    <2>5. queue[r][k] # queue[p][i]
      BY <2>1, <2>3
    <2>6. PICK j \in 1..Len(queue'[r]) : queue'[r][j] = queue[r][k]
      BY <2>4, <2>5, Zenon
    <2> QED BY <2>3, <2>6
  <1> QED BY <1>1, <1>2, <1>3, <1>4 DEF QueuesExact

(* A waiter that is turned away by its timer or by its signal.             *)
LEMMA SettlePreserves ==
  ASSUME IInv, NEW c \in Callers, SettleUnavailable(c), UNCHANGED active,
         aborted' \subseteq aborted \cup {c}
  PROVE  IInv'
  <1>1. PICK p \in Priority : \E i \in 1..Len(queue[p]) :
          queue[p][i] = c /\ queue' = [queue EXCEPT ![p] = RemoveAt(@, i)]
    BY DEF SettleUnavailable
  <1>2. PICK i \in 1..Len(queue[p]) :
          queue[p][i] = c /\ queue' = [queue EXCEPT ![p] = RemoveAt(@, i)]
    BY <1>1
  <1>3. phase[c] = "queued" /\ phase' = [phase EXCEPT ![c] = "idle"]
    BY DEF SettleUnavailable
  <1>4. Removed(p, i)
    BY <1>2, RemoveAtRemoves DEF IInv
  <1>5. TypeOK'
    BY <1>3, <1>4 DEF IInv, TypeOK, Phase, Removed
  <1>6. Holders' = Holders
    BY <1>3 DEF Holders, IInv, TypeOK
  <1>7. IsFiniteSet(Holders)' /\ PermitsAccounted'
    BY <1>6 DEF IInv, PermitsAccounted
  <1>8. NoIdlePermit'
    BY <1>4, RemovedKeepsOthers DEF IInv, NoIdlePermit
  <1>9. QueuesExact'
    <2>1. /\ phase'[c] # "queued"
          /\ \A d \in Callers : d # c => (phase'[d] = "queued" <=> phase[d] = "queued")
      BY <1>3 DEF IInv, TypeOK
    <2> QED BY <1>2, <1>4, <2>1, LeavingKeepsExact
  <1> QED BY <1>5, <1>7, <1>8, <1>9 DEF IInv

(* A permit handed to the first waiter.                                    *)
LEMMA HandOverPreserves ==
  ASSUME IInv, NEW c \in Callers, phase[c] = "holding", NEW p \in Priority,
         HandOver(c, queue[p][1], p), UNCHANGED aborted
  PROVE  IInv'
  <1> DEFINE w == queue[p][1]
  <1>1. 1 \in 1..Len(queue[p]) /\ w \in Callers /\ phase[w] = "queued" /\ w # c
    BY DEF HandOver, IInv, TypeOK, QueuesExact, EntriesPending
  <1>2. Removed(p, 1)
    BY <1>1, TailRemoves DEF HandOver, IInv
  <1>3. /\ phase' \in [Callers -> Phase]
        /\ phase'[c] = "released" /\ phase'[w] = "holding"
        /\ \A d \in Callers : d # c /\ d # w => phase'[d] = phase[d]
    BY <1>1 DEF HandOver, IInv, TypeOK, Phase
  <1> HIDE DEF w
  <1>4. TypeOK'
    BY <1>2, <1>3 DEF HandOver, IInv, TypeOK, Removed
  <1>5. /\ c \in Holders /\ w \notin Holders
        /\ Holders' = (Holders \ {c}) \cup {w}
    BY <1>1, <1>3 DEF Holders
  <1>6. IsFiniteSet(Holders)' /\ Cardinality(Holders)' = Cardinality(Holders)
    <2>1. /\ IsFiniteSet(Holders \ {c})
          /\ Cardinality(Holders \ {c}) = Cardinality(Holders) - 1
      BY <1>5, FS_RemoveElement DEF IInv
    <2>2. /\ IsFiniteSet((Holders \ {c}) \cup {w})
          /\ Cardinality((Holders \ {c}) \cup {w}) = Cardinality(Holders \ {c}) + 1
      BY <1>5, <2>1, FS_AddElement
    <2>3. Cardinality(Holders) \in Nat
      BY FS_CardinalityType DEF IInv
    <2> QED BY <1>5, <2>1, <2>2, <2>3
  <1>7. PermitsAccounted' /\ NoIdlePermit'
    BY <1>2, <1>6, RemovedKeepsOthers DEF HandOver, IInv, PermitsAccounted, NoIdlePermit
  <1>8. QueuesExact'
    <2>1. \A d \in Callers : d # w => (phase'[d] = "queued" <=> phase[d] = "queued")
      BY <1>3
    <2>2. phase'[w] # "queued" /\ aborted' \subseteq aborted \cup {w} /\ w = queue[p][1]
      BY <1>3 DEF w
    <2> QED BY <1>1, <1>2, <2>1, <2>2, LeavingKeepsExact
  <1> QED BY <1>4, <1>6, <1>7, <1>8 DEF IInv

(* A step that changes no queue and nothing a waiter sees.                 *)
LEMMA AsidePreserves ==
  ASSUME IInv, NEW c \in Callers, phase[c] # "queued", queue' = queue, active' = active,
         aborted' \subseteq aborted \cup {c}, phase' \in [Callers -> Phase],
         \A d \in Callers : d # c => phase'[d] = phase[d],
         phase'[c] # "queued", phase'[c] = "holding" <=> phase[c] = "holding"
  PROVE  IInv'
  <1>1. TypeOK'
    BY DEF IInv, TypeOK
  <1>2. Holders' = Holders
    BY DEF Holders
  <1>3. IsFiniteSet(Holders)' /\ PermitsAccounted'
    BY <1>2 DEF IInv, PermitsAccounted
  <1>4. getQueued' = getQueued
    BY DEF getQueued
  <1>5. NoIdlePermit'
    BY <1>4 DEF IInv, NoIdlePermit
  <1>6. EntriesPending'
    <2> SUFFICES ASSUME NEW p \in Priority, NEW i \in 1..Len(queue[p])
                 PROVE  phase'[queue[p][i]] = "queued" /\ queue[p][i] \notin aborted'
      BY DEF EntriesPending
    <2>1. /\ queue[p][i] \in Callers /\ phase[queue[p][i]] = "queued"
          /\ queue[p][i] \notin aborted
      BY DEF IInv, TypeOK, QueuesExact, EntriesPending
    <2> QED BY <2>1
  <1>7. EntriesDistinct' /\ PendingEntered'
    BY DEF IInv, QueuesExact, EntriesDistinct, PendingEntered
  <1> QED BY <1>1, <1>3, <1>4, <1>5, <1>6, <1>7 DEF IInv, QueuesExact

(* A permit that comes back while nobody waits.                            *)
LEMMA PutBackPreserves ==
  ASSUME IInv, NEW c \in Callers, phase[c] = "holding", PutBack(c), UNCHANGED aborted
  PROVE  IInv'
  <1>1. Holders' = Holders \ {c} /\ c \in Holders
    BY DEF PutBack, Holders, IInv, TypeOK
  <1>2. /\ IsFiniteSet(Holders)' /\ Cardinality(Holders)' = Cardinality(Holders) - 1
        /\ Cardinality(Holders) \in Nat
    BY <1>1, FS_RemoveElement, FS_CardinalityType DEF IInv
  <1>3. Cardinality(Holders) # 0
    BY <1>1, FS_EmptySet DEF IInv
  <1>4. PermitsAccounted'
    BY <1>2, <1>3, GateAssumption DEF PutBack, IInv, TypeOK, PermitsAccounted
  <1>5. TypeOK'
    BY <1>2, <1>3, GateAssumption DEF PutBack, IInv, TypeOK, Phase, PermitsAccounted
  <1>6. getQueued' = 0
    BY DEF PutBack, getQueued
  <1>7. \A p \in Priority : queue[p] = <<>>
    BY DEF PutBack, IInv, TypeOK, getQueued, Priority
  <1>8. QueuesExact'
    <2>1. EntriesPending' /\ EntriesDistinct'
      BY <1>7 DEF PutBack, EntriesPending, EntriesDistinct
    <2>2. PendingEntered'
      BY DEF PutBack, IInv, TypeOK, QueuesExact, PendingEntered
    <2> QED BY <1>6, <2>1, <2>2, GateAssumption DEF QueuesExact
  <1> QED BY <1>2, <1>4, <1>5, <1>6, <1>8 DEF IInv, NoIdlePermit

-----------------------------------------------------------------------------
LEMMA StepIInv == IInv /\ [Next]_vars => IInv'
  <1> SUFFICES ASSUME IInv, [Next]_vars PROVE IInv'
    OBVIOUS
  <1>1. CASE UNCHANGED vars
    <2>1. active' = active /\ queue' = queue /\ phase' = phase /\ aborted' = aborted
      BY <1>1 DEF vars
    <2>2. TypeOK'
      BY <2>1 DEF IInv, TypeOK
    <2>3. Holders' = Holders
      BY <2>1 DEF Holders
    <2>4. getQueued' = getQueued
      BY <2>1 DEF getQueued
    <2>5. EntriesPending' /\ EntriesDistinct' /\ PendingEntered'
      BY <2>1 DEF IInv, QueuesExact, EntriesPending, EntriesDistinct, PendingEntered
    <2> QED BY <2>1, <2>2, <2>3, <2>4, <2>5
        DEF IInv, PermitsAccounted, NoIdlePermit, QueuesExact
  <1>2. ASSUME NEW c \in Callers, NEW p \in Priority, Acquire(c, p) PROVE IInv'
    <2>1. CASE Available
      BY <1>2, <2>1, TakePreserves DEF Acquire
    <2>2. CASE ~Available /\ Enqueueable(c)
      <3>1. /\ phase[c] = "idle" /\ queue' = [queue EXCEPT ![p] = Push(@, c)]
            /\ phase' = [phase EXCEPT ![c] = "queued"] /\ UNCHANGED <<active, aborted>>
        BY <1>2, <2>2 DEF Acquire
      <3> QED BY <2>2, <3>1, JoinPreserves
    <2>3. CASE ~Available /\ ~Enqueueable(c)
      BY <1>1, <1>2, <2>3 DEF Acquire
    <2> QED BY <2>1, <2>2, <2>3
  <1>3. ASSUME NEW c \in Callers, TryAcquire(c) PROVE IInv'
    BY <1>3, TakePreserves DEF TryAcquire
  <1>4. ASSUME NEW c \in Callers, Timeout(c) PROVE IInv'
    BY <1>4, SettlePreserves DEF Timeout
  <1>5. ASSUME NEW c \in Callers, Abort(c) PROVE IInv'
    <2>1. CASE SettleUnavailable(c)
      BY <1>5, <2>1, SettlePreserves DEF Abort
    <2>2. CASE phase[c] # "queued" /\ UNCHANGED <<queue, phase>>
      BY <1>5, <2>2, AsidePreserves DEF Abort, IInv, TypeOK
    <2> QED BY <1>5, <2>1, <2>2 DEF Abort
  <1>6. ASSUME NEW c \in Callers, Release(c) PROVE IInv'
    <2>1. CASE phase[c] = "holding"
      BY <1>6, <2>1, ReleaseEffect, PutBackPreserves, HandOverPreserves
    <2>2. CASE phase[c] # "holding"
      BY <1>1, <1>6, <2>2 DEF Release
    <2> QED BY <2>1, <2>2
  <1>7. ASSUME NEW c \in Callers, NextRequest(c) PROVE IInv'
    <2>1. /\ phase[c] # "queued" /\ phase[c] # "holding"
          /\ phase' = [phase EXCEPT ![c] = "idle"] /\ aborted' = aborted \ {c}
          /\ queue' = queue /\ active' = active
      BY <1>7 DEF NextRequest
    <2>2. /\ phase' \in [Callers -> Phase] /\ phase'[c] = "idle"
          /\ \A d \in Callers : d # c => phase'[d] = phase[d]
      BY <2>1 DEF IInv, TypeOK, Phase
    <2>3. aborted' \subseteq aborted \cup {c}
      BY <2>1
    <2> QED BY <2>1, <2>2, <2>3, AsidePreserves
  <1> QED BY <1>1, <1>2, <1>3, <1>4, <1>5, <1>6, <1>7 DEF Next

LEMMA GateInvariant == Spec => []IInv
  BY InitIInv, StepIInv, PTL DEF Spec

(* The state of a gate keeps its type (concurrency.ts:18-20).              *)
THEOREM GateTypeOK == Spec => []TypeOK
  <1>1. IInv => TypeOK
    BY DEF IInv
  <1> QED BY <1>1, GateInvariant, PTL

(* No permit is leaked or invented by any order of grants, releases,       *)
(* timeouts and aborts (concurrency.ts:28-32, 88-106).                     *)
THEOREM GateAccountsPermits == Spec => []PermitsAccounted
  <1>1. IInv => PermitsAccounted
    BY DEF IInv
  <1> QED BY <1>1, GateInvariant, PTL

(* Nobody waits beside a free permit (concurrency.ts:29, 94-106).          *)
THEOREM GateIsWorkConserving == Spec => []NoIdlePermit
  <1>1. IInv => NoIdlePermit
    BY DEF IInv
  <1> QED BY <1>1, GateInvariant, PTL

(* The queues hold exactly the pending callers, once, none aborted and     *)
(* within the bound (concurrency.ts:37-62, 108-114).                       *)
THEOREM GateQueuesExact == Spec => []QueuesExact
  <1>1. IInv => QueuesExact
    BY DEF IInv
  <1> QED BY <1>1, GateInvariant, PTL

-----------------------------------------------------------------------------
(* The holders and the pending callers move as the permit pool's sets do.  *)

(* The instance has its own copy of Cardinality.                           *)
LEMMA SameCardinality == Permits!Cardinality(Holders) = Cardinality(Holders)
  BY DEF Permits!Cardinality, Cardinality

LEMMA InitRefines == Init => Permits!Init
  BY DEF Init, Permits!Init, Holders, Queued

LEMMA TakeRefines ==
  ASSUME IInv, NEW c \in Callers, phase[c] = "idle", Available,
         phase' = [phase EXCEPT ![c] = "holding"]
  PROVE  Permits!Take(c)
  <1>1. getQueued = 0 /\ active < Limit
    BY DEF Available
  <1>2. \A p \in Priority : queue[p] = <<>>
    BY <1>1 DEF IInv, TypeOK, getQueued, Priority
  <1>3. Queued = {}
    BY <1>2 DEF Queued, IInv, QueuesExact, PendingEntered
  <1>4. Holders' = Holders \cup {c} /\ Queued' = Queued /\ c \notin Holders
    BY DEF Holders, Queued, IInv, TypeOK
  <1>5. Cardinality(Holders) < Limit
    BY <1>1 DEF IInv, PermitsAccounted
  <1>6. c \notin Queued
    BY <1>3
  <1> QED BY <1>3, <1>4, <1>5, <1>6, Zenon, SameCardinality DEF Permits!Take, Permits!Absent

LEMMA WaitRefines ==
  ASSUME IInv, NEW c \in Callers, phase[c] = "idle", ~Available,
         phase' = [phase EXCEPT ![c] = "queued"]
  PROVE  Permits!Wait(c)
  <1>1. getQueued \in Nat /\ active = Limit
    BY GateAssumption
    DEF Available, IInv, TypeOK, getQueued, Priority, NoIdlePermit, PermitsAccounted
  <1>2. /\ Queued' = Queued \cup {c} /\ Holders' = Holders
        /\ c \notin Holders /\ c \notin Queued
    BY DEF Holders, Queued, IInv, TypeOK
  <1>3. Cardinality(Holders) = Limit
    BY <1>1 DEF IInv, PermitsAccounted
  <1> QED BY <1>2, <1>3, Zenon, SameCardinality DEF Permits!Wait, Permits!Absent

LEMMA GiveUpRefines ==
  ASSUME IInv, NEW c \in Callers, SettleUnavailable(c)
  PROVE  Permits!GiveUp(c)
  <1>1. phase[c] = "queued" /\ phase' = [phase EXCEPT ![c] = "idle"]
    BY DEF SettleUnavailable
  <1>2. Queued' = Queued \ {c} /\ Holders' = Holders /\ c \in Queued
    BY <1>1 DEF Holders, Queued, IInv, TypeOK
  <1> QED BY <1>2 DEF Permits!GiveUp

LEMMA ReturnRefines ==
  ASSUME IInv, NEW c \in Callers, phase[c] = "holding", Release(c)
  PROVE  Permits!Return(c)
  <1>1. c \in Holders
    BY DEF Holders
  <1>2. CASE PutBack(c)
    <2>1. \A p \in Priority : queue[p] = <<>>
      BY <1>2 DEF PutBack, IInv, TypeOK, getQueued, Priority
    <2>2. Queued = {}
      BY <2>1 DEF Queued, IInv, QueuesExact, PendingEntered
    <2>3. Queued' = Queued /\ Holders' = Holders \ {c}
      BY <1>2 DEF PutBack, Holders, Queued, IInv, TypeOK
    <2> QED BY <1>1, <2>2, <2>3 DEF Permits!Return
  <1>3. ASSUME NEW p \in Priority, HandOver(c, queue[p][1], p)
        PROVE  Permits!Return(c)
    <2> DEFINE w == queue[p][1]
    <2>1. w \in Callers /\ phase[w] = "queued" /\ w # c
      BY <1>3 DEF HandOver, IInv, TypeOK, QueuesExact, EntriesPending
    <2>2. phase' = [phase EXCEPT ![c] = "released", ![w] = "holding"]
      BY <1>3 DEF HandOver
    <2> HIDE DEF w
    <2>3. /\ w \in Queued /\ Queued' = Queued \ {w}
          /\ Holders' = (Holders \ {c}) \cup {w}
      BY <2>1, <2>2 DEF Holders, Queued, IInv, TypeOK
    <2> QED BY <1>1, <2>3 DEF Permits!Return
  <1> QED BY <1>2, <1>3, ReleaseEffect

LEMMA AsideRefines ==
  ASSUME NEW c \in Callers, phase[c] # "queued", phase[c] # "holding",
         phase' = [phase EXCEPT ![c] = "idle"], TypeOK
  PROVE  UNCHANGED Permits!vars
  BY DEF Permits!vars, Holders, Queued, TypeOK

LEMMA StepRefines == IInv /\ [Next]_vars => [Permits!Next]_Permits!vars
  <1> SUFFICES ASSUME IInv, [Next]_vars PROVE [Permits!Next]_Permits!vars
    OBVIOUS
  <1>1. CASE phase' = phase
    BY <1>1 DEF Permits!vars, Holders, Queued
  <1>2. ASSUME NEW c \in Callers, NEW p \in Priority, Acquire(c, p), phase' # phase
        PROVE  Permits!Next
    BY <1>2, TakeRefines, WaitRefines DEF Acquire, Permits!Next, vars
  <1>3. ASSUME NEW c \in Callers, TryAcquire(c) PROVE Permits!Next
    BY <1>3, TakeRefines DEF TryAcquire, Permits!Next
  <1>4. ASSUME NEW c \in Callers, Timeout(c) PROVE Permits!Next
    BY <1>4, GiveUpRefines DEF Timeout, Permits!Next
  <1>5. ASSUME NEW c \in Callers, Abort(c), phase' # phase PROVE Permits!Next
    BY <1>5, GiveUpRefines DEF Abort, Permits!Next
  <1>6. ASSUME NEW c \in Callers, Release(c), phase' # phase PROVE Permits!Next
    <2>1. phase[c] = "holding"
      BY <1>6 DEF Release, vars
    <2> QED BY <1>6, <2>1, ReturnRefines DEF Permits!Next
  <1>7. ASSUME NEW c \in Callers, NextRequest(c) PROVE UNCHANGED Permits!vars
    BY <1>7, AsideRefines DEF NextRequest, IInv
  <1> QED BY <1>1, <1>2, <1>3, <1>4, <1>5, <1>6, <1>7 DEF Next, vars

(* Every behaviour of the gate, seen as who holds and who waits, is one of *)
(* the permit pool: at most Limit holders, nobody waits beside a free      *)
(* permit, a returned permit is handed over (concurrency.ts as a whole).   *)
THEOREM GateImplementsPermitPool == Spec => ImplementsPermitPool
  BY InitRefines, StepRefines, GateInvariant, PTL
  DEF Spec, ImplementsPermitPool, Permits!Spec

-----------------------------------------------------------------------------
(* Only a release hands a permit to a waiter, and it hands it to the first *)
(* one; a permit taken without waiting is taken while nobody waits.        *)

LEMMA NewcomerOvertakesNobody ==
  ASSUME IInv, Available PROVE \A d \in Callers : ~Overtakes(d)
  <1>1. \A p \in Priority : queue[p] = <<>>
    BY DEF Available, IInv, TypeOK, getQueued, Priority
  <1>2. \A c \in Callers : phase[c] # "queued"
    BY <1>1 DEF IInv, QueuesExact, PendingEntered
  <1> QED BY <1>2 DEF Overtakes

LEMMA FirstOvertakesNobody ==
  ASSUME IInv, NEW c \in Callers, phase[c] = "holding", Release(c)
  PROVE  \A d \in Callers : ~Overtakes(d)
  <1> SUFFICES ASSUME NEW d \in Callers, Overtakes(d) PROVE FALSE
    OBVIOUS
  <1>1. d \in Callers /\ phase[d] # "holding" /\ phase'[d] = "holding"
    BY DEF Overtakes, Holders
  <1>2. CASE PutBack(c)
    BY <1>1, <1>2 DEF PutBack, IInv, TypeOK
  <1>3. ASSUME NEW p \in Priority, HandOver(c, queue[p][1], p),
               p = "background" => queue["foreground"] = <<>>
        PROVE  FALSE
    <2>1. /\ 1 \in 1..Len(queue[p]) /\ queue[p][1] \in Callers
          /\ phase[queue[p][1]] = "queued"
      BY <1>3 DEF HandOver, IInv, TypeOK, QueuesExact, EntriesPending
    <2>2. d = queue[p][1]
      BY <1>1, <1>3, <2>1 DEF HandOver, IInv, TypeOK
    <2>3. PICK e \in Callers : \/ \E r \in Priority : Ahead(e, d, r)
                               \/ InQueue(e, "foreground") /\ InQueue(d, "background")
      BY <2>1, <2>2 DEF Overtakes
    <2>4. CASE \E r \in Priority : Ahead(e, d, r)
      <3>1. PICK r \in Priority : Ahead(e, d, r)
        BY <2>4
      <3>2. PICK i, j \in 1..Len(queue[r]) : i < j /\ queue[r][j] = d
        BY <3>1 DEF Ahead
      <3>3. j = 1
        BY <2>1, <2>2, <3>2 DEF IInv, QueuesExact, EntriesDistinct
      <3> QED BY <3>2, <3>3
    <2>5. CASE InQueue(e, "foreground") /\ InQueue(d, "background")
      <3>1. PICK j \in 1..Len(queue["background"]) : queue["background"][j] = d
        BY <2>5 DEF InQueue
      <3>2. "background" \in Priority
        BY DEF Priority
      <3>3. p = "background"
        BY <2>1, <2>2, <3>1, <3>2 DEF IInv, QueuesExact, EntriesDistinct
      <3>4. queue["foreground"] = <<>>
        BY <1>3, <3>3
      <3> QED BY <2>5, <3>4 DEF InQueue
    <2> QED BY <2>3, <2>4, <2>5
  <1> QED BY <1>2, <1>3, ReleaseEffect

LEMMA StepOvertakesNobody ==
  IInv /\ [Next]_vars => [\A d \in Callers : ~Overtakes(d)]_vars
  <1> SUFFICES ASSUME IInv, Next, ~UNCHANGED vars
               PROVE  \A d \in Callers : ~Overtakes(d)
    OBVIOUS
  <1>1. CASE Holders' \subseteq Holders
    BY <1>1 DEF Overtakes
  <1>2. ASSUME NEW c \in Callers, NEW p \in Priority, Acquire(c, p)
        PROVE  \A d \in Callers : ~Overtakes(d)
    <2>1. CASE Available
      BY <2>1, NewcomerOvertakesNobody
    <2>2. CASE ~Available
      <3>1. phase' = [phase EXCEPT ![c] = "queued"] \/ UNCHANGED vars
        BY <1>2, <2>2 DEF Acquire
      <3>2. Holders' \subseteq Holders
        BY <3>1 DEF Holders, vars, IInv, TypeOK
      <3> QED BY <1>1, <3>2
    <2> QED BY <2>1, <2>2
  <1>3. ASSUME NEW c \in Callers, TryAcquire(c)
        PROVE  \A d \in Callers : ~Overtakes(d)
    BY <1>3, NewcomerOvertakesNobody DEF TryAcquire
  <1>4. ASSUME NEW c \in Callers, Timeout(c) \/ Abort(c) \/ NextRequest(c)
        PROVE  \A d \in Callers : ~Overtakes(d)
    <2>1. phase' = [phase EXCEPT ![c] = "idle"] \/ phase' = phase
      BY <1>4 DEF Timeout, Abort, NextRequest, SettleUnavailable
    <2>2. Holders' \subseteq Holders
      BY <2>1 DEF Holders, IInv, TypeOK
    <2> QED BY <1>1, <2>2
  <1>5. ASSUME NEW c \in Callers, Release(c)
        PROVE  \A d \in Callers : ~Overtakes(d)
    BY <1>5, FirstOvertakesNobody DEF Release
  <1> QED BY <1>2, <1>3, <1>4, <1>5 DEF Next

(* Grants follow the queues: older waiters of a class first, foreground    *)
(* before background, newcomers last (concurrency.ts:29, 96).              *)
THEOREM GateNoOvertaking == Spec => NoOvertaking
  BY StepOvertakesNobody, GateInvariant, PTL DEF Spec, NoOvertaking

-----------------------------------------------------------------------------
(* The access of an API key.                                               *)

(* Requests by their time, as the limiter and the store keep them.         *)
Counts == [Times -> Nat]

(* A row of api_keys, with limits that can be compared to a count.         *)
IsRow(row) ==
  /\ row = [secret |-> row.secret, enabled |-> row.enabled, policy |-> row.policy,
            rate |-> row.rate, quota |-> row.quota, expires |-> row.expires,
            replacedBy |-> row.replacedBy]
  /\ row.rate \in Nat /\ row.quota \in Nat

AccessTypes ==
  /\ now \in Times
  /\ Environment \in DOMAIN keys /\ DOMAIN keys \subseteq Ids
  /\ \A id \in DOMAIN keys : IsRow(keys[id])
  /\ minutes \in [Ids \X Scopes -> Counts]
  /\ passed \in [Ids \X Scopes -> Counts]
  /\ days \in [Ids -> [Days -> Nat]]
  /\ admitted \in [Ids -> [Days -> Nat]]
  /\ events \in Counts /\ attempts \in Counts
  /\ window \in UsageWindows

(* What a counter may still ask about has been kept: of the minute's       *)
(* window the requests of the last minute, of the day's rows those of a    *)
(* key that is listed or may still be made, of the account's attempts      *)
(* those of a whole day, whatever the window of the boot that kept them.   *)
Remembered ==
  /\ \A slot \in Ids \X Scopes : \A t \in Times :
       t > now - Minute => minutes[slot][t] = passed[slot][t]
  /\ \A id \in Ids : id \in DOMAIN keys \/ id \notin blocked => days[id] = admitted[id]
  /\ \A t \in Times : t > now - Day => events[t] = attempts[t]

(* A row says of its secret what the administrator was last told, and a    *)
(* key without a row was deleted or never made.                            *)
Follows(id) ==
  /\ id = Environment => keys[id].secret \in Secrets
  /\ id # Environment => keys[id].secret = id
  /\ keys[id].enabled = (keys[id].secret \notin blocked)
  /\ keys[id].expires = ends[keys[id].secret]
  /\ keys[id].policy = granted[keys[id].secret]

RowsFollow ==
  /\ \A id \in DOMAIN keys : Follows(id)
  /\ keys[Environment].enabled
  /\ \A s \in Secrets : /\ s \in blocked \/ s = keys[Environment].secret
                        /\ ends[s] = Never /\ granted[s] = Everything
  /\ \A id \in ClientKeys \ DOMAIN keys : id \in blocked \/ ends[id] = 0
  /\ DOMAIN ends = Secrets \cup ClientKeys /\ DOMAIN granted = Secrets \cup ClientKeys

(* The inductive invariant.  That an answer is the one the history calls   *)
(* for is not inductive alone: the counters forget, and what they may      *)
(* still be asked about must have been kept through every change of keys.  *)
AccessInv == AccessTypes /\ Remembered /\ RowsFollow

(* EntryFollowsPolicy with networks compared as the code compares them:    *)
(* half of the way, the other half is about bits alone.                    *)
EntryFollowsRules ==
  [][LET a    == answer'
         may  == granted[a.secret]
         open == /\ a.secret \notin blocked /\ now < ends[a.secret]
                 /\ a.scope \in may.scopes /\ IsIpAllowed(a.address, may.networks)
     IN  a.told # "nothing" =>
           /\ a.told # "unauthorized" <=> open
           /\ a.told = "let in" /\ a.scope = "chat" /\ may.models # {} => a.body \in may.models]_<<answer, requests>>

-----------------------------------------------------------------------------

(* What the assumption on the constants says of those used below.          *)
LEMMA AccessBasics ==
  /\ Environment \notin ClientKeys /\ Secrets \cap ClientKeys = {}
  /\ Minute \in Nat \ {0} /\ Day \in Nat \ {0} /\ MaxTime \in Nat
  /\ Rates \subseteq Nat /\ Quotas \subseteq Nat
  /\ BootRate \in Nat \ {0} /\ BootQuota \in Nat \ {0} /\ DailyLimit \in Nat
  /\ "malformed" \notin Models /\ "none" \notin Models
  /\ \A w \in UsageWindows : w \in Nat /\ 1 <= w /\ w <= Day
  /\ Times = 0..MaxTime /\ Ids = ClientKeys \cup {Environment}
  /\ Never \in Nat /\ Never > MaxTime
  BY AccessAssumption DEF Times, Ids, Never

(* Today is a day of the tables.                                           *)
LEMMA TodayIsADay ==
  ASSUME now \in Times
  PROVE  Today \in Days
  <1> DEFINE q == now \div Day
             p == MaxTime \div Day
  <1>1. now \in Nat /\ now <= MaxTime /\ MaxTime \in Nat /\ Day \in Nat /\ Day > 0
    BY AccessBasics
  <1>2. q \in Int /\ p \in Int /\ q * Day <= now /\ now < (q + 1) * Day
        /\ p * Day <= MaxTime /\ MaxTime < (p + 1) * Day
    BY <1>1
  <1>3. q >= 0
    BY <1>1
  <1>4. q <= p
    BY <1>1
  <1> QED BY <1>2, <1>3, <1>4 DEF Today, Days

(* Of a stretch of time there are finitely many requests.                  *)
LEMMA CountIsNat ==
  ASSUME NEW counts \in Counts, NEW cutoff \in Int
  PROVE  CountSince(counts, cutoff) \in Nat
  <1> DEFINE T == {time \in Times : time > cutoff}
             at(t) == {t} \X (1..counts[t])
             S == {at(t) : t \in T}
             f == [t \in T |-> at(t)]
  <1>1. IsFiniteSet(T)
    <2>1. IsFiniteSet(Times) /\ T \in SUBSET Times
      BY FS_Interval, AccessBasics
    <2> QED BY <2>1, FS_Subset
  <1>2. f \in Surjection(T, S)
    BY DEF Surjection
  <1>3. IsFiniteSet(S)
    BY <1>1, <1>2, FS_Surjection
  <1>4. \A s \in S : IsFiniteSet(s)
    <2> SUFFICES ASSUME NEW t \in T PROVE IsFiniteSet(at(t))
      OBVIOUS
    <2>1. counts[t] \in Nat
      BY DEF Counts
    <2>2. IsFiniteSet({t})
      BY FS_Singleton
    <2>3. IsFiniteSet(1..counts[t])
      BY <2>1, FS_Interval
    <2> QED BY <2>2, <2>3, FS_Product
  <1>5. IsFiniteSet(UNION S)
    BY <1>3, <1>4, FS_UNION
  <1>6. Counted(counts, cutoff) = UNION S
    BY DEF Counted
  <1> QED BY <1>5, <1>6, FS_CardinalityType DEF CountSince

(* Two tables that agree after a time count as much since then.            *)
LEMMA CountsAgree ==
  ASSUME NEW f, NEW g, NEW c \in Int, \A t \in Times : t > c => f[t] = g[t]
  PROVE  CountSince(f, c) = CountSince(g, c)
  <1> DEFINE T == {time \in Times : time > c}
  <1>1. {{t} \X (1..f[t]) : t \in T} = {{t} \X (1..g[t]) : t \in T}
    OBVIOUS
  <1> QED BY <1>1 DEF CountSince, Counted

(* What is left of a window after its old requests were dropped counts as  *)
(* much as the whole does since then.                                      *)
LEMMA RecentCounts ==
  ASSUME NEW f, NEW g \in Counts, NEW c \in Int,
         \A t \in Times : f[t] = IF t > c THEN g[t] ELSE 0
  PROVE  CountSince(f, -1) = CountSince(g, c)
  <1>1. Counted(f, -1) \subseteq Counted(g, c)
    <2> SUFFICES ASSUME NEW t \in Times, t > -1, NEW u \in {t} \X (1..f[t])
                 PROVE  u \in Counted(g, c)
      BY DEF Counted
    <2>1. t > c
      <3>1. CASE ~(t > c)
        <4>1. f[t] = 0 /\ 1..f[t] = {}
          BY <3>1
        <4> QED BY <4>1
      <3> QED BY <3>1
    <2> QED BY <2>1 DEF Counted
  <1>2. Counted(g, c) \subseteq Counted(f, -1)
    <2> SUFFICES ASSUME NEW t \in Times, t > c, NEW u \in {t} \X (1..g[t])
                 PROVE  u \in Counted(f, -1)
      BY DEF Counted
    <2>1. t > -1 /\ f[t] = g[t]
      BY AccessBasics
    <2> QED BY <2>1 DEF Counted
  <1> QED BY <1>1, <1>2 DEF CountSince

-----------------------------------------------------------------------------

(* A boot begins without any.                                              *)
LEMMA NoCountsAre == NoCounts \in Counts /\ \A t \in Times : NoCounts[t] = 0
  BY DEF NoCounts, Counts

(* A first boot, with one key already there.                               *)
LEMMA AccessStarts == AccessInit => AccessInv
  <1> SUFFICES ASSUME AccessInit PROVE AccessInv
    OBVIOUS
  <1>1. PICK secret \in Secrets, id \in ClientKeys, date \in Lifetimes \cup {Never} :
          /\ keys = Seeded([i \in {id} |-> Row(id, Everything, BootRate, BootQuota, date)], secret)
          /\ ends = [s \in Secrets \cup ClientKeys |->
                       CASE s = id -> date [] s \in Secrets -> Never [] OTHER -> 0]
          /\ blocked = Secrets \ {secret}
    BY DEF AccessInit
  <1>2. id # Environment /\ id \notin Secrets /\ secret \notin ClientKeys
    BY AccessBasics
  <1>3. /\ DOMAIN keys = {id, Environment}
        /\ keys[id] = Row(id, Everything, BootRate, BootQuota, date)
        /\ keys[Environment] = Row(secret, Everything, BootRate, BootQuota, Never)
    <2> DEFINE first == [i \in {id} |-> Row(id, Everything, BootRate, BootQuota, date)]
               seed  == Row(secret, Everything, BootRate, BootQuota, Never)
    <2>1. keys = Put(first, Environment, seed)
      BY <1>1 DEF Seeded
    <2>2. DOMAIN first = {id} /\ first[id] = Row(id, Everything, BootRate, BootQuota, date)
      OBVIOUS
    <2> HIDE DEF first, seed
    <2>3. DOMAIN keys = {id, Environment} /\ keys[id] = first[id] /\ keys[Environment] = seed
      BY <1>2, <2>1, <2>2 DEF Put
    <2> QED BY <2>2, <2>3 DEF seed
  <1>4. /\ ends[id] = date /\ DOMAIN ends = Secrets \cup ClientKeys
        /\ \A s \in Secrets : ends[s] = Never
        /\ \A k \in ClientKeys \ {id} : ends[k] = 0
    BY <1>1, <1>2, AccessBasics
  <1>5. PICK sent \in 0..Max({DailyLimit - 1, 0}) :
          events = [NoCounts EXCEPT ![0] = sent] /\ attempts = [NoCounts EXCEPT ![0] = sent]
    BY DEF AccessInit
  <1>6. AccessTypes
    <2>1. now = 0 /\ now \in Times
      BY AccessBasics DEF AccessInit
    <2>2. Environment \in DOMAIN keys /\ DOMAIN keys \subseteq Ids
      BY <1>3, AccessBasics
    <2>3. \A k \in DOMAIN keys : IsRow(keys[k])
      BY <1>3, AccessBasics DEF Row, IsRow
    <2>4. events \in Counts /\ attempts \in Counts
      <3>1. sent \in Nat
        OBVIOUS
      <3> QED BY <1>5, <3>1, NoCountsAre DEF Counts
    <2>5. minutes \in [Ids \X Scopes -> Counts] /\ passed \in [Ids \X Scopes -> Counts]
      BY NoCountsAre DEF AccessInit
    <2>6. days \in [Ids -> [Days -> Nat]] /\ admitted \in [Ids -> [Days -> Nat]]
      BY DEF AccessInit
    <2> QED BY <2>1, <2>2, <2>3, <2>4, <2>5, <2>6 DEF AccessTypes, AccessInit
  <1>7. Remembered
    BY <1>5 DEF Remembered, AccessInit
  <1>8. RowsFollow
    <2>1. granted = [s \in Secrets \cup ClientKeys |-> Everything]
      BY DEF AccessInit
    <2>2. /\ keys[id].secret = id /\ keys[id].enabled = TRUE
          /\ keys[id].expires = date /\ keys[id].policy = Everything
      BY <1>3 DEF Row
    <2>3. /\ keys[Environment].secret = secret /\ keys[Environment].enabled = TRUE
          /\ keys[Environment].expires = Never /\ keys[Environment].policy = Everything
      BY <1>3 DEF Row
    <2>4. \A k \in DOMAIN keys : Follows(k)
      <3> TAKE k \in DOMAIN keys
      <3>1. CASE k = id
        BY <1>1, <1>2, <1>4, <2>1, <2>2, <3>1 DEF Follows
      <3>2. CASE k = Environment
        BY <1>1, <1>2, <1>4, <2>1, <2>3, <3>2 DEF Follows
      <3> QED BY <1>3, <3>1, <3>2
    <2>5. \A k \in ClientKeys \ DOMAIN keys : ends[k] = 0
      BY <1>3, <1>4
    <2>6. \A s \in Secrets : /\ s \in blocked \/ s = keys[Environment].secret
                            /\ ends[s] = Never /\ granted[s] = Everything
      BY <1>1, <1>4, <2>1, <2>3
    <2> QED BY <1>4, <2>1, <2>3, <2>4, <2>5, <2>6 DEF RowsFollow
  <1> QED BY <1>6, <1>7, <1>8 DEF AccessInv

(* What stays true as long as a step writes neither keys nor the history   *)
(* of what was said of them.                                               *)
LEMMA RowsStay ==
  ASSUME RowsFollow, UNCHANGED <<keys, blocked, ends, granted>>
  PROVE  RowsFollow'
  BY DEF RowsFollow, Follows

(* A request that is counted: the limiter's window and the history of what *)
(* it let pass get the same entry, the day's row and its history too.      *)
LEMMA GuardKeeps ==
  ASSUME AccessInv, NEW secret, NEW scope \in Scopes, NEW address, NEW body,
         NEW id \in DOMAIN keys, Guard(secret, id, scope, address, body)
  PROVE  AccessInv'
  <1> DEFINE recent == Recent(id, scope)
             slow   == CountSince(recent, -1) < keys[id].rate
             left   == scope = "models" \/ Usage(id) < keys[id].quota
             charge == IF slow /\ left /\ scope = "chat" THEN 1 ELSE 0
  <1>1. /\ minutes' = [minutes EXCEPT ![<<id, scope>>] =
                         IF slow THEN [recent EXCEPT ![now] = @ + 1] ELSE recent]
        /\ passed' = IF slow THEN [passed EXCEPT ![<<id, scope>>][now] = @ + 1] ELSE passed
        /\ days' = [days EXCEPT ![id][Today] = @ + charge]
        /\ admitted' = [admitted EXCEPT ![id][Today] = @ + charge]
        /\ UNCHANGED <<now, keys, events, window, blocked, ends, granted, attempts>>
    BY DEF Guard
  <1>2. id \in Ids /\ <<id, scope>> \in Ids \X Scopes /\ now \in Times /\ now \in Nat /\ Today \in Days
        /\ now > now - Minute
    BY TodayIsADay, AccessBasics DEF AccessInv, AccessTypes
  <1>3. recent \in Counts /\ \A t \in Times :
          recent[t] = IF t > now - Minute THEN minutes[<<id, scope>>][t] ELSE 0
    BY <1>2 DEF Recent, Counts, AccessInv, AccessTypes
  <1>4. charge \in Nat
    OBVIOUS
  <1> HIDE DEF recent, slow, charge
  <1>5. AccessTypes'
    <2>1. [recent EXCEPT ![now] = @ + 1] \in Counts
      BY <1>2, <1>3 DEF Counts
    <2>2. minutes' \in [Ids \X Scopes -> Counts]
      BY <1>1, <1>3, <2>1 DEF AccessInv, AccessTypes
    <2>3. passed' \in [Ids \X Scopes -> Counts]
      BY <1>1, <1>2 DEF AccessInv, AccessTypes, Counts
    <2>4. days' \in [Ids -> [Days -> Nat]] /\ admitted' \in [Ids -> [Days -> Nat]]
      BY <1>1, <1>2, <1>4 DEF AccessInv, AccessTypes
    <2> QED BY <1>1, <2>2, <2>3, <2>4 DEF AccessInv, AccessTypes
  <1>6. Remembered'
    <2>1. ASSUME NEW slot \in Ids \X Scopes, NEW t \in Times, t > now - Minute
          PROVE  minutes'[slot][t] = passed'[slot][t]
      <3>1. minutes[slot][t] = passed[slot][t]
        BY <2>1 DEF AccessInv, Remembered
      <3>2. minutes \in [Ids \X Scopes -> Counts] /\ passed \in [Ids \X Scopes -> Counts]
        BY DEF AccessInv, AccessTypes
      <3>3. CASE slot # <<id, scope>>
        BY <1>1, <3>1, <3>2, <3>3
      <3>4. CASE slot = <<id, scope>> /\ slow
        <4>1. minutes'[slot] = [recent EXCEPT ![now] = @ + 1]
          BY <1>1, <3>2, <3>4
        <4>2. passed'[slot] = [passed[slot] EXCEPT ![now] = @ + 1]
          BY <1>1, <3>2, <3>4
        <4>3. recent[t] = passed[slot][t]
          BY <1>3, <2>1, <3>1, <3>4
        <4> QED BY <1>3, <3>2, <4>1, <4>2, <4>3 DEF Counts
      <3>5. CASE slot = <<id, scope>> /\ ~slow
        BY <1>1, <1>3, <2>1, <3>1, <3>2, <3>5
      <3> QED BY <3>3, <3>4, <3>5
    <2>2. ASSUME NEW k \in Ids, k \in DOMAIN keys \/ k \notin blocked
          PROVE  days'[k] = admitted'[k]
      <3>1. days[k] = admitted[k]
        BY <2>2 DEF AccessInv, Remembered
      <3> QED BY <1>1, <3>1, <1>2 DEF AccessInv, AccessTypes
    <2> QED BY <1>1, <2>1, <2>2 DEF AccessInv, Remembered
  <1> QED BY <1>1, <1>5, <1>6, RowsStay DEF AccessInv

(* Attempts are dropped only when no window of any boot reaches them.      *)
LEMMA ConsumeKeeps ==
  ASSUME AccessInv, ConsumeAccountUsageWindow
  PROVE  AccessInv'
  <1>1. UNCHANGED <<now, keys, minutes, days, window, blocked, ends, granted, passed, admitted>>
    BY DEF ConsumeAccountUsageWindow
  <1>2. CASE UNCHANGED <<events, attempts>>
    BY <1>1, <1>2, RowsStay DEF AccessInv, AccessTypes, Remembered
  <1>3. CASE /\ events' = Kept([events EXCEPT ![now] = @ + 1])
             /\ attempts' = [attempts EXCEPT ![now] = @ + 1]
    <2>1. Max({window, Day}) = Day
      <3>1. window \in Nat /\ window <= Day /\ Day \in Nat
        BY AccessBasics DEF AccessInv, AccessTypes
      <3> QED BY <3>1 DEF Max
    <2>2. now \in Times /\ events \in Counts /\ attempts \in Counts
      BY DEF AccessInv, AccessTypes
    <2>3. \A t \in Times : events'[t] = IF t <= now - Day THEN 0
                                        ELSE [events EXCEPT ![now] = @ + 1][t]
      BY <1>3, <2>1 DEF Kept
    <2>4. events' \in Counts /\ attempts' \in Counts
      BY <1>3, <2>1, <2>2 DEF Kept, Counts
    <2>5. \A t \in Times : t > now - Day => events'[t] = attempts'[t]
      <3> SUFFICES ASSUME NEW t \in Times, t > now - Day PROVE events'[t] = attempts'[t]
        OBVIOUS
      <3>1. t \in Nat /\ now \in Nat /\ Day \in Nat /\ ~(t <= now - Day)
        BY <2>2, AccessBasics
      <3>2. events[t] = attempts[t]
        BY DEF AccessInv, Remembered
      <3> QED BY <1>3, <2>2, <2>3, <3>1, <3>2 DEF Counts
    <2> QED BY <1>1, <2>4, <2>5, RowsStay DEF AccessInv, AccessTypes, Remembered
  <1> QED BY <1>2, <1>3 DEF ConsumeAccountUsageWindow

(* As time goes on the windows ask about less.                             *)
LEMMA TickKeeps ==
  ASSUME AccessInv, Tick
  PROVE  AccessInv'
  <1>1. now \in Nat /\ now < MaxTime /\ now' = now + 1 /\ MaxTime \in Nat /\ now' \in Times
    BY AccessBasics DEF AccessInv, AccessTypes, Tick
  <1>2. UNCHANGED <<keys, minutes, days, events, window, blocked, ends, granted, passed, admitted, attempts>>
    BY DEF Tick, history
  <1>3. \A t \in Times : /\ t > now' - Minute => t > now - Minute
                         /\ t > now' - Day => t > now - Day
    BY <1>1, AccessBasics
  <1> QED BY <1>1, <1>2, <1>3, RowsStay DEF AccessInv, AccessTypes, Remembered

-----------------------------------------------------------------------------

(* A change of the rows that leaves the counters alone.                    *)
LEMMA RowsChange ==
  ASSUME AccessInv,
         UNCHANGED <<now, minutes, days, events, window, passed, admitted, attempts>>,
         Environment \in DOMAIN keys', DOMAIN keys' \subseteq Ids,
         \A id \in DOMAIN keys' : IsRow(keys'[id]),
         \A id \in Ids : id \in DOMAIN keys' \/ id \notin blocked'
                          => id \in DOMAIN keys \/ id \notin blocked,
         RowsFollow'
  PROVE  AccessInv'
  BY DEF AccessInv, AccessTypes, Remembered

(* The rows an administrator writes are those of client keys.              *)
(* What the row of a listed key is.                                        *)
LEMMA KeyIs ==
  ASSUME AccessInv, NEW id \in DOMAIN keys
  PROVE  /\ id \in Ids /\ IsRow(keys[id]) /\ Follows(id)
         /\ id = Environment => keys[id].secret \in Secrets /\ keys[id].secret \notin ClientKeys
         /\ id # Environment => id \in ClientKeys /\ id \notin Secrets /\ keys[id].secret = id
  BY AccessBasics DEF AccessInv, AccessTypes, RowsFollow, Follows

(* A key whose row, and what was said of its secret, stays as it was.      *)
LEMMA StillFollows ==
  ASSUME NEW id, Follows(id), keys'[id] = keys[id],
         keys[id].secret \in blocked' <=> keys[id].secret \in blocked,
         ends'[keys[id].secret] = ends[keys[id].secret],
         granted'[keys[id].secret] = granted[keys[id].secret]
  PROVE  Follows(id)'
  BY DEF Follows

LEMMA AdminsKeyIs ==
  ASSUME AccessInv, NEW id \in DOMAIN keys \ {Environment}
  PROVE  /\ id \in ClientKeys /\ id \notin Secrets
         /\ keys[id].secret = id /\ IsRow(keys[id])
         /\ \A k \in DOMAIN keys \ {id} : keys[k].secret # id
  BY AccessBasics DEF AccessInv, AccessTypes, RowsFollow, Follows

(* The administrator's steps, one by one.                                  *)
LEMMA SetEnabledKeeps ==
  ASSUME AccessInv, NEW id, NEW enabled \in BOOLEAN, SetEnabled(id, enabled)
  PROVE  AccessInv'
  <1>1. /\ id \in DOMAIN keys \ {Environment}
        /\ keys' = [keys EXCEPT ![id].enabled = enabled]
        /\ blocked' = IF enabled THEN blocked \ {id} ELSE blocked \cup {id}
        /\ UNCHANGED <<now, minutes, days, events, window, passed, admitted, attempts, ends, granted>>
    BY DEF SetEnabled, AdminWrites
  <1>2. /\ DOMAIN keys' = DOMAIN keys
        /\ keys'[id] = [keys[id] EXCEPT !.enabled = enabled]
        /\ \A k \in DOMAIN keys \ {id} : keys'[k] = keys[k]
    BY <1>1
  <1>3. \A k \in DOMAIN keys' : IsRow(keys'[k])
    <2>1. IsRow(keys'[id])
      BY <1>1, <1>2, AdminsKeyIs DEF IsRow
    <2> QED BY <1>2, <2>1 DEF AccessInv, AccessTypes
  <1>4. /\ keys'[id].secret = id /\ keys'[id].enabled = enabled
        /\ keys'[id].expires = keys[id].expires /\ keys'[id].policy = keys[id].policy
    BY <1>1, <1>2, AdminsKeyIs DEF IsRow
  <1>5. RowsFollow'
    BY <1>1, <1>2, <1>4, AdminsKeyIs, AccessBasics DEF AccessInv, AccessTypes, RowsFollow, Follows
  <1> QED BY <1>1, <1>2, <1>3, <1>5, RowsChange DEF AccessInv, AccessTypes

LEMMA SetExpiryKeeps ==
  ASSUME AccessInv, NEW id, NEW date, SetExpiry(id, date)
  PROVE  AccessInv'
  <1>1. /\ id \in DOMAIN keys \ {Environment}
        /\ keys' = [keys EXCEPT ![id].expires = date]
        /\ ends' = [ends EXCEPT ![id] = date]
        /\ UNCHANGED <<now, minutes, days, events, window, passed, admitted, attempts, blocked, granted>>
    BY DEF SetExpiry, AdminWrites
  <1>2. /\ DOMAIN keys' = DOMAIN keys
        /\ keys'[id] = [keys[id] EXCEPT !.expires = date]
        /\ \A k \in DOMAIN keys \ {id} : keys'[k] = keys[k]
    BY <1>1
  <1>3. \A k \in DOMAIN keys' : IsRow(keys'[k])
    <2>1. IsRow(keys'[id])
      BY <1>1, <1>2, AdminsKeyIs DEF IsRow
    <2> QED BY <1>2, <2>1 DEF AccessInv, AccessTypes
  <1>4. /\ keys'[id].secret = id /\ keys'[id].enabled = keys[id].enabled
        /\ keys'[id].expires = date /\ keys'[id].policy = keys[id].policy
    BY <1>1, <1>2, AdminsKeyIs DEF IsRow
  <1>5. RowsFollow'
    BY <1>1, <1>2, <1>4, AdminsKeyIs, AccessBasics DEF AccessInv, AccessTypes, RowsFollow, Follows
  <1> QED BY <1>1, <1>2, <1>3, <1>5, RowsChange DEF AccessInv, AccessTypes

LEMMA SetLimitsKeeps ==
  ASSUME AccessInv, NEW id, NEW policy, NEW rate \in Rates, NEW quota \in Quotas,
         SetLimits(id, policy, rate, quota)
  PROVE  AccessInv'
  <1> DEFINE narrowed == Narrowed(keys[id].policy, policy)
  <1>1. /\ id \in DOMAIN keys \ {Environment}
        /\ keys' = [keys EXCEPT ![id] = [@ EXCEPT !.policy = Narrowed(keys[id].policy, policy),
                                                 !.rate = rate, !.quota = quota]]
        /\ granted' = [granted EXCEPT ![id] = Narrowed(@, policy)]
        /\ UNCHANGED <<now, minutes, days, events, window, passed, admitted, attempts, blocked, ends>>
    BY DEF SetLimits, AdminWrites
  <1>2. /\ DOMAIN keys' = DOMAIN keys
        /\ keys'[id] = [keys[id] EXCEPT !.policy = narrowed, !.rate = rate, !.quota = quota]
        /\ \A k \in DOMAIN keys \ {id} : keys'[k] = keys[k]
    BY <1>1
  <1> HIDE DEF narrowed
  <1>3. /\ IsRow(keys[id]) /\ keys[id].secret = id
        /\ granted[id] = keys[id].policy /\ id \in ClientKeys
    BY <1>1, KeyIs, AdminsKeyIs DEF Follows
  <1>4. \A k \in DOMAIN keys' : IsRow(keys'[k])
    <2>1. rate \in Nat /\ quota \in Nat
      BY AccessBasics
    <2>2. IsRow(keys'[id])
      BY <1>2, <1>3, <2>1 DEF IsRow
    <2> QED BY <1>2, <2>2 DEF AccessInv, AccessTypes
  <1>5. /\ keys'[id].secret = id /\ keys'[id].enabled = keys[id].enabled
        /\ keys'[id].expires = keys[id].expires /\ keys'[id].policy = narrowed
    BY <1>2, <1>3 DEF IsRow
  <1>6. /\ granted'[id] = narrowed /\ DOMAIN granted' = DOMAIN granted
        /\ \A k \in DOMAIN granted \ {id} : granted'[k] = granted[k]
    BY <1>1, <1>3 DEF AccessInv, RowsFollow, narrowed
  <1>7. Follows(id)'
    BY <1>1, <1>5, <1>6, KeyIs DEF Follows
  <1>8. \A k \in DOMAIN keys \ {id} : Follows(k)'
    <2> TAKE k \in DOMAIN keys \ {id}
    <2>1. keys[k].secret # id /\ keys[k].secret \in DOMAIN granted
      BY <1>1, KeyIs, AdminsKeyIs, AccessBasics DEF AccessInv, RowsFollow
    <2> QED BY <1>1, <1>2, <1>6, <2>1, KeyIs, StillFollows
  <1>9. RowsFollow'
    BY <1>1, <1>2, <1>5, <1>6, <1>7, <1>8, AdminsKeyIs, AccessBasics DEF AccessInv, AccessTypes, RowsFollow
  <1> QED BY <1>1, <1>2, <1>4, <1>9, RowsChange DEF AccessInv, AccessTypes

LEMMA CreateKeeps ==
  ASSUME AccessInv, NEW id, NEW policy, NEW rate \in Rates, NEW quota \in Quotas, NEW date,
         CreateApiKey(id, policy, rate, quota, date)
  PROVE  AccessInv'
  <1>1. /\ id \in ClientKeys /\ id \notin DOMAIN keys /\ id \notin blocked
        /\ keys' = Put(keys, id, Row(id, policy, rate, quota, date))
        /\ ends' = [ends EXCEPT ![id] = date]
        /\ granted' = [granted EXCEPT ![id] = policy]
        /\ UNCHANGED <<now, minutes, days, events, window, passed, admitted, attempts, blocked>>
    BY DEF CreateApiKey, Fresh
  <1>2. /\ DOMAIN keys' = DOMAIN keys \cup {id}
        /\ keys'[id] = Row(id, policy, rate, quota, date)
        /\ \A k \in DOMAIN keys : keys'[k] = keys[k]
    BY <1>1 DEF Put
  <1>3. \A k \in DOMAIN keys' : IsRow(keys'[k])
    <2>1. IsRow(keys'[id])
      BY <1>2, AccessBasics DEF IsRow, Row
    <2> QED BY <1>2, <2>1 DEF AccessInv, AccessTypes
  <1>4. /\ keys'[id].secret = id /\ keys'[id].enabled = TRUE
        /\ keys'[id].expires = date /\ keys'[id].policy = policy
    BY <1>2 DEF Row
  <1>5. id # Environment /\ id \notin Secrets /\ \A k \in DOMAIN keys : keys[k].secret # id
    BY <1>1, AccessBasics DEF AccessInv, AccessTypes, RowsFollow, Follows
  <1>6. /\ ends'[id] = date /\ granted'[id] = policy
        /\ DOMAIN ends' = DOMAIN ends /\ DOMAIN granted' = DOMAIN granted
        /\ \A k \in DOMAIN ends \ {id} : ends'[k] = ends[k] /\ granted'[k] = granted[k]
    BY <1>1 DEF AccessInv, RowsFollow
  <1>7. Follows(id)'
    BY <1>1, <1>4, <1>5, <1>6 DEF Follows
  <1>8. \A k \in DOMAIN keys : Follows(k)'
    <2> TAKE k \in DOMAIN keys
    <2>1. keys[k].secret # id /\ keys[k].secret \in DOMAIN ends
      BY <1>5, KeyIs, AccessBasics DEF AccessInv, RowsFollow
    <2> QED BY <1>1, <1>2, <1>6, <2>1, KeyIs, StillFollows
  <1>9. RowsFollow'
    BY <1>1, <1>2, <1>5, <1>6, <1>7, <1>8, AccessBasics DEF AccessInv, AccessTypes, RowsFollow
  <1> QED BY <1>1, <1>2, <1>3, <1>9, RowsChange, AccessBasics DEF AccessInv, AccessTypes

(* The replacement gets a new id, of which nothing is remembered.          *)
LEMMA RotateKeeps ==
  ASSUME AccessInv, NEW id, NEW new, NEW grace, NEW date, RotateApiKey(id, new, grace, date)
  PROVE  AccessInv'
  <1> DEFINE last == Min({keys[id].expires, now + grace})
             row  == Row(new, keys[id].policy, keys[id].rate, keys[id].quota, date)
  <1>1. /\ id \in DOMAIN keys \ {Environment}
        /\ new \in ClientKeys /\ new \notin DOMAIN keys /\ new \notin blocked
        /\ keys' = Rotated(id, new, grace, date)
        /\ ends' = [ends EXCEPT ![new] = date, ![id] = Min({@, now + grace})]
        /\ granted' = [granted EXCEPT ![new] = granted[id]]
        /\ UNCHANGED <<now, minutes, days, events, window, passed, admitted, attempts, blocked>>
    BY DEF RotateApiKey, AdminWrites, Fresh
  <1>2. /\ DOMAIN keys' = DOMAIN keys \cup {new}
        /\ keys'[new] = row /\ keys'[id] = [keys[id] EXCEPT !.expires = last, !.replacedBy = new]
        /\ \A k \in DOMAIN keys \ {id} : keys'[k] = keys[k]
    BY <1>1 DEF Rotated, Put, LastDay
  <1>3. /\ id \in ClientKeys /\ id \notin Secrets /\ new \notin Secrets /\ new # id
        /\ keys[id].secret = id /\ IsRow(keys[id])
        /\ \A k \in DOMAIN keys \ {id} : keys[k].secret # id /\ keys[k].secret # new
    BY <1>1, AdminsKeyIs, AccessBasics DEF AccessInv, AccessTypes, RowsFollow, Follows
  <1>4. /\ ends'[new] = date /\ ends'[id] = last
        /\ DOMAIN ends' = DOMAIN ends
        /\ \A k \in DOMAIN ends \ {id, new} : ends'[k] = ends[k]
    BY <1>1, <1>3 DEF AccessInv, RowsFollow, Follows
  <1>5. /\ granted'[new] = keys[id].policy
        /\ DOMAIN granted' = DOMAIN granted
        /\ \A k \in DOMAIN granted \ {new} : granted'[k] = granted[k]
    BY <1>1, <1>3 DEF AccessInv, RowsFollow, Follows
  <1> HIDE DEF last
  <1>6. /\ keys'[id].secret = id /\ keys'[id].enabled = keys[id].enabled
        /\ keys'[id].expires = last /\ keys'[id].policy = keys[id].policy /\ IsRow(keys'[id])
    BY <1>2, <1>3 DEF IsRow
  <1>7. /\ row.secret = new /\ row.enabled = TRUE
        /\ row.expires = date /\ row.policy = keys[id].policy /\ IsRow(row)
    BY <1>3 DEF IsRow, Row
  <1> HIDE DEF row
  <1>8. \A k \in DOMAIN keys' : IsRow(keys'[k])
    BY <1>2, <1>6, <1>7 DEF AccessInv, AccessTypes
  <1>9. RowsFollow'
    <2>1. \A k \in DOMAIN keys' : Follows(k)'
      <3> TAKE k \in DOMAIN keys'
      <3>1. CASE k = new
        <4>1. keys'[k] = row /\ k # Environment
          BY <1>1, <1>2, <3>1, AccessBasics
        <4> QED BY <1>1, <1>4, <1>5, <1>7, <3>1, <4>1 DEF Follows
      <3>2. CASE k = id
        <4>1. Follows(id) /\ granted'[id] = granted[id] /\ id # Environment
          BY <1>1, <1>3, <1>5, KeyIs DEF AccessInv, RowsFollow
        <4> QED BY <1>1, <1>3, <1>4, <1>6, <3>2, <4>1 DEF Follows
      <3>3. CASE k \in DOMAIN keys \ {id, new}
        <4>1. keys[k].secret \notin {id, new} /\ keys[k].secret \in DOMAIN ends \cap DOMAIN granted
          BY <1>3, <3>3, KeyIs, AccessBasics DEF AccessInv, RowsFollow
        <4> QED BY <1>1, <1>2, <1>4, <1>5, <3>3, <4>1, KeyIs, StillFollows
      <3> QED BY <1>2, <3>1, <3>2, <3>3
    <2>2. keys'[Environment] = keys[Environment] /\ Environment \in DOMAIN keys'
      BY <1>1, <1>2 DEF AccessInv, AccessTypes
    <2>3. \A s \in Secrets : /\ s \in blocked \/ s = keys'[Environment].secret
                            /\ ends'[s] = Never /\ granted'[s] = Everything
      BY <1>1, <1>2, <1>3, <1>4, <1>5, <2>2 DEF AccessInv, RowsFollow
    <2>4. \A k \in ClientKeys \ DOMAIN keys' : k \in blocked \/ ends'[k] = 0
      BY <1>1, <1>2, <1>3, <1>4 DEF AccessInv, RowsFollow, Follows
    <2> QED BY <1>1, <1>2, <1>4, <1>5, <2>1, <2>2, <2>3, <2>4 DEF AccessInv, RowsFollow
  <1> QED BY <1>1, <1>2, <1>8, <1>9, RowsChange, AccessBasics DEF AccessInv, AccessTypes

(* The day's rows of a deleted key go with it, and its id is never used    *)
(* again.                                                                  *)
LEMMA DeleteKeeps ==
  ASSUME AccessInv, NEW id, DeleteApiKey(id)
  PROVE  AccessInv'
  <1>1. /\ id \in DOMAIN keys \ {Environment}
        /\ keys' = Restrict(keys, DOMAIN keys \ {id})
        /\ days' = [days EXCEPT ![id] = [d \in Days |-> 0]]
        /\ blocked' = blocked \cup {id}
        /\ UNCHANGED <<now, minutes, events, window, passed, admitted, attempts, ends, granted>>
    BY DEF DeleteApiKey, AdminWrites
  <1>2. /\ DOMAIN keys' = DOMAIN keys \ {id}
        /\ \A k \in DOMAIN keys' : keys'[k] = keys[k]
    BY <1>1 DEF Restrict
  <1>3. AccessTypes'
    BY <1>1, <1>2 DEF AccessInv, AccessTypes
  <1>4. Remembered'
    BY <1>1, <1>2 DEF AccessInv, AccessTypes, Remembered
  <1>5. \A k \in DOMAIN keys' : Follows(k)'
    <2> TAKE k \in DOMAIN keys'
    <2>1. k \in DOMAIN keys /\ keys[k].secret # id
      BY <1>1, <1>2, AdminsKeyIs
    <2> QED BY <1>1, <1>2, <2>1, KeyIs, StillFollows
  <1>6. RowsFollow'
    BY <1>1, <1>2, <1>5 DEF AccessInv, AccessTypes, RowsFollow
  <1> QED BY <1>3, <1>4, <1>6 DEF AccessInv

(* A restart forgets the minutes, and the history of this boot begins with *)
(* them; the rows, the days and the attempts are found again.              *)
LEMMA RestartKeeps ==
  ASSUME AccessInv, NEW secret \in Secrets, NEW w \in UsageWindows, Restart(secret, w)
  PROVE  AccessInv'
  <1> DEFINE seed == Row(secret, Everything, BootRate, BootQuota, Never)
  <1>1. /\ keys' = Put(keys, Environment, seed)
        /\ window' = w
        /\ minutes' = [slot \in Ids \X Scopes |-> NoCounts]
        /\ passed' = [slot \in Ids \X Scopes |-> NoCounts]
        /\ blocked' = (blocked \ {secret}) \cup (Secrets \ {secret})
        /\ UNCHANGED <<now, days, events, ends, granted, admitted, attempts>>
    BY DEF Restart, Seeded
  <1>2. /\ seed.secret = secret /\ seed.enabled = TRUE /\ seed.policy = Everything
        /\ seed.expires = Never /\ IsRow(seed)
    BY AccessBasics DEF Row, IsRow
  <1> HIDE DEF seed
  <1>3. /\ DOMAIN keys' = DOMAIN keys /\ keys'[Environment] = seed
        /\ \A k \in DOMAIN keys \ {Environment} : keys'[k] = keys[k]
    BY <1>1 DEF Put, AccessInv, AccessTypes
  <1>4. \A k \in ClientKeys : k \in blocked' <=> k \in blocked
    BY <1>1, AccessBasics
  <1>5. AccessTypes'
    <2>1. minutes' \in [Ids \X Scopes -> Counts] /\ passed' \in [Ids \X Scopes -> Counts]
      BY <1>1, NoCountsAre
    <2> QED BY <1>1, <1>2, <1>3, <2>1 DEF AccessInv, AccessTypes
  <1>6. Remembered'
    BY <1>1, <1>3, <1>4, AccessBasics DEF AccessInv, AccessTypes, Remembered
  <1>7. RowsFollow'
    <2>1. \A k \in DOMAIN keys' : Follows(k)'
      <3> TAKE k \in DOMAIN keys'
      <3>1. CASE k = Environment
        <4>1. secret \notin blocked' /\ ends'[secret] = Never /\ granted'[secret] = Everything
          BY <1>1 DEF AccessInv, RowsFollow
        <4> QED BY <1>2, <1>3, <3>1, <4>1 DEF Follows
      <3>2. CASE k \in ClientKeys /\ k # Environment
        BY <1>1, <1>3, <1>4, <3>2 DEF AccessInv, RowsFollow, Follows
      <3> QED BY <1>3, <3>1, <3>2, AccessBasics DEF AccessInv, AccessTypes
    <2>2. \A s \in Secrets : /\ s \in blocked' \/ s = keys'[Environment].secret
                            /\ ends'[s] = Never /\ granted'[s] = Everything
      BY <1>1, <1>2, <1>3 DEF AccessInv, RowsFollow, Follows
    <2>3. \A k \in ClientKeys \ DOMAIN keys' : k \in blocked' \/ ends'[k] = 0
      BY <1>1, <1>3, <1>4 DEF AccessInv, RowsFollow, Follows
    <2> QED BY <1>1, <1>2, <1>3, <2>1, <2>2, <2>3 DEF AccessInv, RowsFollow, Follows
  <1> QED BY <1>5, <1>6, <1>7 DEF AccessInv

-----------------------------------------------------------------------------

(* Whoever has a key enters by its row.                                    *)
LEMMA EntersByRow ==
  ASSUME AccessInv, NEW secret \in Secrets \cup ClientKeys, NEW scope, NEW address
  PROVE  /\ \A id \in Entered(secret, scope, address) :
              id \in DOMAIN keys /\ keys[id].policy = granted[secret]
         /\ Entered(secret, scope, address) # {} <=>
              /\ secret \notin blocked /\ now < ends[secret]
              /\ scope \in granted[secret].scopes
              /\ IsIpAllowed(address, granted[secret].networks)
  <1>1. ASSUME NEW id \in Entered(secret, scope, address)
        PROVE  /\ id \in DOMAIN keys /\ keys[id].policy = granted[secret]
               /\ secret \notin blocked /\ now < ends[secret]
               /\ scope \in granted[secret].scopes
               /\ IsIpAllowed(address, granted[secret].networks)
    <2>1. /\ id \in DOMAIN keys /\ keys[id].secret = secret
          /\ keys[id].enabled /\ keys[id].expires > now
          /\ scope \in keys[id].policy.scopes /\ IsIpAllowed(address, keys[id].policy.networks)
      BY DEF Entered, Found
    <2> QED BY <2>1, KeyIs DEF Follows
  <1>2. ASSUME secret \notin blocked, now < ends[secret],
               scope \in granted[secret].scopes, IsIpAllowed(address, granted[secret].networks)
        PROVE  Entered(secret, scope, address) # {}
    <2> SUFFICES ASSUME NEW id \in DOMAIN keys, keys[id].secret = secret
                 PROVE  Entered(secret, scope, address) # {}
      <3>1. CASE secret \in Secrets
        <4>1. Environment \in DOMAIN keys /\ keys[Environment].secret = secret
          BY <1>2, <3>1 DEF AccessInv, AccessTypes, RowsFollow
        <4> QED BY <4>1
      <3>2. CASE secret \in ClientKeys
        <4>1. secret \in DOMAIN keys
          <5>1. now \in Nat
            BY AccessBasics DEF AccessInv, AccessTypes
          <5> QED BY <1>2, <3>2, <5>1 DEF AccessInv, RowsFollow
        <4>2. keys[secret].secret = secret
          BY <3>2, <4>1, KeyIs, AccessBasics
        <4> QED BY <4>1, <4>2
      <3> QED BY <3>1, <3>2
    <2>1. /\ keys[id].enabled /\ keys[id].expires = ends[secret] /\ keys[id].policy = granted[secret]
      BY <1>2, KeyIs DEF Follows
    <2>2. id \in Entered(secret, scope, address)
      BY <1>2, <2>1 DEF Entered, Found
    <2> QED BY <2>2
  <1> QED BY <1>1, <1>2

(* The limiter counts what the last minute of this boot let pass.          *)
LEMMA MinuteCounts ==
  ASSUME AccessInv, NEW id \in Ids, NEW scope \in Scopes
  PROVE  /\ CountSince(Recent(id, scope), -1) = InLastMinute(id, scope)
         /\ InLastMinute(id, scope) \in Nat
  <1>1. now - Minute \in Int /\ passed[<<id, scope>>] \in Counts
    BY AccessBasics DEF AccessInv, AccessTypes
  <1>2. \A t \in Times : Recent(id, scope)[t] =
                          IF t > now - Minute THEN passed[<<id, scope>>][t] ELSE 0
    BY DEF Recent, AccessInv, Remembered
  <1> QED BY <1>1, <1>2, RecentCounts, CountIsNat DEF InLastMinute

(* What the guard says of a key it found.                                  *)
LEMMA GuardTells ==
  ASSUME AccessInv, NEW secret, NEW scope \in Scopes, NEW address, NEW body,
         NEW id \in DOMAIN keys, Guard(secret, id, scope, address, body)
  PROVE  LET fast == InLastMinute(id, scope) >= keys[id].rate
             out  == scope = "chat" /\ admitted[id][Today] >= keys[id].quota
         IN  /\ answer'.secret = secret /\ answer'.id = id /\ answer'.scope = scope
             /\ answer'.address = address /\ answer'.body = body
             /\ answer'.told = IF fast THEN "rate_limit_exceeded"
                               ELSE IF out THEN "daily_quota_exceeded" ELSE ChatAnswer(id, body)
  <1> DEFINE slow == CountSince(Recent(id, scope), -1) < keys[id].rate
             left == scope = "models" \/ Usage(id) < keys[id].quota
             told == CASE ~slow -> "rate_limit_exceeded"
                       [] slow /\ ~left -> "daily_quota_exceeded"
                       [] OTHER -> ChatAnswer(id, body)
  <1>1. answer' = [secret |-> secret, id |-> id, scope |-> scope, told |-> told,
                   address |-> address, body |-> body]
    BY DEF Guard
  <1>2. slow <=> ~(InLastMinute(id, scope) >= keys[id].rate)
    <2>1. keys[id].rate \in Nat /\ id \in Ids
      BY KeyIs DEF IsRow
    <2> QED BY <2>1, MinuteCounts
  <1>3. left <=> ~(scope = "chat" /\ admitted[id][Today] >= keys[id].quota)
    <2>1. keys[id].quota \in Nat /\ id \in Ids /\ Today \in Days
      BY KeyIs, TodayIsADay DEF IsRow, AccessInv, AccessTypes
    <2>2. days[id][Today] = admitted[id][Today] /\ days[id][Today] \in Nat
      BY <2>1 DEF AccessInv, AccessTypes, Remembered
    <2> QED BY <2>1, <2>2 DEF Usage, Scopes
  <1> HIDE DEF slow, left
  <1>4. told = IF ~slow THEN "rate_limit_exceeded"
               ELSE IF ~left THEN "daily_quota_exceeded" ELSE ChatAnswer(id, body)
    OBVIOUS
  <1> HIDE DEF told
  <1> QED BY <1>1, <1>2, <1>3, <1>4

(* The chat route refuses a body, or lets it in for a model of the key.    *)
LEMMA ChatAnswerIs ==
  ASSUME NEW id, NEW body
  PROVE  /\ ChatAnswer(id, body) \in {"invalid_request", "model_not_allowed", "let in"}
         /\ ChatAnswer(id, body) = "let in" /\ body \in Bodies => AssertModelAllowed(id, body)
  <1>1. CASE body = "malformed"
    BY <1>1, AccessBasics DEF ChatAnswer
  <1>2. CASE body \in Models /\ ~AssertModelAllowed(id, body)
    BY <1>2, AccessBasics DEF ChatAnswer
  <1>3. CASE body # "malformed" /\ ~(body \in Models /\ ~AssertModelAllowed(id, body))
    BY <1>3 DEF ChatAnswer, Bodies
  <1> QED BY <1>1, <1>2, <1>3

(* A step answers a request, or says nothing.                              *)
LEMMA StepsAnswer ==
  ASSUME AccessInv, AccessNext
  PROVE  \/ answer'.told = "nothing"
         \/ \E secret \in Secrets \cup ClientKeys, address \in Addresses, scope \in Scopes,
               body \in Bodies \cup {"none"} :
              /\ Request(secret, scope, address, body)
              /\ scope = "chat" => body \in Bodies
  <1>1. NoAnswer.told = "nothing"
    BY DEF NoAnswer
  <1>2. CASE Tick \/ ConsumeAccountUsageWindow
    BY <1>1, <1>2 DEF Tick, ConsumeAccountUsageWindow
  <1>3. CASE \E secret \in Secrets \cup ClientKeys, address \in Addresses :
               \/ Request(secret, "models", address, "none")
               \/ \E body \in Bodies : Request(secret, "chat", address, body)
    <2>1. "models" \in Scopes /\ "chat" \in Scopes
      BY DEF Scopes
    <2> QED BY <1>3, <2>1
  <1>4. CASE \E id \in ClientKeys : DeleteApiKey(id)
    BY <1>1, <1>4 DEF DeleteApiKey, AdminWrites
  <1>5. CASE \E id \in ClientKeys, enabled \in BOOLEAN : SetEnabled(id, enabled)
    BY <1>1, <1>5 DEF SetEnabled, AdminWrites
  <1>6. CASE \E id \in ClientKeys, date \in Dates : SetExpiry(id, date)
    BY <1>1, <1>6 DEF SetExpiry, AdminWrites
  <1>7. CASE \E id \in ClientKeys, policy \in Policies, rate \in Rates, quota \in Quotas :
               \/ SetLimits(id, policy, rate, quota)
               \/ \E date \in Dates : CreateApiKey(id, policy, rate, quota, date)
    BY <1>1, <1>7 DEF SetLimits, CreateApiKey, AdminWrites
  <1>8. CASE \E id, new \in ClientKeys, grace \in Grace, date \in Dates : RotateApiKey(id, new, grace, date)
    BY <1>1, <1>8 DEF RotateApiKey, AdminWrites
  <1>9. CASE \E secret \in Secrets, w \in UsageWindows : Restart(secret, w)
    BY <1>1, <1>9 DEF Restart
  <1> QED
    BY <1>2, <1>3, <1>4, <1>5, <1>6, <1>7, <1>8, <1>9 DEF AccessNext

(* A request with any secret.                                              *)
LEMMA RequestKeeps ==
  ASSUME AccessInv, NEW secret \in Secrets \cup ClientKeys, NEW scope \in Scopes,
         NEW address, NEW body, Request(secret, scope, address, body)
  PROVE  AccessInv'
  <1>1. CASE \E id \in Entered(secret, scope, address) : Guard(secret, id, scope, address, body)
    BY <1>1, EntersByRow, GuardKeeps
  <1>2. CASE UNCHANGED <<now, keys, minutes, days, events, window, inFlight, history, requests, changes>>
    <2>1. UNCHANGED <<now, keys, minutes, days, events, window, blocked, ends, granted, passed,
                      admitted, attempts>>
      BY <1>2 DEF history
    <2> QED BY <2>1, RowsStay DEF AccessInv, AccessTypes, Remembered
  <1> QED BY <1>1, <1>2 DEF Request

(* Every step keeps the invariant.                                         *)
LEMMA AccessStep ==
  ASSUME AccessInv, [AccessNext]_accessVars
  PROVE  AccessInv'
  <1>1. CASE UNCHANGED accessVars
    BY <1>1, RowsStay DEF accessVars, AccessInv, AccessTypes, Remembered
  <1>2. CASE Tick
    BY <1>2, TickKeeps
  <1>3. CASE ConsumeAccountUsageWindow
    BY <1>3, ConsumeKeeps
  <1>4. CASE \E secret \in Secrets \cup ClientKeys, address \in Addresses :
               \/ Request(secret, "models", address, "none")
               \/ \E body \in Bodies : Request(secret, "chat", address, body)
    BY <1>4, RequestKeeps DEF Scopes
  <1>5. CASE \E id \in ClientKeys : DeleteApiKey(id)
    BY <1>5, DeleteKeeps
  <1>6. CASE \E id \in ClientKeys, enabled \in BOOLEAN : SetEnabled(id, enabled)
    BY <1>6, SetEnabledKeeps
  <1>7. CASE \E id \in ClientKeys, date \in Dates : SetExpiry(id, date)
    BY <1>7, SetExpiryKeeps
  <1>8. CASE \E id \in ClientKeys, policy \in Policies, rate \in Rates, quota \in Quotas :
               \/ SetLimits(id, policy, rate, quota)
               \/ \E date \in Dates : CreateApiKey(id, policy, rate, quota, date)
    BY <1>8, SetLimitsKeeps, CreateKeeps
  <1>9. CASE \E id, new \in ClientKeys, grace \in Grace, date \in Dates : RotateApiKey(id, new, grace, date)
    BY <1>9, RotateKeeps
  <1>10. CASE \E secret \in Secrets, w \in UsageWindows : Restart(secret, w)
    BY <1>10, RestartKeeps
  <1> QED
    BY <1>1, <1>2, <1>3, <1>4, <1>5, <1>6, <1>7, <1>8, <1>9, <1>10 DEF AccessNext

(* The counters and the rows agree with the history of requests and of     *)
(* what the administrator was told, through policy changes, rotations,     *)
(* deletions and restarts.                                                 *)
THEOREM AccessInvariant == AccessSpec => []AccessInv
<1>1. AccessInv /\ [AccessNext]_accessVars => AccessInv'
  BY AccessStep
<1> QED
  BY <1>1, AccessStarts, PTL DEF AccessSpec

(* Every answer to a request is the one the whole history of its key calls *)
(* for: what the limiter has dropped no longer counted, and what a restart *)
(* kept or lost is what the rule is about (rate-limiter.ts, store.ts).     *)
THEOREM AccessFollowsHistory == AccessSpec => LimitsFollowHistory
<1> DEFINE Answered ==
      LET a    == answer'
          fast == InLastMinute(a.id, a.scope) >= keys[a.id].rate
          out  == a.scope = "chat" /\ admitted[a.id][Today] >= keys[a.id].quota
      IN  /\ a.told \in {"let in", "invalid_request", "model_not_allowed"} => ~fast /\ ~out
          /\ a.told = "rate_limit_exceeded" => fast
          /\ a.told = "daily_quota_exceeded" => out
<1>1. ASSUME AccessInv, AccessNext PROVE Answered
  <2>1. CASE answer'.told \in {"nothing", "unauthorized"}
    BY <2>1
  <2>2. ASSUME NEW secret \in Secrets \cup ClientKeys, NEW scope \in Scopes, NEW address, NEW body,
               Request(secret, scope, address, body)
        PROVE  Answered
    <3>1. CASE answer' = [NoAnswer EXCEPT !.secret = secret, !.scope = scope,
                                          !.told = "unauthorized", !.address = address]
      <4>1. answer'.told = "unauthorized"
        BY <3>1 DEF NoAnswer
      <4> QED BY <2>1, <4>1
    <3>2. ASSUME NEW id \in Entered(secret, scope, address), Guard(secret, id, scope, address, body)
          PROVE  Answered
      <4>1. id \in DOMAIN keys
        BY <1>1, EntersByRow
      <4>2. /\ answer'.id = id /\ answer'.scope = scope
            /\ answer'.told = IF InLastMinute(id, scope) >= keys[id].rate THEN "rate_limit_exceeded"
                              ELSE IF scope = "chat" /\ admitted[id][Today] >= keys[id].quota
                                   THEN "daily_quota_exceeded" ELSE ChatAnswer(id, body)
        BY <1>1, <3>2, <4>1, GuardTells
      <4>3. ChatAnswer(id, body) \notin {"rate_limit_exceeded", "daily_quota_exceeded"}
        BY ChatAnswerIs
      <4> QED BY <4>2, <4>3
    <3> QED BY <2>2, <3>1, <3>2 DEF Request
  <2> HIDE DEF Answered
  <2> QED BY <1>1, <2>1, <2>2, StepsAnswer
<1>2. AccessInv /\ [AccessNext]_accessVars => [Answered]_<<answer, requests>>
  BY <1>1 DEF accessVars
<1> QED
  BY <1>2, AccessInvariant, PTL DEF AccessSpec, LimitsFollowHistory

(* No boot sends the account more attempts in its usage window than the    *)
(* limit, because every boot keeps the rows of a whole day, which no       *)
(* window exceeds (store.ts consumeAccountUsageWindow).                    *)
THEOREM AccessKeepsUsageWindow == AccessSpec => UsageWindowKept
<1> DEFINE Below == DailyLimit > 0 => CountSince(attempts, now - window) < DailyLimit
<1>1. ASSUME AccessInv, AccessNext, attempts' # attempts PROVE Below
  <2>1. ConsumeAccountUsageWindow
    <3>1. ~Tick
      BY <1>1 DEF Tick, history
    <3>2. ASSUME NEW secret, NEW scope, NEW address, NEW body PROVE ~Request(secret, scope, address, body)
      BY <1>1 DEF Request, Guard, history
    <3>3. ASSUME NEW id PROVE ~AdminWrites(id)
      BY <1>1 DEF AdminWrites
    <3>4. /\ \A id : ~DeleteApiKey(id)
          /\ \A id, enabled : ~SetEnabled(id, enabled)
          /\ \A id, date : ~SetExpiry(id, date)
          /\ \A id, policy, rate, quota : ~SetLimits(id, policy, rate, quota)
          /\ \A id, new, grace, date : ~RotateApiKey(id, new, grace, date)
      BY <3>3 DEF DeleteApiKey, SetEnabled, SetExpiry, SetLimits, RotateApiKey
    <3>5. /\ \A id, policy, rate, quota, date : ~CreateApiKey(id, policy, rate, quota, date)
          /\ \A secret, w : ~Restart(secret, w)
      BY <1>1 DEF CreateApiKey, Restart
    <3> QED BY <1>1, <3>1, <3>2, <3>4, <3>5 DEF AccessNext
  <2>2. DailyLimit > 0 => ~(CountSince(events, now - window) >= DailyLimit)
    BY <1>1, <2>1 DEF ConsumeAccountUsageWindow
  <2>3. /\ now - window \in Int /\ now - window >= now - Day /\ DailyLimit \in Nat
        /\ attempts \in Counts
    BY <1>1, AccessBasics DEF AccessInv, AccessTypes
  <2>4. \A t \in Times : t > now - window => events[t] = attempts[t]
    <3> SUFFICES ASSUME NEW t \in Times, t > now - window PROVE t > now - Day
      BY <1>1 DEF AccessInv, Remembered
    <3>1. t \in Nat /\ now \in Nat /\ window \in Nat /\ window <= Day /\ Day \in Nat
      BY <1>1, AccessBasics DEF AccessInv, AccessTypes
    <3> QED BY <3>1
  <2>5. CountSince(events, now - window) = CountSince(attempts, now - window)
    BY <2>3, <2>4, CountsAgree
  <2>6. CountSince(attempts, now - window) \in Nat
    BY <2>3, CountIsNat
  <2> QED BY <2>2, <2>3, <2>5, <2>6
<1>2. AccessInv /\ [AccessNext]_accessVars => [Below]_attempts
  BY <1>1 DEF accessVars
<1> QED
  BY <1>2, AccessInvariant, PTL DEF AccessSpec, UsageWindowKept

(* The same with networks compared as isIpAllowed compares them: every row *)
(* says what the administrator was last told (store.ts findApiKey,         *)
(* rotateApiKey, deleteApiKey, seedBootstrapApiKey).                       *)
THEOREM AccessFollowsRules == AccessSpec => EntryFollowsRules
<1> DEFINE Entry ==
      LET a    == answer'
          may  == granted[a.secret]
          open == /\ a.secret \notin blocked /\ now < ends[a.secret]
                  /\ a.scope \in may.scopes /\ IsIpAllowed(a.address, may.networks)
      IN  a.told # "nothing" =>
            /\ a.told # "unauthorized" <=> open
            /\ a.told = "let in" /\ a.scope = "chat" /\ may.models # {} => a.body \in may.models
<1>1. ASSUME AccessInv, AccessNext PROVE Entry
  <2>1. CASE answer'.told = "nothing"
    BY <2>1
  <2>2. ASSUME NEW secret \in Secrets \cup ClientKeys, NEW scope \in Scopes, NEW address, NEW body,
               Request(secret, scope, address, body), scope = "chat" => body \in Bodies
        PROVE  Entry
    <3>1. CASE /\ Entered(secret, scope, address) = {}
               /\ answer' = [NoAnswer EXCEPT !.secret = secret, !.scope = scope,
                                             !.told = "unauthorized", !.address = address]
      <4>1. /\ answer'.told = "unauthorized" /\ answer'.secret = secret
            /\ answer'.scope = scope /\ answer'.address = address
        BY <3>1 DEF NoAnswer
      <4> QED BY <1>1, <3>1, <4>1, EntersByRow
    <3>2. ASSUME NEW id \in Entered(secret, scope, address), Guard(secret, id, scope, address, body)
          PROVE  Entry
      <4>1. id \in DOMAIN keys /\ keys[id].policy = granted[secret]
        BY <1>1, EntersByRow
      <4>2. /\ answer'.secret = secret /\ answer'.scope = scope
            /\ answer'.address = address /\ answer'.body = body
            /\ answer'.told \in {"rate_limit_exceeded", "daily_quota_exceeded", ChatAnswer(id, body)}
        BY <1>1, <3>2, <4>1, GuardTells
      <4>3. answer'.told \notin {"nothing", "unauthorized"}
        BY <4>2, ChatAnswerIs
      <4>4. answer'.told = "let in" /\ scope = "chat" => AssertModelAllowed(id, body)
        BY <2>2, <4>2, ChatAnswerIs
      <4> QED BY <1>1, <4>1, <4>2, <4>3, <4>4, EntersByRow DEF AssertModelAllowed
    <3> QED BY <2>2, <3>1, <3>2 DEF Request
  <2> HIDE DEF Entry
  <2> QED BY <1>1, <2>1, <2>2, StepsAnswer
<1>2. AccessInv /\ [AccessNext]_accessVars => [Entry]_<<answer, requests>>
  BY <1>1 DEF accessVars
<1> QED
  BY <1>2, AccessInvariant, PTL DEF AccessSpec, EntryFollowsRules

-----------------------------------------------------------------------------
(* Networks.                                                               *)

(* Induction over the naturals, for a set rather than for a predicate.     *)
LEMMA NatSets ==
  ASSUME NEW S, 0 \in S, \A n \in Nat : n \in S => n + 1 \in S
  PROVE  Nat \subseteq S
  <1>1. SUFFICES ASSUME Nat \ S # {} PROVE FALSE
    OBVIOUS
  <1>2. \E x \in Nat \ S : \A y \in Nat \ S : <<y, x>> \notin OpToRel(<, Nat)
    BY <1>1, WFMin, NatLessThanWellFounded
  <1>3. PICK x \in Nat \ S : \A y \in Nat \ S : ~ (y < x)
    BY <1>2 DEF OpToRel
  <1>4. x # 0 /\ x - 1 \in Nat
    BY <1>3
  <1>5. x - 1 \in S
    BY <1>3, <1>4
  <1> QED BY <1>3, <1>4, <1>5

(* The recursion has a solution, so PowerOfTwo is it.                      *)
LEMMA PowerOfTwoIs ==
  /\ PowerOfTwo[0] = 1
  /\ \A k \in Nat : PowerOfTwo[k + 1] = 2 * PowerOfTwo[k]
  <1> DEFINE Step(g, i) == IF i = 0 THEN 1 ELSE 2 * g[i - 1]
             Upto(g, n) == \A i \in 0..n : g[i] = Step(g, i)
             S == {n \in Nat : \E g : Upto(g, n)}
  <1>1. 0 \in S
    <2>1. Upto([i \in 0..0 |-> 1], 0)
      OBVIOUS
    <2> QED BY <2>1
  <1>2. ASSUME NEW n \in Nat, n \in S PROVE n + 1 \in S
    <2>1. PICK g : Upto(g, n)
      BY <1>2
    <2> DEFINE h == [i \in 0..(n + 1) |-> IF i <= n THEN g[i] ELSE 2 * g[n]]
    <2>2. ASSUME NEW i \in 0..(n + 1) PROVE h[i] = Step(h, i)
      <3>1. CASE i = 0
        BY <2>1, <3>1
      <3>2. CASE i \in 1..n
        BY <2>1, <3>2
      <3>3. CASE i = n + 1
        BY <2>1, <3>3
      <3> QED BY <3>1, <3>2, <3>3
    <2> HIDE DEF h, Step
    <2>3. Upto(h, n + 1)
      BY <2>2
    <2> QED BY <2>3
  <1> HIDE DEF S
  <1>3. \A n \in Nat : \E g : Upto(g, n)
    <2>1. Nat \subseteq S
      BY <1>1, <1>2, NatSets
    <2> QED BY <2>1 DEF S
  <1>4. ASSUME NEW n \in Nat, NEW g, NEW h, NEW m \in Nat, Upto(g, n), Upto(h, m), NEW k \in Nat, k <= n, k <= m
        PROVE  g[k] = h[k]
    <2> DEFINE T == {i \in Nat : i <= k => g[i] = h[i]}
    <2>1. 0 \in T
      BY <1>4
    <2>2. ASSUME NEW i \in Nat, i \in T PROVE i + 1 \in T
      <3> SUFFICES ASSUME i + 1 <= k PROVE g[i + 1] = h[i + 1]
        OBVIOUS
      <3>1. g[i] = h[i] /\ i + 1 \in 0..n /\ i + 1 \in 0..m /\ i + 1 # 0 /\ i + 1 - 1 = i
        BY <1>4, <2>2
      <3>2. g[i + 1] = 2 * g[i] /\ h[i + 1] = 2 * h[i]
        BY <1>4, <3>1
      <3> QED BY <3>1, <3>2
    <2> HIDE DEF T
    <2>3. k \in T
      BY <2>1, <2>2, NatSets
    <2> QED BY <2>3 DEF T
  <1> DEFINE f == [n \in Nat |-> (CHOOSE g : Upto(g, n))[n]]
  <1>5. \A n \in Nat : Upto(CHOOSE g : Upto(g, n), n)
    BY <1>3
  <1> HIDE DEF Upto
  <1>6. ASSUME NEW n \in Nat PROVE f[n] = Step(f, n)
    <2>1. CASE n = 0
      <3>1. Upto(CHOOSE g : Upto(g, 0), 0)
        BY <1>5
      <3>2. (CHOOSE g : Upto(g, 0))[0] = 1
        BY <3>1 DEF Upto
      <3> QED BY <2>1, <3>2
    <2>2. CASE n # 0
      <3> DEFINE a == CHOOSE g : Upto(g, n)
                 b == CHOOSE g : Upto(g, n - 1)
      <3>1. n - 1 \in Nat /\ n - 1 <= n
        BY <2>2
      <3>2. Upto(a, n) /\ Upto(b, n - 1) /\ f[n] = a[n] /\ f[n - 1] = b[n - 1]
        BY <1>5, <3>1
      <3> HIDE DEF a, b, f
      <3>3. a[n - 1] = b[n - 1]
        BY <1>4, <3>1, <3>2
      <3>4. a[n] = 2 * a[n - 1]
        BY <2>2, <3>2 DEF Upto
      <3> QED BY <2>2, <3>2, <3>3, <3>4
    <2> QED BY <2>1, <2>2
  <1> HIDE DEF f
  <1>7. f = [n \in Nat |-> Step(f, n)]
    <2>1. f = [n \in Nat |-> f[n]]
      BY DEF f
    <2> HIDE DEF Step
    <2> QED BY <1>6, <2>1
  <1>8. PowerOfTwo = CHOOSE g : g = [n \in Nat |-> Step(g, n)]
    BY DEF PowerOfTwo
  <1>9. PowerOfTwo = [n \in Nat |-> Step(PowerOfTwo, n)]
    <2> HIDE DEF Step
    <2> QED BY <1>7, <1>8
  <1>10. \A n \in Nat : PowerOfTwo[n] = Step(PowerOfTwo, n)
    <2> HIDE DEF Step
    <2> QED BY <1>9
  <1> QED BY <1>10

(* It is never zero.                                                       *)
LEMMA PowerOfTwoPositive == \A k \in Nat : PowerOfTwo[k] \in Nat \ {0}
  <1> DEFINE S == {k \in Nat : PowerOfTwo[k] \in Nat \ {0}}
  <1>1. 0 \in S
    BY PowerOfTwoIs
  <1>2. ASSUME NEW k \in Nat, k \in S PROVE k + 1 \in S
    BY <1>2, PowerOfTwoIs
  <1> HIDE DEF S
  <1>3. Nat \subseteq S
    BY <1>1, <1>2, NatSets
  <1> QED BY <1>3 DEF S

(* Quotient and remainder are determined.                                  *)
LEMMA Divides ==
  ASSUME NEW a \in Nat, NEW p \in Nat \ {0}
  PROVE  /\ a \div p \in Nat /\ a \div p <= a
         /\ \E r \in 0..(p - 1) : a = p * (a \div p) + r
  OBVIOUS

LEMMA Quotient ==
  ASSUME NEW a \in Nat, NEW p \in Nat \ {0}, NEW q \in Nat, NEW r \in 0..(p - 1), a = p * q + r
  PROVE  a \div p = q
  <1>1. PICK s \in 0..(p - 1) : a = p * (a \div p) + s
    BY Divides
  <1>2. PICK d \in Nat : d = a \div p
    BY Divides
  <1>3. p * q + r = p * d + s
    BY <1>1, <1>2
  <1>4. CASE d < q
    <2>1. d + 1 <= q
      BY <1>4
    <2>2. p * (d + 1) <= p * q
      BY <2>1
    <2> QED BY <1>3, <2>2
  <1>5. CASE q < d
    <2>1. q + 1 <= d
      BY <1>5
    <2>2. p * (q + 1) <= p * d
      BY <2>1
    <2> QED BY <1>3, <2>2
  <1> QED BY <1>2, <1>4, <1>5

(* Half of a shifted number is that number shifted once more.              *)
LEMMA Halved ==
  ASSUME NEW a \in Nat, NEW p \in Nat \ {0}
  PROVE  /\ a \div p = 2 * (a \div (2 * p)) + ((a \div p) % 2)
  <1>1. PICK q \in Nat, s \in 0..(p - 1) : q = a \div p /\ a = p * q + s
    BY Divides
  <1>2. PICK t \in Nat, b \in 0..1 : q = 2 * t + b /\ b = q % 2
    <2>1. q = 2 * (q \div 2) + (q % 2) /\ q \div 2 \in Nat /\ q % 2 \in 0..1
      OBVIOUS
    <2> QED BY <2>1
  <1>3. a = (2 * p) * t + (p * b + s)
    <2>1. p * q = p * (2 * t) + p * b
      BY <1>2
    <2>2. p * (2 * t) = (2 * p) * t
      OBVIOUS
    <2> QED BY <1>1, <2>1, <2>2
  <1>4. p * b + s \in 0..(2 * p - 1)
    <2>1. b = 0 \/ b = 1
      OBVIOUS
    <2> QED BY <2>1
  <1>5. a \div (2 * p) = t
    <2>1. PICK m, r : m = 2 * p /\ r = p * b + s
      OBVIOUS
    <2>2. m \in Nat \ {0} /\ r \in 0..(m - 1) /\ a = m * t + r
      BY <1>3, <1>4, <2>1
    <2>3. a \div m = t
      BY <2>2, Quotient
    <2> QED BY <2>1, <2>3
  <1> QED BY <1>1, <1>2, <1>5

(* Two numbers of a width are the same above a bit exactly when they agree *)
(* on each bit from there on: by induction over how many there are.        *)
LEMMA SameLeadingBits ==
  ASSUME NEW bits \in Nat, NEW a \in 0..(PowerOfTwo[bits] - 1), NEW r \in 0..(PowerOfTwo[bits] - 1),
         NEW prefix \in 0..bits
  PROVE  a \div PowerOfTwo[bits - prefix] = r \div PowerOfTwo[bits - prefix]
           <=> \A i \in (bits - prefix)..(bits - 1) : ((a \div PowerOfTwo[i]) % 2) = ((r \div PowerOfTwo[i]) % 2)
  <1> DEFINE Agree(j) == \A i \in (bits - j)..(bits - 1) : ((a \div PowerOfTwo[i]) % 2) = ((r \div PowerOfTwo[i]) % 2)
             Same(j) == a \div PowerOfTwo[bits - j] = r \div PowerOfTwo[bits - j]
             S == {j \in Nat : j <= bits => (Same(j) <=> Agree(j))}
  <1>1. a \in Nat /\ r \in Nat /\ \A k \in Nat : PowerOfTwo[k] \in Nat \ {0}
    BY PowerOfTwoPositive
  <1>2. 0 \in S
    <2>1. bits - 0 = bits
      OBVIOUS
    <2>2. PICK p \in Nat \ {0} : p = PowerOfTwo[bits]
      BY <1>1
    <2>3. a \div p = 0 /\ r \div p = 0
      <3>1. a \in 0..(p - 1) /\ r \in 0..(p - 1) /\ a = p * 0 + a /\ r = p * 0 + r
        BY <2>2
      <3> QED BY <1>1, <3>1, Quotient
    <2>4. Agree(0)
      OBVIOUS
    <2> QED BY <2>1, <2>2, <2>3, <2>4
  <1>3. ASSUME NEW j \in Nat, j \in S PROVE j + 1 \in S
    <2> SUFFICES ASSUME j + 1 <= bits PROVE Same(j + 1) <=> Agree(j + 1)
      OBVIOUS
    <2>1. PICK k \in Nat : k = bits - (j + 1) /\ k + 1 = bits - j
      OBVIOUS
    <2>2. Same(j) <=> Agree(j)
      BY <1>3
    <2>3. PICK p \in Nat \ {0} : p = PowerOfTwo[k] /\ PowerOfTwo[k + 1] = 2 * p
      BY <1>1, PowerOfTwoIs
    <2>4. /\ a \div p = 2 * (a \div (2 * p)) + ((a \div p) % 2)
          /\ r \div p = 2 * (r \div (2 * p)) + ((r \div p) % 2)
      BY <1>1, Halved
    <2>5. ((a \div PowerOfTwo[k]) % 2) = (a \div p) % 2 /\ ((r \div PowerOfTwo[k]) % 2) = (r \div p) % 2
      BY <2>3
    <2>6. Same(j + 1) <=> a \div p = r \div p
      BY <2>1, <2>3
    <2>7. Same(j) <=> a \div (2 * p) = r \div (2 * p)
      BY <2>1, <2>3
    <2>8. Agree(j + 1) <=> Agree(j) /\ ((a \div PowerOfTwo[k]) % 2) = ((r \div PowerOfTwo[k]) % 2)
      <3>1. \A i \in (bits - (j + 1))..(bits - 1) : i = k \/ i \in (bits - j)..(bits - 1)
        BY <2>1
      <3>2. k \in (bits - (j + 1))..(bits - 1)
            /\ \A i \in (bits - j)..(bits - 1) : i \in (bits - (j + 1))..(bits - 1)
        BY <2>1
      <3> QED BY <3>1, <3>2
    <2>9. \A x, y \in Nat : x % 2 \in 0..1 /\ y % 2 \in 0..1
      OBVIOUS
    <2>10. PICK x, y, u, v : /\ x = a \div p /\ y = r \div p
                             /\ u = a \div (2 * p) /\ v = r \div (2 * p)
      OBVIOUS
    <2>11. x \in Nat /\ y \in Nat /\ u \in Nat /\ v \in Nat
      <3>1. 2 * p \in Nat \ {0}
        OBVIOUS
      <3> QED BY <1>1, <2>10, <3>1, Divides
    <2>12. x = 2 * u + (x % 2) /\ y = 2 * v + (y % 2)
      BY <2>4, <2>10
    <2>13. x = y <=> u = v /\ x % 2 = y % 2
      BY <2>9, <2>11, <2>12
    <2> HIDE DEF Same, Agree
    <2> QED BY <2>2, <2>5, <2>6, <2>7, <2>8, <2>10, <2>13
  <1> HIDE DEF S
  <1>4. prefix \in S
    BY <1>2, <1>3, NatSets
  <1> QED BY <1>4 DEF S

(* Comparing what is left of two addresses once the bits after a prefix    *)
(* are cleared is comparing the bits before it.                            *)
LEMMA NetworkIsItsBits ==
  ASSUME NEW address, NEW rule, ParsedIp(address), ParsedIp(rule),
         rule.bits = address.bits, rule.prefix \in 0..rule.bits
  PROVE  Network(address, rule.prefix) = Network(rule, rule.prefix) <=> Inside(address, rule)
  <1> DEFINE bits == rule.bits
             k == bits - rule.prefix
             a == address.value
             r == rule.value
             host == PowerOfTwo[k]
  <1>1. bits \in Nat /\ k \in Nat /\ rule.prefix \in 0..bits
        /\ a \in 0..(PowerOfTwo[bits] - 1) /\ r \in 0..(PowerOfTwo[bits] - 1)
    BY DEF ParsedIp
  <1>2. host \in Nat \ {0} /\ PowerOfTwo[bits] \in Nat
    BY <1>1, PowerOfTwoPositive
  <1>3. Network(address, rule.prefix) = (a \div host) * host
        /\ Network(rule, rule.prefix) = (r \div host) * host
    BY DEF Network
  <1>4. a \div host = r \div host
          <=> \A i \in k..(bits - 1) : ((a \div PowerOfTwo[i]) % 2) = ((r \div PowerOfTwo[i]) % 2)
    BY <1>1, SameLeadingBits
  <1>5. Inside(address, rule)
          <=> \A i \in k..(bits - 1) : ((a \div PowerOfTwo[i]) % 2) = ((r \div PowerOfTwo[i]) % 2)
    BY DEF Inside, Bit
  <1> HIDE DEF bits, k, a, r, host
  <1>6. (a \div host) * host = (r \div host) * host <=> a \div host = r \div host
    <2>1. PICK p, x, y : p = host /\ x = a \div host /\ y = r \div host
      OBVIOUS
    <2>2. a \in Nat /\ r \in Nat
      BY <1>1, <1>2
    <2>3. p \in Nat \ {0} /\ x \in Nat /\ y \in Nat
      BY <1>2, <2>1, <2>2, Divides
    <2>4. x * p = y * p => x = y
      <3>1. CASE x < y
        <4>1. (x + 1) * p <= y * p
          BY <2>3, <3>1
        <4> QED BY <2>3, <3>1, <4>1
      <3>2. CASE y < x
        <4>1. (y + 1) * p <= x * p
          BY <2>3, <3>2
        <4> QED BY <2>3, <3>2, <4>1
      <3> QED BY <2>3, <3>1, <3>2
    <2> QED BY <2>1, <2>4
  <1> QED BY <1>3, <1>4, <1>5, <1>6

(* Every rule that was ever granted is one the schemas accept.             *)
GrantedReadable ==
  \A s \in DOMAIN granted : \A rule \in granted[s].networks :
    ParsedIp(rule) /\ rule.prefix \in 0..rule.bits

(* Every step keeps them so: the networks of a key are never widened but   *)
(* by a policy the schemas accepted.                                       *)
LEMMA GrantedReadableStep ==
  ASSUME AccessInv, GrantedReadable, [AccessNext]_accessVars
  PROVE  GrantedReadable'
  <1>0. DOMAIN granted = Secrets \cup ClientKeys
    BY DEF AccessInv, RowsFollow
  <1>1. ASSUME UNCHANGED granted PROVE GrantedReadable'
    BY <1>1 DEF GrantedReadable
  <1>2. ASSUME NEW old, NEW policy \in Policies PROVE Narrowed(old, policy).networks = policy.networks
    BY AccessAssumption DEF Narrowed
  <1>3. ASSUME NEW policy \in Policies, NEW rate, NEW quota, NEW narrowed,
               narrowed.networks = policy.networks, Acceptable(narrowed, rate, quota)
        PROVE  \A rule \in narrowed.networks : ParsedIp(rule) /\ rule.prefix \in 0..rule.bits
    BY <1>3, AccessAssumption DEF Acceptable
  <1>4. ASSUME NEW id \in ClientKeys, NEW policy \in Policies, NEW rate \in Rates, NEW quota \in Quotas,
               SetLimits(id, policy, rate, quota)
        PROVE  GrantedReadable'
    <2>1. /\ granted' = [granted EXCEPT ![id] = Narrowed(@, policy)]
          /\ Acceptable(Narrowed(keys[id].policy, policy), rate, quota)
      BY <1>4 DEF SetLimits
    <2>2. /\ granted'[id].networks = policy.networks /\ DOMAIN granted' = DOMAIN granted
          /\ \A s \in DOMAIN granted \ {id} : granted'[s] = granted[s]
      BY <1>0, <1>2, <2>1
    <2>3. \A rule \in policy.networks : ParsedIp(rule) /\ rule.prefix \in 0..rule.bits
      BY <1>2, <1>3, <2>1
    <2> QED BY <2>2, <2>3 DEF GrantedReadable
  <1>5. ASSUME NEW id \in ClientKeys, NEW policy \in Policies, NEW rate \in Rates, NEW quota \in Quotas,
               NEW date \in Dates, CreateApiKey(id, policy, rate, quota, date)
        PROVE  GrantedReadable'
    <2>1. granted' = [granted EXCEPT ![id] = policy] /\ Acceptable(policy, rate, quota)
      BY <1>5 DEF CreateApiKey
    <2>2. /\ granted'[id] = policy /\ DOMAIN granted' = DOMAIN granted
          /\ \A s \in DOMAIN granted \ {id} : granted'[s] = granted[s]
      BY <1>0, <2>1
    <2>3. \A rule \in policy.networks : ParsedIp(rule) /\ rule.prefix \in 0..rule.bits
      BY <1>3, <2>1
    <2> QED BY <2>2, <2>3 DEF GrantedReadable
  <1>6. ASSUME NEW id \in ClientKeys, NEW new \in ClientKeys, NEW grace \in Grace, NEW date \in Dates,
               RotateApiKey(id, new, grace, date)
        PROVE  GrantedReadable'
    <2>1. granted' = [granted EXCEPT ![new] = granted[id]]
      BY <1>6 DEF RotateApiKey
    <2>2. \A s \in DOMAIN granted' : s \in DOMAIN granted /\ granted'[s] \in {granted[s], granted[id]}
      BY <1>0, <2>1
    <2> QED BY <1>0, <2>2 DEF GrantedReadable
  <1>7. CASE \E id \in ClientKeys, policy \in Policies, rate \in Rates, quota \in Quotas :
               \/ SetLimits(id, policy, rate, quota)
               \/ \E date \in Dates : CreateApiKey(id, policy, rate, quota, date)
    BY <1>4, <1>5, <1>7
  <1>8. CASE \E id, new \in ClientKeys, grace \in Grace, date \in Dates : RotateApiKey(id, new, grace, date)
    BY <1>6, <1>8
  <1>9. CASE Tick \/ ConsumeAccountUsageWindow
    BY <1>1, <1>9 DEF Tick, ConsumeAccountUsageWindow, history
  <1>10. CASE \E secret \in Secrets \cup ClientKeys, address \in Addresses :
               \/ Request(secret, "models", address, "none")
               \/ \E body \in Bodies : Request(secret, "chat", address, body)
    <2>1. ASSUME NEW secret, NEW scope, NEW address, NEW body, Request(secret, scope, address, body)
          PROVE  UNCHANGED granted
      BY <2>1 DEF Request, Guard, history
    <2> QED BY <1>1, <1>10, <2>1
  <1>11. CASE \/ \E id \in ClientKeys : DeleteApiKey(id)
              \/ \E id \in ClientKeys, enabled \in BOOLEAN : SetEnabled(id, enabled)
              \/ \E id \in ClientKeys, date \in Dates : SetExpiry(id, date)
              \/ \E secret \in Secrets, w \in UsageWindows : Restart(secret, w)
              \/ UNCHANGED accessVars
    BY <1>1, <1>11 DEF DeleteApiKey, SetEnabled, SetExpiry, Restart, accessVars, history
  <1> QED
    BY <1>7, <1>8, <1>9, <1>10, <1>11 DEF AccessNext

(* A secret opens what the newest policy of its key opens until its last   *)
(* announced end, for clients whose address agrees with one of its rules   *)
(* on the leading bits, and nothing else does (store.ts findApiKey,        *)
(* rotateApiKey, deleteApiKey, seedBootstrapApiKey; ip-allowlist.ts).      *)
THEOREM AccessFollowsPolicy == AccessSpec => EntryFollowsPolicy
<1> DEFINE Rules ==
      LET a    == answer'
          may  == granted[a.secret]
          open == /\ a.secret \notin blocked /\ now < ends[a.secret]
                  /\ a.scope \in may.scopes /\ IsIpAllowed(a.address, may.networks)
      IN  a.told # "nothing" =>
            /\ a.told # "unauthorized" <=> open
            /\ a.told = "let in" /\ a.scope = "chat" /\ may.models # {} => a.body \in may.models
    Entry ==
      LET a    == answer'
          may  == granted[a.secret]
          open == /\ a.secret \notin blocked /\ now < ends[a.secret]
                  /\ a.scope \in may.scopes
                  /\ may.networks = {} \/ \E rule \in may.networks : Inside(a.address, rule)
      IN  a.told # "nothing" =>
            /\ a.told # "unauthorized" <=> open
            /\ a.told = "let in" /\ a.scope = "chat" /\ may.models # {} => a.body \in may.models
<1>1. AccessSpec => []GrantedReadable
  <2>1. AccessInit => GrantedReadable
    BY DEF AccessInit, GrantedReadable, Everything
  <2>2. AccessInv /\ GrantedReadable /\ [AccessNext]_accessVars => GrantedReadable'
    BY GrantedReadableStep
  <2> QED BY <2>1, <2>2, AccessInvariant, PTL DEF AccessSpec
<1>2. ASSUME AccessInv, GrantedReadable, AccessNext, Rules PROVE Entry
  <2>1. CASE answer'.told = "nothing"
    BY <2>1
  <2>2. ASSUME NEW secret \in Secrets \cup ClientKeys, NEW address \in Addresses, NEW scope \in Scopes,
               NEW body \in Bodies \cup {"none"}, Request(secret, scope, address, body)
        PROVE  Entry
    <3>1. answer'.secret = secret /\ answer'.address = address
      <4>1. CASE answer' = [NoAnswer EXCEPT !.secret = secret, !.scope = scope,
                                            !.told = "unauthorized", !.address = address]
        BY <4>1 DEF NoAnswer
      <4>2. ASSUME NEW id \in Entered(secret, scope, address), Guard(secret, id, scope, address, body)
            PROVE  answer'.secret = secret /\ answer'.address = address
        <5>1. id \in DOMAIN keys
          BY <1>2, EntersByRow
        <5> QED BY <1>2, <4>2, <5>1, GuardTells
      <4> QED BY <2>2, <4>1, <4>2 DEF Request
    <3>2. \A rule \in granted[secret].networks : ParsedIp(rule) /\ rule.prefix \in 0..rule.bits
      BY <1>2 DEF GrantedReadable, AccessInv, RowsFollow
    <3>3. ParsedIp(address)
      BY AccessAssumption
    <3>4. IsIpAllowed(address, granted[secret].networks)
            <=> \/ granted[secret].networks = {}
                \/ \E rule \in granted[secret].networks : Inside(address, rule)
      <4>1. ASSUME NEW rule \in granted[secret].networks
            PROVE  Inside(address, rule) <=>
                     rule.bits = address.bits /\ Network(address, rule.prefix) = Network(rule, rule.prefix)
        <5>1. CASE rule.bits = address.bits
          BY <3>2, <3>3, <5>1, NetworkIsItsBits
        <5>2. CASE rule.bits # address.bits
          BY <5>2 DEF Inside
        <5> QED BY <5>1, <5>2
      <4> QED BY <4>1 DEF IsIpAllowed
    <3> QED BY <1>2, <3>1, <3>4
  <2> HIDE DEF Entry
  <2> QED BY <1>2, <2>1, <2>2, StepsAnswer
<1>3. [AccessNext]_accessVars /\ [Rules]_<<answer, requests>> /\ AccessInv /\ GrantedReadable
        => [Entry]_<<answer, requests>>
  BY <1>2 DEF accessVars
<1> QED
  BY <1>1, <1>3, AccessInvariant, AccessFollowsRules, PTL DEF AccessSpec, EntryFollowsRules, EntryFollowsPolicy
=============================================================================
