--------------------------- MODULE UpstreamProofs ---------------------------
(***************************************************************************)
(* Proofs about what the gateway asks of the provider: about SessionPool   *)
(* for every set of requests, every lifetime and every bound, and about    *)
(* DeepSeekCall for every number of files, polls and events.               *)
(***************************************************************************)
EXTENDS SessionPool, DeepSeekCall, WellFoundedInduction, SequenceTheorems, TLAPS

-----------------------------------------------------------------------------
(* The session pool.                                                       *)

(* An acquire that awaits an upstream call is the head of its chain: no    *)
(* other one starts, and none leaves the chain but the head.               *)
HeadAwaits ==
  \A r \in Requests : pc[r] \in {"retiring", "creating"} => Running(r)

(* What a request holds is a session marked in use, so that an acquire     *)
(* cannot choose it, whatever array of entries it kept across its awaits.  *)
LeasesMarked ==
  \A r \in Requests : Holding(r) => lease[r] \in inUse

(* What the running acquire has yet to close, and what a request has yet   *)
(* to delete, is no longer listed.                                         *)
Dropped ==
  \A r \in Requests :
    /\ pc[r] = "retiring" => op.expired # {} /\ op.expired \cap entries = {}
    /\ pc[r] \in {"tokening", "closing"} => lease[r] \notin entries

(* The inductive invariant.  Exclusive leases are not inductive alone: the *)
(* running acquire chooses from an array it read before its awaits, and    *)
(* that a leased session is not idle is what LeasesMarked adds; a release  *)
(* clears the mark of its own session only, which needs exclusiveness.     *)
(* That a dropped session is deleted, if a token can be had, and listed no *)
(* more needs that only the head of the chain retires, and Dropped.        *)
IInv ==
  /\ TypeOK
  /\ HeadAwaits
  /\ LeasesMarked
  /\ ExclusiveLease
  /\ NoLeakedEntry
  /\ Dropped
  /\ NoForgottenSession

(* The least of a set of natural numbers is one of them.                   *)
LEMMA MinIsMember ==
  ASSUME NEW S \in SUBSET Nat, S # {}
  PROVE  Min(S) \in S
  <1> DEFINE R == {ss \in Nat \X Nat : ss[1] < ss[2]}
  <1>1. IsWellFoundedOn(R, Nat)
    BY NatLessThanWellFounded DEF OpToRel
  <1>2. PICK x \in S : \A y \in S : ~ (<<y, x>> \in R)
    BY <1>1, WFMin
  <1>3. \A y \in S : x =< y
    <2> TAKE y \in S
    <2>1. x \in Nat /\ y \in Nat
      OBVIOUS
    <2>2. ~ (<<y, x>> \in R)
      BY <1>2
    <2>3. ~ (y < x)
      BY <2>1, <2>2
    <2> QED BY <2>1, <2>3
  <1>4. \E z \in S : \A y \in S : z =< y
    BY <1>3
  <1> QED BY <1>4 DEF Min

LEMMA PoolInit == Init => IInv
  <1> SUFFICES ASSUME Init PROVE IInv
    OBVIOUS
  <1> USE DEF Init
  <1>1. TypeOK
    BY PoolAssumption DEF TypeOK, Sessions, Upstream, Gone, NoOp
  <1>2. HeadAwaits /\ LeasesMarked /\ ExclusiveLease
    BY DEF HeadAwaits, LeasesMarked, ExclusiveLease, Holding
  <1>3. NoLeakedEntry /\ Dropped /\ NoForgottenSession
    BY DEF NoLeakedEntry, Dropped, NoForgottenSession, Sessions
  <1> QED BY <1>1, <1>2, <1>3 DEF IInv

LEMMA TickKeeps == ASSUME IInv, Tick PROVE IInv'
  <1> USE DEF Tick, IInv
  <1>1. TypeOK'
    BY PoolAssumption DEF TypeOK
  <1>2. HeadAwaits' /\ LeasesMarked' /\ ExclusiveLease'
    BY DEF HeadAwaits, Running, LeasesMarked, ExclusiveLease, Holding
  <1>3. NoLeakedEntry' /\ Dropped' /\ NoForgottenSession'
    BY DEF NoLeakedEntry, Dropped, NoForgottenSession, Holding, Uncounted, Owed
  <1> QED BY <1>1, <1>2, <1>3

LEMMA CallAcquireKeeps ==
  ASSUME IInv, NEW r \in Requests, NEW hasMedia \in BOOLEAN, CallAcquire(r, hasMedia)
  PROVE  IInv'
  <1> USE DEF CallAcquire
  <1>1. TypeOK'
    BY DEF IInv, TypeOK
  <1>2. HeadAwaits'
    BY DEF IInv, TypeOK, HeadAwaits, Running
  <1>3. LeasesMarked' /\ ExclusiveLease'
    BY DEF IInv, TypeOK, LeasesMarked, ExclusiveLease, Holding
  <1>4. NoLeakedEntry' /\ Dropped'
    BY DEF IInv, TypeOK, NoLeakedEntry, Dropped, Holding
  <1>5. Uncounted' = Uncounted /\ Owed' = Owed
    BY DEF IInv, TypeOK, Uncounted, Owed
  <1>6. NoForgottenSession'
    BY <1>5 DEF IInv, NoForgottenSession
  <1> QED BY <1>1, <1>2, <1>3, <1>4, <1>6 DEF IInv

(* The steps of an acquire.                                                *)

LEMMA OthersAwaitNothing ==
  ASSUME IInv, NEW r \in Requests, Running(r)
  PROVE  \A q \in Requests \ {r} : pc[q] \notin {"retiring", "creating"}
  BY DEF IInv, HeadAwaits, Running

LEMMA ChooseKeeps ==
  ASSUME IInv, NEW r \in Requests, Running(r), pc[r] \in {"chained", "retiring"},
         NEW time \in 0..MaxTime, NEW available \in SUBSET (1..created),
         Choose(r, time, available),
         UNCHANGED <<now, expiresAt, created, invalidated, media, retired>>,
         entries' \subseteq entries, upstream' \in [Sessions -> Upstream]
  PROVE  /\ TypeOK' /\ HeadAwaits' /\ LeasesMarked' /\ ExclusiveLease' /\ NoLeakedEntry'
         /\ Dropped' /\ Owed' = Owed
  <1> DEFINE idle == available \ inUse
  <1>1. CASE idle # {}
    <2>1. Min(idle) \in idle
      <3>1. idle \in SUBSET Nat
        BY DEF IInv, TypeOK
      <3> HIDE DEF idle
      <3> QED BY <1>1, <3>1, MinIsMember
    <2>2. /\ inUse' = inUse \cup {Min(idle)}
          /\ lease' = [lease EXCEPT ![r] = Min(idle)]
          /\ pc' = [pc EXCEPT ![r] = "leased"]
          /\ chain' = Tail(chain) /\ op' = NoOp
      BY <1>1 DEF Choose, Marked
    <2> HIDE DEF idle
    <2>3. Min(idle) \in 1..created /\ Min(idle) \notin inUse
      BY <2>1 DEF idle
    <2> DEFINE s == Min(idle)
    <2> HIDE DEF s
    <2>4. /\ s \in 1..created /\ s \notin inUse
          /\ inUse' = inUse \cup {s}
          /\ lease' = [lease EXCEPT ![r] = s]
      BY <2>2, <2>3 DEF s
    <2>5. chain' \in Seq(Requests)
      BY <2>2 DEF IInv, TypeOK, Running
    <2>6. TypeOK'
      <3>1. op' \in [time : 0..MaxTime, available : SUBSET (1..created),
                     expired : SUBSET (1..created)]
        BY <2>2, PoolAssumption DEF NoOp
      <3>2. pc' \in [Requests -> {"idle", "chained", "retiring", "creating", "leased",
                                 "tokening", "closing"}]
        BY <2>2 DEF IInv, TypeOK
      <3>3. lease' \in [Requests -> 0..created]
        <4>1. s \in 0..created
          BY <2>4 DEF IInv, TypeOK
        <4> QED BY <2>4, <4>1 DEF IInv, TypeOK
      <3>4. inUse' \subseteq 1..created
        BY <2>4 DEF IInv, TypeOK
      <3> QED BY <2>5, <3>1, <3>2, <3>3, <3>4 DEF IInv, TypeOK
    <2>7. HeadAwaits'
      BY <2>2 DEF IInv, TypeOK, HeadAwaits, Running
    <2>8. LeasesMarked' /\ ExclusiveLease'
      BY <2>2, <2>4 DEF IInv, TypeOK, LeasesMarked, ExclusiveLease, Holding
    <2>9. NoLeakedEntry'
      BY <2>2, <2>4 DEF IInv, TypeOK, NoLeakedEntry, Holding
    <2>10. /\ pc'[r] = "leased"
           /\ \A q \in Requests \ {r} : pc'[q] = pc[q] /\ lease'[q] = lease[q]
      BY <2>2 DEF IInv, TypeOK
    <2>11. Dropped'
      BY <2>10, OthersAwaitNothing DEF IInv, Dropped
    <2>12. Owed' = Owed
      BY <2>10 DEF Owed
    <2> QED BY <2>6, <2>7, <2>8, <2>9, <2>11, <2>12
  <1>2. CASE idle = {}
    <2>1. /\ pc' = [pc EXCEPT ![r] = "creating"]
          /\ op' = [time |-> time, available |-> available, expired |-> {}]
          /\ UNCHANGED <<inUse, lease, chain>>
      BY <1>2 DEF Choose
    <2>2. TypeOK'
      BY <2>1 DEF IInv, TypeOK
    <2>3. HeadAwaits'
      BY <2>1 DEF IInv, TypeOK, HeadAwaits, Running
    <2>4. LeasesMarked' /\ ExclusiveLease' /\ NoLeakedEntry'
      BY <2>1 DEF IInv, TypeOK, LeasesMarked, ExclusiveLease, NoLeakedEntry, Holding
    <2>5. /\ pc'[r] = "creating"
          /\ \A q \in Requests \ {r} : pc'[q] = pc[q] /\ lease'[q] = lease[q]
      BY <2>1 DEF IInv, TypeOK
    <2>6. Dropped'
      BY <2>5, OthersAwaitNothing DEF IInv, Dropped
    <2>7. Owed' = Owed
      BY <2>5 DEF Owed
    <2> QED BY <2>2, <2>3, <2>4, <2>6, <2>7
  <1> QED BY <1>1, <1>2

LEMMA RetireFirstKeeps ==
  ASSUME IInv, NEW r \in Requests, Running(r), pc[r] \in {"chained", "retiring"},
         NEW time \in 0..MaxTime, NEW available \in SUBSET (1..created),
         NEW expired \in SUBSET (1..created), NEW was \in [Sessions -> Upstream],
         RetireFirst(r, time, available, expired, was),
         UNCHANGED <<now, expiresAt, created, invalidated, media>>,
         entries' \subseteq entries, expired # {}, expired \cap entries' = {}
  PROVE  /\ TypeOK' /\ HeadAwaits' /\ LeasesMarked' /\ ExclusiveLease' /\ NoLeakedEntry'
         /\ Dropped' /\ Owed' = Owed /\ Min(expired) \notin entries'
         /\ Uncounted' = expired \ {Min(expired)}
         /\ \A s \in Sessions : upstream'[s] = IF s = Min(expired) THEN "closing" ELSE was[s]
  <1>1. /\ op' = [time |-> time, available |-> available, expired |-> expired]
        /\ retired' = retired + 1
        /\ upstream' = [was EXCEPT ![Min(expired)] = "closing"]
        /\ pc' = [pc EXCEPT ![r] = "retiring"]
        /\ UNCHANGED <<inUse, lease, chain>>
    BY DEF RetireFirst
  <1>2. upstream' \in [Sessions -> Upstream]
    BY <1>1 DEF Upstream, Gone
  <1>3. TypeOK'
    BY <1>1, <1>2 DEF IInv, TypeOK
  <1>4. HeadAwaits'
    BY <1>1 DEF IInv, TypeOK, HeadAwaits, Running
  <1>5. LeasesMarked' /\ ExclusiveLease' /\ NoLeakedEntry'
    BY <1>1 DEF IInv, TypeOK, LeasesMarked, ExclusiveLease, NoLeakedEntry, Holding
  <1>6. Uncounted' = expired \ {Min(expired)}
    BY <1>1 DEF IInv, TypeOK, Uncounted
  <1>7. \A s \in Sessions : upstream'[s] = IF s = Min(expired) THEN "closing" ELSE was[s]
    BY <1>1
  <1>8. /\ pc'[r] = "retiring"
        /\ \A q \in Requests \ {r} : pc'[q] = pc[q] /\ lease'[q] = lease[q]
    BY <1>1 DEF IInv, TypeOK
  <1>9. Dropped'
    BY <1>1, <1>8, OthersAwaitNothing DEF IInv, Dropped
  <1>10. Owed' = Owed
    BY <1>8 DEF Owed
  <1>11. Min(expired) \notin entries'
    <2>1. Min(expired) \in expired
      BY MinIsMember DEF IInv, TypeOK
    <2> QED BY <2>1
  <1> QED BY <1>3, <1>4, <1>5, <1>6, <1>7, <1>9, <1>10, <1>11

(* Nobody retires while the head of the chain is at another step.          *)
LEMMA OnlyTheHeadRetires ==
  ASSUME IInv, NEW r \in Requests, Running(r), pc[r] # "retiring"
  PROVE  Uncounted = {}
  BY DEF IInv, HeadAwaits, Running, Uncounted

LEMMA BeginKeeps == ASSUME IInv, NEW r \in Requests, Begin(r) PROVE IInv'
  <1> DEFINE expired   == {s \in entries \ inUse : expiresAt[s] <= now}
             available == entries \ expired
  <1>1. /\ Running(r) /\ pc[r] = "chained" /\ entries' = available
        /\ UNCHANGED <<now, expiresAt, created, invalidated, media>>
        /\ \/ expired = {} /\ Choose(r, now, available) /\ UNCHANGED <<retired, upstream>>
           \/ expired # {} /\ RetireFirst(r, now, available, expired, upstream)
    BY DEF Begin
  <1>2. /\ available \in SUBSET (1..created) /\ expired \in SUBSET (1..created)
        /\ entries' \subseteq entries /\ entries = available \cup expired
        /\ now \in 0..MaxTime /\ upstream \in [Sessions -> Upstream]
    BY <1>1 DEF IInv, TypeOK
  <1>3. \A s \in Sessions :
          /\ upstream[s] = "open" => s \in entries \cup Owed
          /\ upstream[s] \in Gone => s \notin entries
    BY <1>1, OnlyTheHeadRetires DEF IInv, NoForgottenSession
  <1>4. expired \cap entries' = {}
    BY <1>1
  <1> HIDE DEF expired, available
  <1>5. CASE expired = {}
    <2>1. Choose(r, now, available) /\ UNCHANGED <<retired, upstream>>
      BY <1>1, <1>5
    <2>2. /\ TypeOK' /\ HeadAwaits' /\ LeasesMarked' /\ ExclusiveLease' /\ NoLeakedEntry'
          /\ Dropped' /\ Owed' = Owed
      BY <1>1, <1>2, <2>1, ChooseKeeps
    <2>3. NoForgottenSession'
      BY <1>1, <1>2, <1>3, <1>5, <2>1, <2>2 DEF NoForgottenSession
    <2> QED BY <2>2, <2>3 DEF IInv
  <1>6. CASE expired # {}
    <2>1. RetireFirst(r, now, available, expired, upstream)
      BY <1>1, <1>6
    <2>2. /\ TypeOK' /\ HeadAwaits' /\ LeasesMarked' /\ ExclusiveLease' /\ NoLeakedEntry'
          /\ Dropped' /\ Owed' = Owed /\ Min(expired) \notin entries'
          /\ Uncounted' = expired \ {Min(expired)}
          /\ \A s \in Sessions :
               upstream'[s] = IF s = Min(expired) THEN "closing" ELSE upstream[s]
      BY <1>1, <1>2, <1>4, <1>6, <2>1, RetireFirstKeeps
    <2>3. NoForgottenSession'
      BY <1>1, <1>2, <1>3, <2>2 DEF NoForgottenSession
    <2> QED BY <2>2, <2>3 DEF IInv
  <1> QED BY <1>5, <1>6

LEMMA RetireSettlesKeeps == ASSUME IInv, NEW r \in Requests, RetireSettles(r) PROVE IInv'
  <1> DEFINE next == Min(op.expired)
             rest == op.expired \ {next}
             was  == [upstream EXCEPT ![next] = "closed"]
  <1>1. /\ Running(r) /\ pc[r] = "retiring"
        /\ \/ /\ rest = {} /\ Choose(r, op.time, op.available)
              /\ upstream' = was /\ UNCHANGED retired
           \/ rest # {} /\ RetireFirst(r, op.time, op.available, rest, was)
        /\ UNCHANGED <<now, entries, expiresAt, created, invalidated, media>>
    BY DEF RetireSettles
  <1>2. /\ op.time \in 0..MaxTime /\ op.available \in SUBSET (1..created)
        /\ rest \in SUBSET (1..created)
    BY DEF IInv, TypeOK
  <1>3. was \in [Sessions -> Upstream]
    BY DEF IInv, TypeOK, Upstream, Gone
  <1>4. Uncounted = rest
    BY <1>1 DEF Uncounted
  <1>8. op.expired # {} /\ op.expired \cap entries = {} /\ op.expired \in SUBSET Nat
    BY <1>1 DEF IInv, TypeOK, Dropped
  <1>9. next \notin entries /\ rest \cap entries' = {}
    <2>1. Min(op.expired) \in op.expired
      BY <1>8, MinIsMember
    <2> QED BY <1>1, <1>8, <2>1
  <1>5. \A s \in Sessions :
          /\ was[s] = "open" => s \in entries \cup rest \cup Owed
          /\ was[s] \in Gone => s \notin entries
    BY <1>4, <1>9 DEF IInv, TypeOK, NoForgottenSession
  <1> HIDE DEF next, rest, was
  <1>6. CASE rest = {}
    <2>1. Choose(r, op.time, op.available) /\ upstream' = was /\ UNCHANGED retired
      BY <1>1, <1>6
    <2>2. /\ TypeOK' /\ HeadAwaits' /\ LeasesMarked' /\ ExclusiveLease' /\ NoLeakedEntry'
          /\ Dropped' /\ Owed' = Owed
      BY <1>1, <1>2, <1>3, <2>1, ChooseKeeps
    <2>3. NoForgottenSession'
      BY <1>1, <1>5, <1>6, <2>1, <2>2 DEF NoForgottenSession
    <2> QED BY <2>2, <2>3 DEF IInv
  <1>7. CASE rest # {}
    <2>1. RetireFirst(r, op.time, op.available, rest, was)
      BY <1>1, <1>7
    <2>2. /\ TypeOK' /\ HeadAwaits' /\ LeasesMarked' /\ ExclusiveLease' /\ NoLeakedEntry'
          /\ Dropped' /\ Owed' = Owed /\ Min(rest) \notin entries'
          /\ Uncounted' = rest \ {Min(rest)}
          /\ \A s \in Sessions : upstream'[s] = IF s = Min(rest) THEN "closing" ELSE was[s]
      BY <1>1, <1>2, <1>3, <1>7, <1>9, <2>1, RetireFirstKeeps
    <2>3. NoForgottenSession'
      BY <1>1, <1>5, <2>2 DEF NoForgottenSession
    <2> QED BY <2>2, <2>3 DEF IInv
  <1> QED BY <1>6, <1>7

LEMMA CreateSucceedsKeeps == ASSUME IInv, NEW r \in Requests, CreateSucceeds(r) PROVE IInv'
  <1> DEFINE s == created + 1
  <1>1. /\ Running(r) /\ pc[r] = "creating" /\ created < MaxSessions
        /\ created' = s
        /\ upstream' = [upstream EXCEPT ![s] = "open"]
        /\ expiresAt' = [expiresAt EXCEPT ![s] = op.time + Lifetime(r)]
        /\ inUse' = inUse \cup {s}
        /\ entries' = entries \cup {s}
        /\ lease' = [lease EXCEPT ![r] = s]
        /\ pc' = [pc EXCEPT ![r] = "leased"]
        /\ chain' = Tail(chain) /\ op' = NoOp
        /\ UNCHANGED <<now, retired, invalidated, media>>
    BY DEF CreateSucceeds, CurrentEntries
  <1>2. s \in Sessions /\ s \notin 0..created /\ 0..created \subseteq 0..s
    BY <1>1, PoolAssumption DEF IInv, TypeOK, Sessions
  <1>3. TypeOK'
    <2>1. chain' \in Seq(Requests)
      BY <1>1 DEF IInv, TypeOK, Running
    <2>2. op.time + Lifetime(r) \in 0..(MaxTime + Ttl)
      BY PoolAssumption DEF IInv, TypeOK, Lifetime
    <2>3. expiresAt' \in [Sessions -> 0..(MaxTime + Ttl)]
      BY <1>1, <2>2 DEF IInv, TypeOK
    <2>4. upstream' \in [Sessions -> Upstream]
      BY <1>1 DEF IInv, TypeOK, Upstream, Gone
    <2>5. op' \in [time : 0..MaxTime, available : SUBSET (1..created'),
                   expired : SUBSET (1..created')]
      BY <1>1, PoolAssumption DEF NoOp
    <2>6. created' \in 0..MaxSessions /\ entries' \subseteq 1..created' /\ inUse' \subseteq 1..created'
      BY <1>1, <1>2, PoolAssumption DEF IInv, TypeOK
    <2>7. lease' \in [Requests -> 0..created']
      <3>1. s \in 0..s
        BY DEF IInv, TypeOK
      <3> QED BY <1>1, <1>2, <3>1 DEF IInv, TypeOK
    <2>8. pc' \in [Requests -> {"idle", "chained", "retiring", "creating", "leased",
                                 "tokening", "closing"}]
      BY <1>1 DEF IInv, TypeOK
    <2> QED BY <1>1, <2>1, <2>3, <2>4, <2>5, <2>6, <2>7, <2>8 DEF IInv, TypeOK
  <1>4. HeadAwaits'
    BY <1>1 DEF IInv, TypeOK, HeadAwaits, Running
  <1>5. \A q \in Requests : lease[q] # s
    BY <1>2 DEF IInv, TypeOK
  <1>6. s \notin entries /\ s \notin inUse
    BY DEF IInv, TypeOK
  <1>7. Uncounted = {}
    BY <1>1, OnlyTheHeadRetires
  <1>8. \A t \in Sessions :
          /\ upstream[t] = "open" => t \in entries \cup Owed
          /\ upstream[t] \in Gone => t \notin entries
    BY <1>7 DEF IInv, NoForgottenSession
  <1>12. /\ pc'[r] = "leased"
         /\ \A q \in Requests \ {r} : pc'[q] = pc[q] /\ lease'[q] = lease[q]
    BY <1>1 DEF IInv, TypeOK
  <1>13. Owed' = Owed
    BY <1>1, <1>12 DEF Owed
  <1>14. Dropped'
    BY <1>1, <1>5, <1>12, OthersAwaitNothing DEF IInv, Dropped
  <1> HIDE DEF s
  <1>9. LeasesMarked' /\ ExclusiveLease'
    BY <1>1, <1>5, <1>6 DEF IInv, TypeOK, LeasesMarked, ExclusiveLease, Holding
  <1>10. NoLeakedEntry'
    BY <1>1, <1>5, <1>6 DEF IInv, TypeOK, NoLeakedEntry, Holding
  <1>11. NoForgottenSession'
    <2>1. "open" \notin Gone
      BY DEF Gone
    <2> QED BY <1>1, <1>2, <1>8, <1>13, <2>1 DEF IInv, TypeOK, NoForgottenSession
  <1> QED BY <1>3, <1>4, <1>9, <1>10, <1>11, <1>14 DEF IInv

LEMMA CreateFailsKeeps == ASSUME IInv, NEW r \in Requests, CreateFails(r) PROVE IInv'
  <1> USE DEF CreateFails
  <1>1. TypeOK'
    <2>1. chain' \in Seq(Requests)
      BY DEF IInv, TypeOK, Running
    <2>2. op' \in [time : 0..MaxTime, available : SUBSET (1..created),
                   expired : SUBSET (1..created)]
      BY PoolAssumption DEF NoOp
    <2> QED BY <2>1, <2>2 DEF IInv, TypeOK
  <1>2. HeadAwaits'
    BY DEF IInv, TypeOK, HeadAwaits, Running
  <1>3. LeasesMarked' /\ ExclusiveLease' /\ NoLeakedEntry'
    BY DEF IInv, TypeOK, LeasesMarked, ExclusiveLease, NoLeakedEntry, Holding
  <1>4. NoForgottenSession' /\ Dropped'
    <2>1. Uncounted = {}
      BY OnlyTheHeadRetires
    <2>2. /\ pc'[r] = "idle"
          /\ \A q \in Requests \ {r} : pc'[q] = pc[q] /\ lease'[q] = lease[q]
      BY DEF IInv, TypeOK
    <2>3. Owed' = Owed
      BY <2>2 DEF Owed
    <2>4. Dropped'
      BY <2>2, OthersAwaitNothing DEF IInv, Dropped
    <2> QED BY <2>1, <2>3, <2>4 DEF IInv, NoForgottenSession
  <1> QED BY <1>1, <1>2, <1>3, <1>4 DEF IInv

(* The end of a lease.  Whatever the map lists by then, a request touches  *)
(* the mark and the entry of its own session only.                         *)

LEMMA LeaseEnds ==
  ASSUME IInv, NEW r \in Requests, pc[r] = "leased",
         NEW to \in {"idle", "tokening", "closing"}, pc' = [pc EXCEPT ![r] = to],
         lease' \in {lease, [lease EXCEPT ![r] = 0]},
         entries' \in {entries, entries \ {lease[r]}},
         inUse' \in {inUse, inUse \ {lease[r]}},
         lease[r] \notin entries' \cap inUse',
         retired' \in Nat, invalidated' \in Nat, media' \subseteq Requests,
         UNCHANGED <<now, expiresAt, created, chain, op>>,
         to # "idle" => lease' = lease /\ lease[r] \notin entries',
         \/ upstream' = upstream /\ (lease[r] \notin entries \/ entries' = entries \/ to = "tokening")
         \/ upstream' = [upstream EXCEPT ![lease[r]] = "closing"] /\ lease[r] \notin entries'
  PROVE  IInv'
  <1>1. TypeOK'
    <2>1. upstream' \in [Sessions -> Upstream]
      BY DEF IInv, TypeOK, Upstream, Gone
    <2>2. lease' \in [Requests -> 0..created]
      <3>1. lease \in [Requests -> 0..created] /\ 0 \in 0..created
        BY DEF IInv, TypeOK
      <3>2. [lease EXCEPT ![r] = 0] \in [Requests -> 0..created]
        BY <3>1
      <3> QED BY <3>1, <3>2
    <2> QED BY <2>1, <2>2 DEF IInv, TypeOK
  <1>2. HeadAwaits'
    BY DEF IInv, TypeOK, HeadAwaits, Running
  <1>3. \A q \in Requests : Holding(q)' => Holding(q) /\ q # r /\ lease'[q] = lease[q]
    BY DEF IInv, TypeOK, Holding
  <1>4. \A q \in Requests \ {r} : Holding(q) => Holding(q)' /\ lease[q] # lease[r]
    BY DEF IInv, TypeOK, Holding, ExclusiveLease
  <1>5. LeasesMarked' /\ ExclusiveLease'
    BY <1>3, <1>4 DEF IInv, LeasesMarked, ExclusiveLease
  <1>6. NoLeakedEntry'
    <2> SUFFICES ASSUME NEW s \in entries' \cap inUse'
                 PROVE  \E q \in Requests : Holding(q)' /\ lease'[q] = s
      BY DEF NoLeakedEntry
    <2>1. s \in entries \cap inUse /\ s # lease[r]
      OBVIOUS
    <2>2. PICK q \in Requests : Holding(q) /\ lease[q] = s
      BY <2>1 DEF IInv, NoLeakedEntry
    <2>3. q # r
      BY <2>1, <2>2
    <2> QED BY <1>3, <1>4, <2>2, <2>3
  <1>7. Uncounted' = Uncounted
    BY DEF IInv, TypeOK, Uncounted
  <1>9. /\ pc'[r] = to
        /\ \A q \in Requests \ {r} : pc'[q] = pc[q] /\ lease'[q] = lease[q]
    BY DEF IInv, TypeOK
  <1>10. Dropped'
    BY <1>9 DEF IInv, Dropped
  <1>11. /\ Owed \subseteq Owed'
         /\ to = "tokening" => lease[r] \in Owed'
    BY <1>9 DEF Owed
  <1>8. NoForgottenSession'
    <2> SUFFICES ASSUME NEW s \in Sessions
                 PROVE  /\ upstream'[s] = "open" => s \in entries' \cup Uncounted' \cup Owed'
                        /\ upstream'[s] \in Gone => s \notin entries'
      BY DEF NoForgottenSession
    <2>1. /\ upstream[s] = "open" => s \in entries \cup Uncounted \cup Owed
          /\ upstream[s] \in Gone => s \notin entries
      BY DEF IInv, NoForgottenSession
    <2>2. CASE s = lease[r]
      <3>1. upstream' = [upstream EXCEPT ![lease[r]] = "closing"] => upstream'[s] = "closing"
        BY <2>2 DEF IInv, TypeOK
      <3> QED BY <1>7, <1>11, <2>1, <2>2, <3>1
    <2>3. CASE s # lease[r]
      <3>1. upstream'[s] = upstream[s] /\ (s \in entries' <=> s \in entries)
        BY <2>3 DEF IInv, TypeOK
      <3> QED BY <1>7, <1>11, <2>1, <3>1
    <2> QED BY <2>2, <2>3
  <1> QED BY <1>1, <1>2, <1>5, <1>6, <1>8, <1>10 DEF IInv

LEMMA ReleaseKeeps == ASSUME IInv, NEW r \in Requests, Release(r) PROVE IInv'
  <1> USE DEF Release, GoIdle, CloseUpstream, DropEntry
  <1>1. retired' \in Nat /\ invalidated' \in Nat /\ media' \subseteq Requests
    BY DEF IInv, TypeOK
  <1>2. CASE lease[r] \notin entries
    BY <1>1, <1>2, LeaseEnds
  <1>3. CASE lease[r] \in entries /\ expiresAt[lease[r]] > now
    BY <1>1, <1>3, LeaseEnds
  <1>4. CASE lease[r] \in entries /\ expiresAt[lease[r]] <= now
    BY <1>1, <1>4, LeaseEnds
  <1> QED BY <1>2, <1>3, <1>4

LEMMA InvalidateKeeps == ASSUME IInv, NEW r \in Requests, Invalidate(r) PROVE IInv'
  <1> USE DEF Invalidate, GoIdle, CloseUpstream, Delete, DropEntry
  <1>1. retired' \in Nat /\ invalidated' \in Nat /\ media' \subseteq Requests
    BY DEF IInv, TypeOK
  <1>2. CASE lease[r] \notin entries
    BY <1>1, <1>2, LeaseEnds
  <1>3. CASE lease[r] \in entries
    BY <1>1, <1>3, LeaseEnds
  <1> QED BY <1>2, <1>3

(* What becomes of a session that is no longer listed: its delete is sent, *)
(* given up for want of a token, or settles.                               *)
LEMMA DroppedSettles ==
  ASSUME IInv, NEW r \in Requests, pc[r] \in {"tokening", "closing"},
         NEW to \in {"idle", "closing"}, pc' = [pc EXCEPT ![r] = to],
         lease' \in {lease, [lease EXCEPT ![r] = 0]},
         NEW fate \in Gone, upstream' = [upstream EXCEPT ![lease[r]] = fate],
         media' \subseteq Requests,
         UNCHANGED <<now, entries, expiresAt, inUse, created, retired, invalidated, chain, op>>,
         lease[r] \notin entries
  PROVE  IInv'
  <1>1. upstream' \in [Sessions -> Upstream]
    BY DEF IInv, TypeOK, Upstream
  <1>2. TypeOK'
    <2>1. lease \in [Requests -> 0..created] /\ 0 \in 0..created
      BY DEF IInv, TypeOK
    <2>2. lease' \in [Requests -> 0..created]
      BY <2>1
    <2> QED BY <1>1, <2>2 DEF IInv, TypeOK
  <1>3. /\ pc'[r] = to
        /\ \A q \in Requests \ {r} : pc'[q] = pc[q] /\ lease'[q] = lease[q]
    BY DEF IInv, TypeOK
  <1>4. HeadAwaits' /\ LeasesMarked' /\ ExclusiveLease' /\ NoLeakedEntry'
    BY <1>3 DEF IInv, HeadAwaits, Running, LeasesMarked, ExclusiveLease, NoLeakedEntry, Holding
  <1>5. Dropped'
    <2>1. lease'[r] \notin entries /\ UNCHANGED <<entries, op>>
      BY DEF IInv, TypeOK
    <2> QED BY <1>3, <2>1 DEF IInv, Dropped
  <1>6. Uncounted' = Uncounted
    BY DEF IInv, TypeOK, Uncounted
  <1>7. Owed \subseteq Owed' \cup {lease[r]}
    BY <1>3 DEF Owed
  <1>8. \A s \in Sessions : upstream'[s] = IF s = lease[r] THEN fate ELSE upstream[s]
    BY DEF IInv, TypeOK
  <1>9. NoForgottenSession'
    BY <1>6, <1>7, <1>8 DEF IInv, NoForgottenSession, Gone
  <1> QED BY <1>2, <1>4, <1>5, <1>9 DEF IInv

LEMMA TokenKeeps ==
  ASSUME IInv, NEW r \in Requests, TokenComes(r) \/ TokenRefused(r) PROVE IInv'
  <1>1. pc[r] = "tokening" /\ lease[r] \notin entries
    BY DEF TokenComes, TokenRefused, IInv, Dropped
  <1>2. CASE TokenComes(r)
    <2>1. media' \subseteq Requests
      BY <1>2 DEF TokenComes, Delete, IInv, TypeOK
    <2> QED BY <1>1, <1>2, <2>1, DroppedSettles DEF TokenComes, Delete, Gone
  <1>3. CASE TokenRefused(r)
    <2>1. media' \subseteq Requests
      BY <1>3 DEF TokenRefused, GoIdle, IInv, TypeOK
    <2> QED BY <1>1, <1>3, <2>1, DroppedSettles DEF TokenRefused, GoIdle, Gone
  <1> QED BY <1>2, <1>3

LEMMA CloseSettlesKeeps == ASSUME IInv, NEW r \in Requests, CloseSettles(r) PROVE IInv'
  <1>1. media' \subseteq Requests /\ lease[r] \notin entries
    BY DEF CloseSettles, GoIdle, IInv, TypeOK, Dropped
  <1> QED BY <1>1, DroppedSettles DEF CloseSettles, GoIdle, Gone

LEMMA PoolStep == IInv /\ [Next]_vars => IInv'
  <1> SUFFICES ASSUME IInv, [Next]_vars PROVE IInv'
    OBVIOUS
  <1>1. CASE UNCHANGED vars
    BY <1>1 DEF IInv, TypeOK, HeadAwaits, Running, LeasesMarked, ExclusiveLease,
                NoLeakedEntry, Dropped, NoForgottenSession, Uncounted, Owed, Holding, vars
  <1>2. CASE Tick
    BY <1>2, TickKeeps
  <1>3. ASSUME NEW r \in Requests, NEW hasMedia \in BOOLEAN, CallAcquire(r, hasMedia)
        PROVE  IInv'
    BY <1>3, CallAcquireKeeps
  <1>4. ASSUME NEW r \in Requests, AcquireStep(r)
        PROVE  IInv'
    BY <1>4, BeginKeeps, RetireSettlesKeeps, CreateSucceedsKeeps, CreateFailsKeeps
       DEF AcquireStep
  <1>5. ASSUME NEW r \in Requests,
               \/ Release(r) \/ Invalidate(r)
               \/ TokenComes(r) \/ TokenRefused(r) \/ CloseSettles(r)
        PROVE  IInv'
    BY <1>5, ReleaseKeeps, InvalidateKeeps, TokenKeeps, CloseSettlesKeeps
  <1> QED BY <1>1, <1>2, <1>3, <1>4, <1>5 DEF Next

(* The array that the running acquire read before its awaits and the pool  *)
(* as it is now agree on what is leased and on what was retired (:44-86).  *)
THEOREM PoolInvariant == Spec => []IInv
  BY PoolInit, PoolStep, PTL DEF Spec

(* No two requests share an upstream conversation, for every number of     *)
(* requests and every lifetime, although an acquire leases from an array   *)
(* it read before its awaits (deepseek-session-pool.ts:57-65).             *)
THEOREM PoolExclusiveLease == Spec => []ExclusiveLease
  BY PoolInvariant, PTL DEF IInv

(* An entry in use has a user who will give it back (:69-75, 86).          *)
THEOREM PoolLeaksNoEntry == Spec => []NoLeakedEntry
  BY PoolInvariant, PTL DEF IInv

(* A conversation that is open at the provider is listed, is due in the    *)
(* running acquire or is about to be deleted by a request that awaits a    *)
(* token; one that was deleted or had to be given up is never listed again *)
(* (:44-58, 73; deepseek.ts:271-300).                                      *)
THEOREM PoolForgetsNoSession == Spec => []NoForgottenSession
  BY PoolInvariant, PTL DEF IInv

-----------------------------------------------------------------------------
(* The text of an answer, however the network cuts it.                     *)

(* Induction over the naturals, for a set rather than for a predicate: what*)
(* holds of 0 and of every successor holds throughout.                     *)
LEMMA NatSets ==
  ASSUME NEW S, 0 \in S, \A n \in Nat : n \in S => n + 1 \in S
  PROVE  Nat \subseteq S
  <1>1. SUFFICES ASSUME Nat \ S # {} PROVE FALSE
    OBVIOUS
  <1>2. \E x \in Nat \ S : \A y \in Nat \ S : <<y, x>> \notin OpToRel(<, Nat)
    BY <1>1, WFMin, NatLessThanWellFounded
  <1>3. PICK x \in Nat \ S : \A y \in Nat \ S : ~ (y < x)
    BY <1>2 DEF OpToRel
  <1>4. x # 0 /\ x - 1 \in Nat
    BY <1>3
  <1>5. x - 1 \in S
    BY <1>3, <1>4
  <1> QED BY <1>3, <1>4, <1>5

(* ReadOn is what its recursion says: there is a reader for every prefix of*)
(* what came, each the one before with the line that ends there consumed.  *)
LEMMA ReadingSteps ==
  ASSUME NEW start, NEW symbols, Len(symbols) \in Nat
  PROVE  \E reader :
           /\ reader[0] = start
           /\ \A i \in 1..Len(symbols) :
                reader[i] = IF EndsLine(symbols, i) THEN Consumed(reader[i - 1], Parsed(symbols, i))
                            ELSE reader[i - 1]
           /\ ReadOn(start, symbols) = reader[Len(symbols)]
  <1> DEFINE Next_(g, i) == IF i = 0 THEN start
                            ELSE IF EndsLine(symbols, i) THEN Consumed(g[i - 1], Parsed(symbols, i))
                            ELSE g[i - 1]
             S == {n \in Nat : \E g : g = [i \in 0..n |-> Next_(g, i)]}
  <1>1. 0 \in S
    <2> DEFINE g == [i \in 0..0 |-> start]
    <2>1. g = [i \in 0..0 |-> Next_(g, i)]
      OBVIOUS
    <2> QED BY <2>1
  <1>2. ASSUME NEW n \in Nat, n \in S PROVE n + 1 \in S
    <2>1. PICK g : g = [i \in 0..n |-> Next_(g, i)]
      BY <1>2
    <2> DEFINE h == [i \in 0..(n + 1) |-> IF i <= n THEN g[i] ELSE Next_(g, n + 1)]
    <2>2. ASSUME NEW i \in 0..(n + 1) PROVE h[i] = Next_(h, i)
      <3>1. CASE i = 0
        <4>1. h[i] = g[i]
          BY <3>1
        <4>2. g[i] = Next_(g, i)
          BY <2>1, <3>1
        <4> QED BY <3>1, <4>1, <4>2
      <3>2. CASE i \in 1..n
        <4>1. h[i] = g[i] /\ h[i - 1] = g[i - 1]
          BY <3>2
        <4>2. g[i] = Next_(g, i)
          BY <2>1, <3>2
        <4> QED BY <3>2, <4>1, <4>2
      <3>3. CASE i = n + 1
        <4>1. h[i] = Next_(g, n + 1) /\ h[i - 1] = g[i - 1]
          BY <3>3
        <4> QED BY <3>3, <4>1
      <3> QED BY <3>1, <3>2, <3>3
    <2> HIDE DEF Next_
    <2>3. h = [i \in 0..(n + 1) |-> Next_(h, i)]
      BY <2>2
    <2> HIDE DEF h
    <2> QED BY <2>3
  <1> HIDE DEF Next_
  <1>3. Len(symbols) \in S
    BY <1>1, <1>2, NatSets
  <1> DEFINE reader == CHOOSE g : g = [i \in 0..Len(symbols) |-> Next_(g, i)]
  <1>4. reader = [i \in 0..Len(symbols) |-> Next_(reader, i)]
    BY <1>3
  <1>5. ReadOn(start, symbols) = reader[Len(symbols)]
    BY DEF ReadOn, Next_
  <1> HIDE DEF reader
  <1>6. \A i \in 0..Len(symbols) : reader[i] = Next_(reader, i)
    BY <1>4
  <1> QED BY <1>5, <1>6 DEF Next_

(* Everything that may be a line of an answer.                             *)
Spoken == Events \cup {DoneEvent} \cup Envelopes

(* The answers there are: [DONE] comes last, a JSON envelope comes alone.  *)
ScriptOk ==
  /\ script \in Seq(Spoken) /\ Len(script) > 0
  /\ \A n \in 1..Len(script) :
       /\ script[n].kind = "done" => n = Len(script)
       /\ script[n].kind = "envelope" => Len(script) = 1

(* The first k lines that count: those before an error.                    *)
Heard(k) == {n \in 1..k : \A m \in 1..n : script[m].kind # "error"}

(* Those of them with a text on path p.                                    *)
HeardOn(p, k) == {n \in Heard(k) : HasText(script[n]) /\ PathOf(n) = p}

(* What a reader of the stream may look like.                              *)
Readers ==
  [at : {"reading", "ended", "failed"}, code : {"none"} \cup ChunkCodes, path : Paths,
   texts : [Paths -> Seq(Nat)], plain : Seq(Spoken)]

(* What is kept of the lines that are no events tells an envelope from them.*)
PlainTells(lines, k) ==
  IF script[1].kind = "envelope" THEN lines = IF k = 0 THEN <<>> ELSE <<script[1]>>
  ELSE \A i \in 1..Len(lines) : lines[i].kind # "envelope"

(* The reader has read k lines, and tells exactly what they said.          *)
Tells(reader, k, damaged) ==
  /\ \A p \in Paths : InOrder(reader.texts[p], HeardOn(p, k), damaged)
  /\ reader.at = "failed" =>
       \E e \in 1..k : /\ script[e].kind = "error" /\ reader.code = script[e].code
                       /\ \A m \in 1..(e - 1) : script[m].kind # "error"
  /\ reader.at # "failed" => reader.code = "none" /\ \A m \in 1..k : script[m].kind # "error"
  /\ reader.at = "ended" => stream /\ k = Len(script) /\ script[k].kind = "done"
  /\ reader.at = "reading" => reader.path = PathOf(k)
  /\ PlainTells(reader.plain, k)

(* The kinds of lines and what each carries.                               *)
LEMMA SpokenKinds ==
  ASSUME NEW e \in Spoken
  PROVE  /\ e.kind \in {"fragment", "switch", "string", "comment", "error", "done", "envelope"}
         /\ e.kind \in {"fragment", "switch"} => e.path \in Paths
         /\ e.kind = "error" => e.code \in ChunkCodes
         /\ e.kind = "envelope" => e \in Envelopes
  <1>1. CASE e \in [kind : {"fragment"}, path : Paths, blank : BOOLEAN]
                     \cup [kind : {"switch"}, path : Paths]
    BY <1>1
  <1>2. CASE e \in [kind : {"string"}, blank : BOOLEAN] \cup [kind : {"comment"}] \cup {DoneEvent}
    BY <1>2 DEF DoneEvent
  <1>3. CASE e \in [kind : {"error"}, code : ChunkCodes]
    BY <1>3
  <1>4. CASE e \in Envelopes
    BY <1>4 DEF Envelopes
  <1> QED BY <1>1, <1>2, <1>3, <1>4 DEF Spoken, Events

(* No texts are in order.                                                  *)
LEMMA InOrderEmpty ==
  ASSUME NEW damaged
  PROVE  InOrder(<<>>, {}, damaged)
  <1> DEFINE order == [i \in 1..0 |-> 0]
  <1>1. order \in [1..Len(<<>>) -> {}]
    OBVIOUS
  <1> QED BY <1>1 DEF InOrder

(* Damage to texts that are not there yet changes nothing.                 *)
LEMMA InOrderSame ==
  ASSUME NEW seq \in Seq(Nat), NEW S, NEW T, NEW damaged, NEW more,
         InOrder(seq, S, damaged), T = S, \A n \in S : n \in damaged <=> n \in more
  PROVE  InOrder(seq, T, more)
  <1>1. PICK order \in [1..Len(seq) -> S] :
          /\ \A i, j \in 1..Len(seq) : i < j => order[i] < order[j]
          /\ \A n \in S : \E i \in 1..Len(seq) : order[i] = n
          /\ \A i \in 1..Len(seq) : seq[i] = IF order[i] \in damaged THEN Damaged ELSE order[i]
    BY DEF InOrder
  <1>2. \A i \in 1..Len(seq) : seq[i] = IF order[i] \in more THEN Damaged ELSE order[i]
    BY <1>1
  <1> QED BY <1>1, <1>2 DEF InOrder

(* One more text, after all the others.                                    *)
LEMMA InOrderNext ==
  ASSUME NEW seq \in Seq(Nat), NEW k \in Nat, NEW S \in SUBSET (1..k), NEW damaged,
         NEW text \in Nat, text = IF k + 1 \in damaged THEN Damaged ELSE k + 1,
         InOrder(seq, S, damaged)
  PROVE  InOrder(Append(seq, text), S \cup {k + 1}, damaged)
  <1>1. PICK order \in [1..Len(seq) -> S] :
          /\ \A i, j \in 1..Len(seq) : i < j => order[i] < order[j]
          /\ \A n \in S : \E i \in 1..Len(seq) : order[i] = n
          /\ \A i \in 1..Len(seq) : seq[i] = IF order[i] \in damaged THEN Damaged ELSE order[i]
    BY DEF InOrder
  <1> DEFINE more == Append(seq, text)
             next == [i \in 1..(Len(seq) + 1) |-> IF i <= Len(seq) THEN order[i] ELSE k + 1]
  <1>2. /\ Len(seq) \in Nat /\ Len(more) = Len(seq) + 1
        /\ \A i \in 1..Len(more) : more[i] = IF i <= Len(seq) THEN seq[i] ELSE text
    BY AppendProperties
  <1>3. next \in [1..Len(more) -> S \cup {k + 1}]
    BY <1>1, <1>2
  <1>4. \A i, j \in 1..Len(more) : i < j => next[i] < next[j]
    <2> SUFFICES ASSUME NEW i \in 1..Len(more), NEW j \in 1..Len(more), i < j
                 PROVE  next[i] < next[j]
      OBVIOUS
    <2>0. i \in 1..Len(seq) /\ order[i] \in S
      BY <1>2
    <2>1. order[i] \in 1..k
      BY <2>0
    <2>4. i \in 1..(Len(seq) + 1) /\ i <= Len(seq)
      BY <1>2, <2>0
    <2>5. next[i] = order[i]
      BY <2>4
    <2>2. CASE j <= Len(seq)
      <3>1. next[j] = order[j]
        BY <1>2, <2>2
      <3> QED BY <1>1, <1>2, <2>0, <2>2, <2>5, <3>1
    <2>3. CASE j = Len(seq) + 1
      <3>1. next[j] = k + 1
        BY <1>2, <2>3
      <3> QED BY <2>1, <2>5, <3>1
    <2> QED BY <1>2, <2>2, <2>3
  <1>5. \A n \in S \cup {k + 1} : \E i \in 1..Len(more) : next[i] = n
    <2> SUFFICES ASSUME NEW n \in S \cup {k + 1} PROVE \E i \in 1..Len(more) : next[i] = n
      OBVIOUS
    <2>1. CASE n = k + 1
      <3>1. next[Len(seq) + 1] = n
        BY <1>2, <2>1
      <3> QED BY <1>2, <3>1
    <2>2. CASE n \in S
      BY <1>1, <1>2, <2>2
    <2> QED BY <2>1, <2>2
  <1>6. \A i \in 1..Len(more) : more[i] = IF next[i] \in damaged THEN Damaged ELSE next[i]
    BY <1>1, <1>2
  <1> HIDE DEF more, next
  <1>7. InOrder(more, S \cup {k + 1}, damaged)
    BY <1>3, <1>4, <1>5, <1>6 DEF InOrder
  <1> QED BY <1>7 DEF more

(* Nothing was read exactly when nothing was said.                         *)
LEMMA InOrderNothing ==
  ASSUME NEW seq \in Seq(Nat), NEW S, NEW damaged, InOrder(seq, S, damaged)
  PROVE  seq = <<>> <=> S = {}
  <1>1. PICK order \in [1..Len(seq) -> S] : \A n \in S : \E i \in 1..Len(seq) : order[i] = n
    BY DEF InOrder
  <1> QED BY <1>1

(* The path of a line is the one before, unless the line announces one.    *)
LEMMA PathOfNext ==
  ASSUME ScriptOk, first \in Paths, NEW k \in Nat, k < Len(script), PathOf(k) \in Paths
  PROVE  PathOf(k + 1) = PathAfter(PathOf(k), script[k + 1]) /\ PathOf(k + 1) \in Paths
  <1>1. script[k + 1] \in Spoken
    BY DEF ScriptOk
  <1>2. CASE script[k + 1].kind \in {"fragment", "switch"}
    <2>1. k + 1 \in Announced(k + 1) /\ Announced(k + 1) \subseteq 1..(k + 1)
      BY <1>2 DEF Announced
    <2>2. Max(Announced(k + 1)) = k + 1
      BY <2>1 DEF Max
    <2> QED BY <1>1, <1>2, <2>1, <2>2, SpokenKinds DEF PathOf, PathAfter
  <1>3. CASE script[k + 1].kind \notin {"fragment", "switch"}
    <2>1. Announced(k + 1) = Announced(k)
      BY <1>3 DEF Announced
    <2> QED BY <1>3, <2>1 DEF PathOf, PathAfter
  <1> QED BY <1>2, <1>3

(* Before the first line the path is the one the request chose.            *)
LEMMA PathOfNone ==
  ASSUME first \in Paths
  PROVE  PathOf(0) = first
  BY DEF PathOf, Announced

(* What one more line adds to what is heard on a path.                     *)
LEMMA HeardNext ==
  ASSUME ScriptOk, NEW k \in Nat, k < Len(script), NEW p
  PROVE  HeardOn(p, k + 1) =
           IF /\ \A m \in 1..k : script[m].kind # "error"
              /\ HasText(script[k + 1]) /\ PathOf(k + 1) = p
           THEN HeardOn(p, k) \cup {k + 1} ELSE HeardOn(p, k)
  <1>1. HasText(script[k + 1]) => script[k + 1].kind # "error"
    BY DEF HasText
  <1>2. Heard(k) \subseteq Heard(k + 1) /\ Heard(k + 1) \subseteq Heard(k) \cup {k + 1}
    BY DEF Heard
  <1>3. k + 1 \in Heard(k + 1) <=> \A m \in 1..(k + 1) : script[m].kind # "error"
    BY DEF Heard
  <1> QED BY <1>1, <1>2, <1>3 DEF HeardOn

(* What is heard is among the lines told.                                  *)
LEMMA HeardInLines ==
  ASSUME NEW k \in Nat, NEW p
  PROVE  HeardOn(p, k) \in SUBSET (1..k)
  BY DEF HeardOn, Heard

(* What one more line leaves of what was told before.                      *)
LEMMA ToldStill ==
  ASSUME ScriptOk, NEW k \in Nat, k < Len(script), NEW damaged, NEW reader \in Readers,
         Tells(reader, k, damaged), NEW p \in Paths,
         \/ \E m \in 1..k : script[m].kind = "error"
         \/ ~HasText(script[k + 1]) \/ PathOf(k + 1) # p
  PROVE  InOrder(reader.texts[p], HeardOn(p, k + 1), damaged)
  <1>1. HeardOn(p, k + 1) = HeardOn(p, k)
    BY HeardNext
  <1>2. InOrder(reader.texts[p], HeardOn(p, k), damaged)
    BY DEF Tells
  <1> QED BY <1>1, <1>2

(* A line consumed: the reader tells one line more                         *)
(* (DeepSeekEventDecoder.process, and the loops of both handlers).         *)
LEMMA ConsumedTells ==
  ASSUME ScriptOk, stream \in BOOLEAN, first \in Paths,
         NEW k \in Nat, k < Len(script), NEW damaged,
         NEW reader \in Readers, Tells(reader, k, damaged), NEW line,
         line.event = script[k + 1],
         HasText(script[k + 1]) => line.text = IF k + 1 \in damaged THEN Damaged ELSE k + 1
  PROVE  Consumed(reader, line) \in Readers /\ Tells(Consumed(reader, line), k + 1, damaged)
  <1> DEFINE event == script[k + 1]
  <1> SUFFICES ASSUME NEW p, p = PathAfter(reader.path, event),
                      NEW after, after = Consumed(reader, line)
               PROVE  after \in Readers /\ Tells(after, k + 1, damaged)
    OBVIOUS
  <1>1. event \in Spoken
    BY DEF ScriptOk
  <1>2. event.kind \in {"fragment", "switch", "string", "comment", "error", "done", "envelope"}
    BY <1>1, SpokenKinds
  <1>3. CASE reader.at = "failed"
    <2>1. after = reader
      BY <1>3 DEF Consumed
    <2>2. \E e \in 1..k : script[e].kind = "error"
      BY <1>3 DEF Tells
    <2>3. PlainTells(reader.plain, k + 1)
      <3>1. script[1].kind # "envelope"
        BY <2>2, HeardInLines DEF ScriptOk
      <3> QED BY <3>1 DEF Tells, PlainTells
    <2>4. \A q \in Paths : InOrder(reader.texts[q], HeardOn(q, k + 1), damaged)
      BY <2>2, ToldStill
    <2>5. \E e \in 1..(k + 1) : /\ script[e].kind = "error" /\ reader.code = script[e].code
                                /\ \A m \in 1..(e - 1) : script[m].kind # "error"
      <3>1. PICK e \in 1..k : /\ script[e].kind = "error" /\ reader.code = script[e].code
                              /\ \A m \in 1..(e - 1) : script[m].kind # "error"
        BY <1>3 DEF Tells
      <3> QED BY <3>1
    <2> QED BY <1>3, <2>1, <2>3, <2>4, <2>5 DEF Tells
  <1>4. CASE reader.at = "ended"
    BY <1>4 DEF Tells
  <1>5. CASE reader.at = "reading"
    <2>1. /\ reader.code = "none" /\ reader.path = PathOf(k)
          /\ \A m \in 1..k : script[m].kind # "error"
      BY <1>5 DEF Tells
    <2>2. PathOf(k + 1) = p /\ p \in Paths
      BY <2>1, PathOfNext DEF Readers
    <2>3. (k = 0 /\ reader.plain = <<>>) \/ script[1].kind # "envelope"
      BY DEF Tells, PlainTells, ScriptOk
    <2>4. event.kind = "envelope" => k = 0 /\ Len(script) = 1
      BY DEF ScriptOk
    <2>5. event.kind # "envelope" => script[1].kind # "envelope"
      BY DEF ScriptOk
    <2>6. event.kind \notin {"comment", "envelope"} => PlainTells(reader.plain, k + 1)
      BY <2>5 DEF Tells, PlainTells
    <2>7. ~HasText(event) => \A q \in Paths : InOrder(reader.texts[q], HeardOn(q, k + 1), damaged)
      BY ToldStill
    <2>8. CASE event.kind = "error"
      <3>1. after = [reader EXCEPT !.at = "failed", !.code = event.code] /\ ~HasText(event)
        BY <1>5, <2>8 DEF Consumed, HasText
      <3>2. /\ after \in Readers /\ after.at = "failed" /\ after.code = event.code
            /\ after.texts = reader.texts /\ after.plain = reader.plain
        BY <1>1, <2>8, <3>1, SpokenKinds DEF Readers
      <3> QED BY <2>1, <2>6, <2>7, <2>8, <3>1, <3>2 DEF Tells
    <2>9. CASE event.kind = "done"
      <3>1. after = [reader EXCEPT !.at = IF stream THEN "ended" ELSE @] /\ ~HasText(event)
        BY <1>5, <2>9 DEF Consumed, HasText
      <3>2. /\ after \in Readers /\ after.at = (IF stream THEN "ended" ELSE "reading")
            /\ after.code = "none" /\ after.path = reader.path
            /\ after.texts = reader.texts /\ after.plain = reader.plain
        BY <1>5, <2>1, <3>1 DEF Readers
      <3>3. k + 1 = Len(script) /\ p = reader.path
        BY <2>9 DEF ScriptOk, PathAfter
      <3> QED BY <2>1, <2>2, <2>6, <2>7, <2>9, <3>1, <3>2, <3>3 DEF Tells
    <2>10. CASE event.kind \in {"comment", "envelope"}
      <3>1. after = [reader EXCEPT !.plain = Append(@, event)] /\ ~HasText(event)
        BY <1>5, <2>10 DEF Consumed, HasText
      <3>2. /\ after \in Readers /\ after.at = "reading" /\ after.code = "none"
            /\ after.path = reader.path /\ after.texts = reader.texts
            /\ after.plain = Append(reader.plain, event)
        <4>1. reader.plain \in Seq(Spoken) /\ Append(reader.plain, event) \in Seq(Spoken)
          BY <1>1, AppendProperties DEF Readers
        <4> QED BY <1>5, <2>1, <3>1, <4>1 DEF Readers
      <3>3. PlainTells(after.plain, k + 1)
        <4>1. CASE event.kind = "envelope"
          BY <2>4, <3>2, <4>1 DEF Tells, PlainTells
        <4>2. CASE event.kind # "envelope"
          <5>1. \A i \in 1..Len(reader.plain) : reader.plain[i].kind # "envelope"
            BY <2>5, <4>2 DEF Tells, PlainTells
          <5>2. reader.plain \in Seq(Spoken)
            BY DEF Readers
          <5>3. \A i \in 1..Len(after.plain) : after.plain[i] = event \/ \E j \in 1..Len(reader.plain) : after.plain[i] = reader.plain[j]
            BY <1>1, <3>2, <5>2, AppendProperties
          <5> QED BY <2>5, <4>2, <5>1, <5>3 DEF PlainTells
        <4> QED BY <4>1, <4>2
      <3>4. p = reader.path
        BY <2>10 DEF PathAfter
      <3> QED BY <2>1, <2>2, <2>7, <2>10, <3>1, <3>2, <3>3, <3>4 DEF Tells
    <2>11. CASE event.kind = "switch"
      <3>1. after = [reader EXCEPT !.path = p] /\ ~HasText(event)
        BY <1>5, <2>11 DEF Consumed, HasText
      <3>2. /\ after \in Readers /\ after.at = "reading" /\ after.code = "none" /\ after.path = p
            /\ after.texts = reader.texts /\ after.plain = reader.plain
        BY <1>5, <2>1, <2>2, <3>1 DEF Readers
      <3> QED BY <2>1, <2>2, <2>6, <2>7, <2>11, <3>1, <3>2 DEF Tells
    <2>12. CASE event.kind \in {"fragment", "string"}
      <3>1. after = [reader EXCEPT !.path = p, !.texts[p] = Append(@, line.text)] /\ HasText(event)
        BY <1>5, <2>12 DEF Consumed, HasText
      <3>2. line.text = (IF k + 1 \in damaged THEN Damaged ELSE k + 1) /\ line.text \in Nat
        BY <3>1 DEF Damaged
      <3>3. /\ after.at = "reading" /\ after.code = "none" /\ after.path = p
            /\ after.texts = [reader.texts EXCEPT ![p] = Append(@, line.text)]
            /\ after.plain = reader.plain
        BY <1>5, <2>1, <2>2, <3>1 DEF Readers
      <3>4. reader.texts \in [Paths -> Seq(Nat)]
        BY DEF Readers
      <3>5. /\ after.texts \in [Paths -> Seq(Nat)]
            /\ \A q \in Paths : after.texts[q] = IF q = p THEN Append(reader.texts[q], line.text)
                                                 ELSE reader.texts[q]
        BY <2>2, <3>2, <3>3, <3>4, AppendProperties
      <3>6. after \in Readers
        BY <1>5, <2>1, <2>2, <3>1, <3>3, <3>5 DEF Readers
      <3>7. ASSUME NEW q \in Paths
            PROVE  InOrder(after.texts[q], HeardOn(q, k + 1), damaged)
        <4>1. CASE q = p
          <5>1. HeardOn(q, k + 1) = HeardOn(q, k) \cup {k + 1}
            BY <2>1, <2>2, <3>1, <4>1, HeardNext
          <5>2. InOrder(reader.texts[q], HeardOn(q, k), damaged) /\ reader.texts[q] \in Seq(Nat)
            BY <3>4 DEF Tells
          <5>3. HeardOn(q, k) \in SUBSET (1..k)
            BY HeardInLines
          <5>4. InOrder(Append(reader.texts[q], line.text), HeardOn(q, k) \cup {k + 1}, damaged)
            BY <3>2, <5>2, <5>3, InOrderNext
          <5> QED BY <3>5, <4>1, <5>1, <5>4
        <4>2. CASE q # p
          BY <2>2, <3>5, <4>2, ToldStill
        <4> QED BY <4>1, <4>2
      <3> QED BY <2>1, <2>2, <2>6, <2>12, <3>3, <3>6, <3>7 DEF Tells
    <2> QED BY <1>2, <2>8, <2>9, <2>10, <2>11, <2>12
  <1> QED BY <1>3, <1>4, <1>5 DEF Readers

(* The answer on the wire, whole.                                          *)
Answer == Wired(script, closed)

(* The lines of it that end with a newline.                                *)
Lines == IF closed THEN Len(script) ELSE Len(script) - 1

(* The symbol s is the j-th of the answer, damaged exactly where it was cut.*)
Faithful(s, j, damaged) ==
  /\ s = [event |-> Answer[j].event, text |-> Answer[j].text, half |-> Answer[j].half,
          whole |-> s.whole]
  /\ ~Opens(Answer[j]) /\ ~Closes(Answer[j]) => s.whole = TRUE
  /\ Opens(Answer[j]) => (s.whole <=> Answer[j].text \notin damaged)
  /\ Closes(Answer[j]) /\ ~s.whole => Answer[j].text \in damaged

(* Where the answer has what: two symbols of a line, then its newline.     *)
LEMMA AnswerIs ==
  ASSUME ScriptOk, closed \in BOOLEAN
  PROVE  /\ Len(Answer) = 3 * Len(script) - (IF closed THEN 0 ELSE 1)
         /\ Len(Answer) \in Nat /\ Len(Answer) >= 3 * Lines /\ Len(Answer) < 3 * Lines + 3
         /\ DOMAIN Answer = 1..Len(Answer)
         /\ \A d \in Nat : 3 * d <= Len(Answer) => d <= Lines
         /\ Lines \in Nat /\ Lines <= Len(script)
         /\ \A d \in Nat, h \in 1..2 : 3 * d + h <= Len(Answer) =>
              /\ d < Len(script)
              /\ Answer[3 * d + h] = [event |-> script[d + 1], text |-> d + 1, half |-> h, whole |-> TRUE]
         /\ \A d \in Nat : 3 * d + 3 <= Len(Answer) =>
              Answer[3 * d + 3] = Newline
  <1> DEFINE n == 3 * Len(script) - (IF closed THEN 0 ELSE 1)
             w(i) == LET k == (i + 2) \div 3
                     IN  IF i % 3 = 0 THEN Newline
                         ELSE [event |-> script[k], text |-> k, half |-> i % 3, whole |-> TRUE]
  <1>1. Len(script) \in Nat \ {0} /\ n \in Nat
    BY DEF ScriptOk
  <1>2. Answer = [i \in 1..n |-> w(i)]
    BY DEF Answer, Wired
  <1> HIDE DEF w
  <1>3. Len(Answer) = n /\ DOMAIN Answer = 1..n /\ \A i \in 1..n : Answer[i] = w(i)
    BY <1>1, <1>2
  <1>4. ASSUME NEW d \in Nat, NEW h \in 1..2, 3 * d + h <= n
        PROVE  /\ d < Len(script)
               /\ Answer[3 * d + h] = [event |-> script[d + 1], text |-> d + 1, half |-> h, whole |-> TRUE]
    <2>1. 3 * d + h \in 1..n /\ d < Len(script)
      BY <1>1, <1>4
    <2>2. (3 * d + h + 2) \div 3 = d + 1 /\ (3 * d + h) % 3 = h
      OBVIOUS
    <2>3. Answer[3 * d + h] = w(3 * d + h)
      BY <1>3, <2>1
    <2>4. (3 * d + h) % 3 # 0
      BY <2>2
    <2> QED BY <2>1, <2>2, <2>3, <2>4 DEF w
  <1>5. ASSUME NEW d \in Nat, 3 * d + 3 <= n
        PROVE  Answer[3 * d + 3] = Newline
    <2>1. 3 * d + 3 \in 1..n /\ (3 * d + 3) % 3 = 0
      BY <1>1, <1>5
    <2> QED BY <1>3, <2>1 DEF w
  <1> QED BY <1>1, <1>3, <1>4, <1>5 DEF Lines

(* Place j of the answer is the h-th of the line after the d-th.           *)
Place(j, d, h) == d \in Nat /\ h \in 1..3 /\ j = 3 * d + h

(* Every place is in one line.                                             *)
LEMMA Places ==
  ASSUME NEW i \in Nat, i > 0
  PROVE  \E d \in Nat, h \in 1..3 : Place(i, d, h)
  <1>1. i = 3 * ((i - 1) \div 3) + (((i - 1) % 3) + 1) /\ (i - 1) \div 3 \in Nat
        /\ ((i - 1) % 3) + 1 \in 1..3
    OBVIOUS
  <1> QED BY <1>1 DEF Place

(* What stands in the h-th place of a line.                                *)
LEMMA SymbolKinds ==
  ASSUME ScriptOk, closed \in BOOLEAN, NEW d, NEW h, NEW j,
         Place(j, d, h), j <= Len(Answer)
  PROVE  /\ Opens(Answer[j]) <=> h = 1 /\ HasText(script[d + 1])
         /\ Closes(Answer[j]) <=> h = 2 /\ HasText(script[d + 1])
         /\ Answer[j].whole = TRUE
         /\ Answer[j].half = h % 3
         /\ Answer[j].text = IF h = 3 THEN 0 ELSE d + 1
         /\ h < 3 => Answer[j].event = script[d + 1]
         /\ h = 3 => Answer[j] = Newline
  <1> USE DEF Place
  <1>1. CASE h = 3
    <2>1. Answer[j] = Newline
      BY <1>1, AnswerIs
    <2> QED BY <1>1, <2>1 DEF Opens, Closes, Newline
  <1>2. CASE h \in 1..2
    <2>1. Answer[j] = [event |-> script[d + 1], text |-> d + 1, half |-> h, whole |-> TRUE]
      BY <1>2, AnswerIs
    <2>2. h % 3 = h /\ h # 3
      BY <1>2
    <2> QED BY <1>2, <2>1, <2>2 DEF Opens, Closes
  <1>3. h = 3 \/ h \in 1..2
    OBVIOUS
  <1> QED BY <1>1, <1>2, <1>3

(* What may come over the wire.                                            *)
Symbols == [event : Spoken, text : Nat, half : 0..2, whole : BOOLEAN]

(* d lines have ended before what the buffer holds.                        *)
Ended(d) ==
  /\ Len(buffer) \in 0..2 /\ 3 * d + Len(buffer) <= Len(Answer)
  /\ buffer \in Seq(Symbols)
  /\ wire = SubSeq(Answer, 3 * d + Len(buffer) + 1, Len(Answer))
  /\ \A i \in 1..Len(buffer) : Faithful(buffer[i], 3 * d + i, cut)
  /\ Len(buffer) = 1 /\ HasText(script[d + 1]) => d + 1 \in cut
  /\ cut \in SUBSET {n \in Nat : 3 * n <= 3 * d + Len(buffer) + 2}

(* The answer is a sequence of symbols.                                    *)
LEMMA AnswerSymbols ==
  ASSUME ScriptOk, closed \in BOOLEAN
  PROVE  Answer \in Seq(Symbols)
  <1>1. ASSUME NEW i \in 1..Len(Answer) PROVE Answer[i] \in Symbols
    <2>1. i \in Nat /\ i > 0
      BY AnswerIs
    <2>2. PICK d \in Nat, h \in 1..3 : i = 3 * d + h
      BY <2>1, Places DEF Place
    <2>6. i <= Len(Answer)
      BY <1>1, AnswerIs
    <2>3. CASE h = 3
      <3>0. 3 * d + 3 <= Len(Answer) /\ i = 3 * d + 3
        BY <2>2, <2>3, <2>6
      <3>1. Answer[i] = Newline
        BY <3>0, AnswerIs
      <3> QED BY <3>1 DEF Newline, Symbols, Spoken
    <2>4. CASE h \in 1..2
      <3>1. d < Len(script) /\ Answer[i] = [event |-> script[d + 1], text |-> d + 1, half |-> h, whole |-> TRUE]
        BY <2>2, <2>4, <2>6, AnswerIs
      <3>2. script[d + 1] \in Spoken
        BY <3>1 DEF ScriptOk
      <3> QED BY <2>4, <3>1, <3>2 DEF Symbols
    <2>5. h = 3 \/ h \in 1..2
      OBVIOUS
    <2> QED BY <2>3, <2>4, <2>5
  <1>2. Len(Answer) \in Nat /\ Answer = [i \in 1..Len(Answer) |-> Answer[i]]
    <2>1. Len(Answer) \in Nat /\ DOMAIN Answer = 1..Len(Answer)
      BY AnswerIs
    <2>2. \E f, n : Answer = [i \in 1..n |-> f[i]]
      <3> DEFINE n == 3 * Len(script) - (IF closed THEN 0 ELSE 1)
                 f == Answer
      <3>1. Answer = [i \in 1..n |->
                       LET k == (i + 2) \div 3
                       IN  IF i % 3 = 0 THEN Newline
                           ELSE [event |-> script[k], text |-> k, half |-> i % 3, whole |-> TRUE]]
        BY DEF Answer, Wired
      <3> HIDE DEF n
      <3>2. Answer = [i \in 1..n |-> Answer[i]]
        BY <3>1
      <3> QED BY <3>2
    <2> QED BY <2>1, <2>2
  <1> QED BY <1>1, <1>2

(* What is still to arrive, place by place.                                *)
LEMMA WireIs ==
  ASSUME ScriptOk, closed \in BOOLEAN, NEW d \in Nat, Ended(d)
  PROVE  /\ Len(wire) = Len(Answer) - 3 * d - Len(buffer) /\ Len(wire) \in Nat
         /\ wire \in Seq(Symbols)
         /\ \A t \in 1..Len(wire) : wire[t] = Answer[3 * d + Len(buffer) + t]
  <1> DEFINE m == 3 * d + Len(buffer) + 1
  <1>1. m \in Int /\ Len(Answer) \in Nat /\ m > 0 /\ m <= Len(Answer) + 1
    BY AnswerIs DEF Ended
  <1>2. \A i \in m..Len(Answer) : Answer[i] \in Symbols
    BY <1>1, AnswerSymbols, ElementOfSeq
  <1>3. /\ wire = SubSeq(Answer, m, Len(Answer)) /\ wire \in Seq(Symbols)
        /\ Len(wire) = IF m <= Len(Answer) THEN Len(Answer) - m + 1 ELSE 0
        /\ \A i \in 1..(Len(Answer) - m + 1) : wire[i] = Answer[m + i - 1]
    BY <1>1, <1>2, SubSeqProperties DEF Ended
  <1>4. Len(buffer) \in Nat /\ m = 3 * d + Len(buffer) + 1
    BY DEF Ended
  <1> HIDE DEF m
  <1>5. Len(wire) = Len(Answer) - m + 1
    BY <1>1, <1>3
  <1>6. \A t \in 1..Len(wire) : wire[t] = Answer[3 * d + Len(buffer) + t]
    <2> SUFFICES ASSUME NEW t \in 1..Len(wire) PROVE wire[t] = Answer[3 * d + Len(buffer) + t]
      OBVIOUS
    <2>1. m + t - 1 = 3 * d + Len(buffer) + t /\ t \in 1..(Len(Answer) - m + 1)
      BY <1>4, <1>5
    <2>2. wire[t] = Answer[m + t - 1]
      BY <1>3, <2>1
    <2> QED BY <2>1, <2>2
  <1>7. Len(wire) \in Nat /\ Len(wire) = Len(Answer) - 3 * d - Len(buffer)
    BY <1>1, <1>4, <1>5
  <1> QED BY <1>3, <1>6, <1>7

(* A chunk as the reader sees it.                                          *)
LEMMA DecodedIs ==
  ASSUME ScriptOk, closed \in BOOLEAN, NEW d \in Nat, Ended(d), NEW n \in 1..Len(wire)
  PROVE  /\ Decoded(SubSeq(wire, 1, n)) \in Seq(Symbols)
         /\ Len(Decoded(SubSeq(wire, 1, n))) = n
         /\ \A t \in 1..n :
              Decoded(SubSeq(wire, 1, n))[t] =
                [wire[t] EXCEPT !.whole = @ /\ ~(t = n /\ Opens(wire[t])) /\ ~(t = 1 /\ Closes(wire[t]))]
  <1> DEFINE chunk == SubSeq(wire, 1, n)
  <1>1. Len(wire) \in Nat /\ wire \in Seq(Symbols) /\ n \in Nat
    BY WireIs
  <1>2. chunk \in Seq(Symbols) /\ Len(chunk) = n /\ \A t \in 1..n : chunk[t] = wire[t] /\ wire[t] \in Symbols
    <2>1. \A i \in 1..n : wire[i] \in Symbols
      BY <1>1, ElementOfSeq
    <2> QED BY <1>1, <2>1, SubSeqProperties
  <1> HIDE DEF chunk
  <1> DEFINE e(t) == [chunk[t] EXCEPT !.whole = @ /\ ~(t = n /\ Opens(chunk[t])) /\ ~(t = 1 /\ Closes(chunk[t]))]
  <1>3. ASSUME NEW t \in 1..n PROVE e(t) \in Symbols
    BY <1>2 DEF Symbols
  <1>4. Decoded(chunk) = [t \in 1..n |-> e(t)]
    BY <1>2 DEF Decoded
  <1> HIDE DEF e
  <1>5. Decoded(chunk) \in Seq(Symbols) /\ Len(Decoded(chunk)) = n /\ \A t \in 1..n : Decoded(chunk)[t] = e(t)
    BY <1>1, <1>3, <1>4
  <1> QED BY <1>2, <1>5 DEF e, chunk

(* The texts damaged once a chunk ends with s.                             *)
Cut(s) == IF Opens(s) THEN cut \cup {s.text} ELSE cut

(* A chunk damages the text it ends inside of, and no other.               *)
LEMMA CutOnly ==
  ASSUME ScriptOk, closed \in BOOLEAN, NEW d \in Nat, Ended(d), NEW n \in 1..Len(wire)
  PROVE  /\ cut \subseteq Cut(wire[n])
         /\ Cut(wire[n]) \subseteq Nat
         /\ \A m \in Cut(wire[n]) : 3 * m <= 3 * d + Len(buffer) + n + 2
         /\ \A m \in Nat : 3 * m + 1 = 3 * d + Len(buffer) + n /\ HasText(script[m + 1])
              => m + 1 \in Cut(wire[n])
         /\ \A m \in Cut(wire[n]) : 3 * m - 2 # 3 * d + Len(buffer) + n => m \in cut
  <1> DEFINE j == 3 * d + Len(buffer) + n
  <1>1. /\ Len(buffer) \in 0..2 /\ n \in Nat /\ n > 0 /\ j \in Nat /\ j > 0 /\ j <= Len(Answer)
        /\ wire[n] = Answer[j] /\ Len(Answer) \in Nat
    <2>1. Len(buffer) \in 0..2
      BY DEF Ended
    <2>2. Len(wire) \in Nat /\ Len(wire) = Len(Answer) - 3 * d - Len(buffer) /\ Len(Answer) \in Nat
          /\ wire[n] = Answer[j]
      BY WireIs, AnswerIs
    <2> QED BY <2>1, <2>2
  <1> HIDE DEF j
  <1>2. PICK k \in Nat, h \in 1..3 : j = 3 * k + h /\ Place(j, k, h)
    BY <1>1, Places DEF Place
  <1>3. /\ Opens(wire[n]) <=> h = 1 /\ HasText(script[k + 1])
        /\ wire[n].text = IF h = 3 THEN 0 ELSE k + 1
    <2>1. /\ Opens(Answer[j]) <=> h = 1 /\ HasText(script[k + 1])
          /\ Answer[j].text = IF h = 3 THEN 0 ELSE k + 1
      <3>1. Place(j, k, h) /\ j <= Len(Answer)
        BY <1>1, <1>2
      <3> QED BY <3>1, SymbolKinds
    <2> QED BY <1>1, <2>1
  <1>4. cut \in SUBSET {m \in Nat : 3 * m <= 3 * d + Len(buffer) + 2}
    BY DEF Ended
  <1>5. CASE h = 1 /\ HasText(script[k + 1])
    <2>1. Cut(wire[n]) = cut \cup {k + 1} /\ j = 3 * k + 1
      BY <1>2, <1>3, <1>5 DEF Cut
    <2>2. k + 1 \in Nat /\ 3 * (k + 1) = 3 * d + Len(buffer) + n + 2
      BY <1>1, <1>2, <2>1 DEF j
    <2>3. \A m \in Cut(wire[n]) : m \in cut \/ m = k + 1
      BY <2>1
    <2>4. \A m \in cut : m \in Nat /\ 3 * m <= 3 * d + Len(buffer) + n + 2
      BY <1>1, <1>4
    <2>5. \A m \in Nat : 3 * m + 1 = 3 * d + Len(buffer) + n => m + 1 \in Cut(wire[n])
      BY <1>1, <2>1, <2>2
    <2> QED BY <1>1, <2>1, <2>2, <2>3, <2>4, <2>5
  <1>6. CASE ~(h = 1 /\ HasText(script[k + 1]))
    <2>1. Cut(wire[n]) = cut
      BY <1>3, <1>6 DEF Cut
    <2>2. \A m \in cut : m \in Nat /\ 3 * m <= 3 * d + Len(buffer) + n + 2
      BY <1>1, <1>4
    <2>3. ASSUME NEW m \in Nat, 3 * m + 1 = 3 * d + Len(buffer) + n, HasText(script[m + 1])
          PROVE  FALSE
      <3>1. m = k /\ h = 1
        BY <1>1, <1>2, <2>3 DEF j
      <3> QED BY <1>6, <2>3, <3>1
    <2> QED BY <2>1, <2>2, <2>3
  <1> QED BY <1>5, <1>6

(* What the buffer holds stays faithful when a chunk is cut.               *)
LEMMA FaithfulStill ==
  ASSUME ScriptOk, closed \in BOOLEAN, NEW d \in Nat, Ended(d), NEW n \in 1..Len(wire),
         NEW i \in 1..Len(buffer)
  PROVE  Faithful(buffer[i], 3 * d + i, Cut(wire[n]))
  <1>1. /\ Len(buffer) \in 0..2 /\ i \in 1..2 /\ 3 * d + i <= Len(Answer)
        /\ Faithful(buffer[i], 3 * d + i, cut)
    BY AnswerIs DEF Ended
  <1>2. /\ Opens(Answer[3 * d + i]) => i = 1
        /\ Answer[3 * d + i].text = d + 1
    <2>1. PICK j : j = 3 * d + i
      OBVIOUS
    <2>2. i # 3 /\ j <= Len(Answer) /\ Place(j, d, i)
      BY <1>1, <2>1 DEF Place
    <2>3. /\ Opens(Answer[j]) <=> i = 1 /\ HasText(script[d + 1])
          /\ Answer[j].text = IF i = 3 THEN 0 ELSE d + 1
      BY <2>2, SymbolKinds
    <2> QED BY <2>1, <2>2, <2>3
  <1>3. n \in Nat /\ n > 0
    BY WireIs
  <1>4. Opens(Answer[3 * d + i]) => (d + 1 \in Cut(wire[n]) <=> d + 1 \in cut)
    <2> SUFFICES ASSUME i = 1 PROVE d + 1 \in Cut(wire[n]) <=> d + 1 \in cut
      BY <1>2
    <2>1. 3 * (d + 1) - 2 # 3 * d + Len(buffer) + n
      BY <1>1, <1>3
    <2> QED BY <2>1, CutOnly
  <1>5. cut \subseteq Cut(wire[n])
    BY CutOnly
  <1> QED BY <1>1, <1>2, <1>4, <1>5 DEF Faithful

(* What a chunk brings is faithful too.                                    *)
LEMMA FaithfulNew ==
  ASSUME ScriptOk, closed \in BOOLEAN, NEW d \in Nat, Ended(d), NEW n \in 1..Len(wire),
         NEW t \in 1..n
  PROVE  Faithful(Decoded(SubSeq(wire, 1, n))[t], 3 * d + Len(buffer) + t, Cut(wire[n]))
  <1> DEFINE j == 3 * d + Len(buffer) + t
             s == Decoded(SubSeq(wire, 1, n))[t]
  <1>1. /\ Len(wire) \in Nat /\ t \in Nat /\ t > 0 /\ n \in Nat /\ n > 0 /\ t <= n
        /\ Len(buffer) \in 0..2 /\ j \in Nat /\ j > 0 /\ j <= Len(Answer)
        /\ wire[t] = Answer[j] /\ wire[t] \in Symbols /\ Len(Answer) \in Nat
    <2>1. t \in 1..Len(wire) /\ wire \in Seq(Symbols)
      BY WireIs
    <2>2. wire[t] \in Symbols
      BY <2>1, ElementOfSeq
    <2>3. Len(buffer) \in 0..2
      BY DEF Ended
    <2>4. Len(wire) \in Nat /\ Len(wire) = Len(Answer) - 3 * d - Len(buffer) /\ Len(Answer) \in Nat
          /\ wire[t] = Answer[j]
      BY <2>1, WireIs, AnswerIs
    <2> QED BY <2>2, <2>3, <2>4
  <1>2. PICK k \in Nat, h \in 1..3 : j = 3 * k + h /\ Place(j, k, h)
    BY <1>1, Places DEF Place
  <1> DEFINE a == Answer[j]
  <1>3. /\ Opens(a) <=> h = 1 /\ HasText(script[k + 1])
        /\ Closes(a) <=> h = 2 /\ HasText(script[k + 1])
        /\ a.whole = TRUE
        /\ a.text = IF h = 3 THEN 0 ELSE k + 1
    <2>1. Place(j, k, h) /\ j <= Len(Answer)
      BY <1>1, <1>2
    <2> QED BY <2>1, SymbolKinds
  <1>4. s = [a EXCEPT !.whole = @ /\ ~(t = n /\ Opens(a)) /\ ~(t = 1 /\ Closes(a))]
    <2>1. s = [wire[t] EXCEPT !.whole = @ /\ ~(t = n /\ Opens(wire[t])) /\ ~(t = 1 /\ Closes(wire[t]))]
      BY DecodedIs
    <2> QED BY <1>1, <2>1
  <1> HIDE DEF a, s, j
  <1>5. /\ s = [event |-> a.event, text |-> a.text, half |-> a.half, whole |-> s.whole]
        /\ s.whole = (~(t = n /\ Opens(a)) /\ ~(t = 1 /\ Closes(a)))
    <2>1. a \in Symbols
      BY <1>1 DEF a
    <2> QED BY <1>3, <1>4, <2>1 DEF Symbols
  <1>6. ~Opens(a) /\ ~Closes(a) => s.whole = TRUE
    BY <1>5
  <1>7. Opens(a) => (s.whole <=> a.text \notin Cut(wire[n]))
    <2> SUFFICES ASSUME Opens(a) PROVE s.whole <=> a.text \notin Cut(wire[n])
      OBVIOUS
    <2>1. h = 1 /\ HasText(script[k + 1]) /\ ~Closes(a) /\ a.text = k + 1 /\ j = 3 * k + 1
      BY <1>2, <1>3
    <2>2. s.whole <=> t # n
      BY <1>5, <2>1
    <2>3. CASE t = n
      <3>1. k + 1 \in Cut(wire[n])
        BY <2>1, <2>3, CutOnly DEF j
      <3> QED BY <2>1, <2>2, <2>3, <3>1
    <2>4. CASE t # n
      <3>1. 3 * (k + 1) - 2 # 3 * d + Len(buffer) + n
        BY <1>1, <2>1, <2>4 DEF j
      <3>2. k + 1 \notin cut
        <4>1. cut \in SUBSET {m \in Nat : 3 * m <= 3 * d + Len(buffer) + 2}
          BY DEF Ended
        <4>2. 3 * (k + 1) > 3 * d + Len(buffer) + 2
          BY <1>1, <2>1 DEF j
        <4> QED BY <1>1, <4>1, <4>2
      <3> QED BY <2>1, <2>2, <2>4, <3>1, <3>2, CutOnly
    <2> QED BY <2>3, <2>4
  <1>8. Closes(a) /\ ~s.whole => a.text \in Cut(wire[n])
    <2> SUFFICES ASSUME Closes(a), ~s.whole PROVE a.text \in Cut(wire[n])
      OBVIOUS
    <2>1. h = 2 /\ HasText(script[k + 1]) /\ ~Opens(a) /\ a.text = k + 1
      BY <1>3
    <2>2. t = 1
      BY <1>5, <2>1
    <2>3. k = d /\ Len(buffer) = 1
      <3>1. 3 * k + 2 = 3 * d + Len(buffer) + 1 /\ Len(buffer) \in 0..2
        BY <1>1, <1>2, <2>1, <2>2 DEF j
      <3>2. \A x, y \in Nat, z \in 0..2 : 3 * x + 2 = 3 * y + z + 1 => x = y /\ z = 1
        OBVIOUS
      <3> QED BY <3>1, <3>2
    <2>4. k + 1 \in cut
      BY <2>1, <2>3 DEF Ended
    <2> QED BY <2>1, <2>4, CutOnly
  <1> QED BY <1>5, <1>6, <1>7, <1>8 DEF Faithful, a, s, j

(* Symbols that follow the d-th line of the answer.                        *)
Following(symbols, d, damaged) ==
  /\ symbols \in Seq(Symbols) /\ 3 * d + Len(symbols) <= Len(Answer)
  /\ \A i \in 1..Len(symbols) : Faithful(symbols[i], 3 * d + i, damaged)

(* What is in each place of such symbols.                                  *)
LEMMA FollowingIs ==
  ASSUME ScriptOk, closed \in BOOLEAN, NEW d \in Nat, NEW symbols, NEW damaged,
         Following(symbols, d, damaged), NEW i \in 1..Len(symbols), NEW e, NEW h, Place(i, e, h)
  PROVE  /\ symbols[i].whole \in BOOLEAN
         /\ h = 3 => symbols[i] = Newline
         /\ h # 3 => symbols[i] # Newline
         /\ symbols[i].half = h % 3
         /\ h < 3 => symbols[i].event = script[d + e + 1] /\ symbols[i].text = d + e + 1
         /\ h = 1 /\ HasText(script[d + e + 1]) => (symbols[i].whole <=> d + e + 1 \notin damaged)
         /\ h = 2 /\ HasText(script[d + e + 1]) /\ ~symbols[i].whole => d + e + 1 \in damaged
  <1> DEFINE j == 3 * d + i
             s == symbols[i]
  <1>1. /\ e \in Nat /\ h \in 1..3 /\ i = 3 * e + h
        /\ Len(Answer) \in Nat /\ Len(symbols) \in Nat /\ j \in Nat /\ j <= Len(Answer)
        /\ Place(j, d + e, h)
    <2>1. Len(Answer) \in Nat /\ Len(symbols) \in Nat /\ 3 * d + Len(symbols) <= Len(Answer)
      BY AnswerIs DEF Following
    <2> QED BY <2>1 DEF Place
  <1>2. Faithful(s, j, damaged) /\ s.whole \in BOOLEAN
    <2>1. symbols \in Seq(Symbols) /\ Faithful(s, j, damaged)
      BY DEF Following
    <2>2. s \in Symbols
      BY <2>1, ElementOfSeq
    <2> QED BY <2>1, <2>2 DEF Symbols
  <1> HIDE DEF j, s
  <1>3. Place(j, d + e, h) /\ j <= Len(Answer)
    BY <1>1
  <1>4. /\ Opens(Answer[j]) <=> h = 1 /\ HasText(script[d + e + 1])
        /\ Closes(Answer[j]) <=> h = 2 /\ HasText(script[d + e + 1])
        /\ Answer[j].half = h % 3
        /\ Answer[j].text = IF h = 3 THEN 0 ELSE d + e + 1
        /\ h < 3 => Answer[j].event = script[d + e + 1]
        /\ h = 3 => Answer[j] = Newline
    BY <1>3, SymbolKinds
  <1>5. s.half = h % 3 /\ s.text = Answer[j].text /\ s.event = Answer[j].event
    BY <1>2, <1>4 DEF Faithful
  <1>6. h = 3 => s = Newline
    <2> SUFFICES ASSUME h = 3 PROVE s = Newline
      OBVIOUS
    <2>1. s.whole = TRUE /\ Answer[j] = Newline
      BY <1>2, <1>4 DEF Faithful
    <2> QED BY <1>2, <2>1 DEF Faithful, Newline
  <1>7. h # 3 => s # Newline
    BY <1>1, <1>5 DEF Newline
  <1> QED BY <1>1, <1>2, <1>4, <1>5, <1>6, <1>7 DEF Faithful, s

(* A line ends at every third of them, and only there.                     *)
LEMMA LinesEnd ==
  ASSUME ScriptOk, closed \in BOOLEAN, NEW d \in Nat, NEW symbols, NEW damaged,
         Following(symbols, d, damaged), NEW i \in 1..Len(symbols)
  PROVE  /\ symbols[i] = Newline <=> i % 3 = 0
         /\ EndsLine(symbols, i) <=> i % 3 = 0
  <1>1. Len(symbols) \in Nat /\ i \in Nat /\ i > 0
    BY DEF Following
  <1>2. PICK e, h : Place(i, e, h)
    BY <1>1, Places
  <1>3. e \in Nat /\ h \in 1..3 /\ i = 3 * e + h
    BY <1>2 DEF Place
  <1>4. symbols[i] = Newline <=> h = 3
    BY <1>2, FollowingIs
  <1>5. i % 3 = 0 <=> h = 3
    BY <1>3
  <1>6. CASE h = 3
    <2>1. i - 2 \in 1..Len(symbols) /\ Place(i - 2, e, 1) /\ i > 2
      BY <1>1, <1>3, <1>6 DEF Place
    <2>2. PICK a : a = i - 2
      OBVIOUS
    <2>3. symbols[a].half = 1 % 3
      BY <2>1, <2>2, FollowingIs
    <2> QED BY <1>4, <1>5, <1>6, <2>1, <2>2, <2>3 DEF EndsLine
  <1> QED BY <1>4, <1>5, <1>6 DEF EndsLine

(* What parseSse makes of the line: the event, and its text unless it is cut.*)
LEMMA LineIs ==
  ASSUME ScriptOk, closed \in BOOLEAN, NEW d \in Nat, NEW symbols, NEW damaged,
         Following(symbols, d, damaged), NEW e \in Nat, 3 * e + 3 <= Len(symbols)
  PROVE  /\ d + e < Len(script)
         /\ Parsed(symbols, 3 * e + 3).event = script[d + e + 1]
         /\ HasText(script[d + e + 1]) =>
              Parsed(symbols, 3 * e + 3).text = IF d + e + 1 \in damaged THEN Damaged ELSE d + e + 1
  <1> DEFINE i == 3 * e + 3
             a == 3 * e + 1
             b == 3 * e + 2
  <1>1. Len(symbols) \in Nat /\ Len(Answer) \in Nat /\ 3 * d + Len(symbols) <= Len(Answer)
    BY AnswerIs DEF Following
  <1>2. a \in 1..Len(symbols) /\ Place(a, e, 1) /\ b \in 1..Len(symbols) /\ Place(b, e, 2)
    BY <1>1 DEF Place
  <1>3. i - 2 = a /\ i - 1 = b
    OBVIOUS
  <1>4. d + e < Len(script)
    <2>1. 3 * (d + e) + 1 <= Len(Answer) /\ d + e \in Nat
      BY <1>1
    <2> QED BY <2>1, AnswerIs DEF ScriptOk
  <1> HIDE DEF i, a, b
  <1>5. /\ symbols[a].event = script[d + e + 1] /\ symbols[a].text = d + e + 1
        /\ HasText(script[d + e + 1]) => (symbols[a].whole <=> d + e + 1 \notin damaged)
    BY <1>2, FollowingIs
  <1>6. HasText(script[d + e + 1]) /\ ~symbols[b].whole => d + e + 1 \in damaged
    BY <1>2, FollowingIs
  <1>7. Parsed(symbols, i) =
          [event |-> symbols[a].event,
           text  |-> IF symbols[a].whole /\ symbols[b].whole THEN symbols[a].text ELSE Damaged]
    BY <1>3 DEF Parsed
  <1>8. Parsed(symbols, i).event = script[d + e + 1]
    BY <1>5, <1>7
  <1>9. HasText(script[d + e + 1]) => (symbols[a].whole /\ symbols[b].whole <=> d + e + 1 \notin damaged)
    BY <1>5, <1>6
  <1>10. HasText(script[d + e + 1]) =>
           Parsed(symbols, i).text = IF d + e + 1 \in damaged THEN Damaged ELSE d + e + 1
    BY <1>5, <1>7, <1>9
  <1> QED BY <1>4, <1>8, <1>10 DEF i

(* The lines of a chunk consumed one after the other, by induction over    *)
(* their symbols.                                                          *)
LEMMA ReadOnTells ==
  ASSUME ScriptOk, closed \in BOOLEAN, stream \in BOOLEAN, first \in Paths,
         NEW d \in Nat, NEW symbols, NEW damaged, Following(symbols, d, damaged),
         NEW start \in Readers, Tells(start, d, damaged)
  PROVE  /\ ReadOn(start, symbols) \in Readers
         /\ Tells(ReadOn(start, symbols), d + (Len(symbols) \div 3), damaged)
  <1>1. Len(symbols) \in Nat
    BY DEF Following
  <1>2. PICK reader :
          /\ reader[0] = start
          /\ \A i \in 1..Len(symbols) :
               reader[i] = IF EndsLine(symbols, i) THEN Consumed(reader[i - 1], Parsed(symbols, i))
                           ELSE reader[i - 1]
          /\ ReadOn(start, symbols) = reader[Len(symbols)]
    BY <1>1, ReadingSteps
  <1> DEFINE S == {i \in Nat : i <= Len(symbols) =>
                     reader[i] \in Readers /\ Tells(reader[i], d + (i \div 3), damaged)}
  <1>3. 0 \in S
    <2>1. 0 \div 3 = 0 /\ d + 0 = d
      OBVIOUS
    <2> QED BY <1>2, <2>1
  <1>4. ASSUME NEW n \in Nat, n \in S PROVE n + 1 \in S
    <2> SUFFICES ASSUME n + 1 <= Len(symbols)
                 PROVE  reader[n + 1] \in Readers /\ Tells(reader[n + 1], d + ((n + 1) \div 3), damaged)
      OBVIOUS
    <2> DEFINE i == n + 1
    <2>1. i \in 1..Len(symbols) /\ i - 1 = n /\ n <= Len(symbols)
      BY <1>1
    <2>2. reader[n] \in Readers /\ Tells(reader[n], d + (n \div 3), damaged)
      BY <1>4, <2>1
    <2>3. EndsLine(symbols, i) <=> i % 3 = 0
      BY <2>1, LinesEnd
    <2>4. reader[i] = IF EndsLine(symbols, i) THEN Consumed(reader[n], Parsed(symbols, i)) ELSE reader[n]
      BY <1>2, <2>1
    <2>5. CASE i % 3 # 0
      <3>1. i \div 3 = n \div 3
        BY <2>5
      <3> QED BY <2>2, <2>3, <2>4, <2>5, <3>1
    <2>6. CASE i % 3 = 0
      <3> DEFINE e == n \div 3
      <3>1. e \in Nat /\ i = 3 * e + 3 /\ i \div 3 = e + 1
        BY <2>6
      <3> HIDE DEF e
      <3>2. 3 * e + 3 <= Len(symbols)
        BY <3>1
      <3> DEFINE line == Parsed(symbols, i)
      <3>3. /\ d + e < Len(script) /\ line.event = script[d + e + 1]
            /\ HasText(script[d + e + 1]) => line.text = IF d + e + 1 \in damaged THEN Damaged ELSE d + e + 1
        BY <3>1, <3>2, LineIs
      <3>4. reader[n] \in Readers /\ Tells(reader[n], d + e, damaged)
        BY <2>2 DEF e
      <3> HIDE DEF line
      <3>5. PICK k : k = d + e /\ k \in Nat /\ k < Len(script)
        BY <3>1, <3>3
      <3>6. /\ Consumed(reader[n], line) \in Readers
            /\ Tells(Consumed(reader[n], line), k + 1, damaged)
        BY <3>3, <3>4, <3>5, ConsumedTells
      <3>7. reader[i] = Consumed(reader[n], line)
        BY <2>3, <2>4, <2>6 DEF line
      <3>8. d + (i \div 3) = k + 1
        BY <3>1, <3>5
      <3> QED BY <3>6, <3>7, <3>8
    <2> QED BY <2>5, <2>6
  <1> HIDE DEF S
  <1>5. Len(symbols) \in S
    BY <1>1, <1>3, <1>4, NatSets
  <1> QED BY <1>1, <1>2, <1>5 DEF S

(* What the reader has in hand after a chunk of n symbols.                 *)
Held(n) == buffer \o Decoded(SubSeq(wire, 1, n))

(* It follows the lines that have ended.                                   *)
LEMMA HeldIs ==
  ASSUME ScriptOk, closed \in BOOLEAN, NEW d \in Nat, Ended(d), NEW n \in 1..Len(wire)
  PROVE  /\ Following(Held(n), d, Cut(wire[n]))
         /\ Len(Held(n)) = Len(buffer) + n
  <1> DEFINE new == Decoded(SubSeq(wire, 1, n))
  <1>1. new \in Seq(Symbols) /\ Len(new) = n
    BY DecodedIs
  <1>2. /\ buffer \in Seq(Symbols) /\ Len(buffer) \in Nat
        /\ Len(wire) \in Nat /\ Len(wire) = Len(Answer) - 3 * d - Len(buffer) /\ Len(Answer) \in Nat
        /\ n \in Nat
    <2>1. buffer \in Seq(Symbols) /\ Len(buffer) \in Nat
      BY DEF Ended
    <2>2. Len(wire) \in Nat /\ Len(wire) = Len(Answer) - 3 * d - Len(buffer) /\ Len(Answer) \in Nat
      BY WireIs, AnswerIs
    <2> QED BY <2>1, <2>2
  <1>3. \A t \in 1..n : Faithful(new[t], 3 * d + Len(buffer) + t, Cut(wire[n]))
    BY FaithfulNew
  <1>4. \A i \in 1..Len(buffer) : Faithful(buffer[i], 3 * d + i, Cut(wire[n]))
    BY FaithfulStill
  <1> HIDE DEF new
  <1>5. /\ buffer \o new \in Seq(Symbols) /\ Len(buffer \o new) = Len(buffer) + n
        /\ \A i \in 1..(Len(buffer) + n) :
             (buffer \o new)[i] = IF i <= Len(buffer) THEN buffer[i] ELSE new[i - Len(buffer)]
    BY <1>1, <1>2, ConcatProperties
  <1>6. ASSUME NEW i \in 1..(Len(buffer) + n)
        PROVE  Faithful((buffer \o new)[i], 3 * d + i, Cut(wire[n]))
    <2>1. CASE i <= Len(buffer)
      BY <1>2, <1>4, <1>5, <2>1
    <2>2. CASE i > Len(buffer)
      <3>1. i - Len(buffer) \in 1..n /\ 3 * d + Len(buffer) + (i - Len(buffer)) = 3 * d + i
        BY <1>2, <2>2
      <3>2. Faithful(new[i - Len(buffer)], 3 * d + Len(buffer) + (i - Len(buffer)), Cut(wire[n]))
        BY <1>3, <3>1
      <3>3. (buffer \o new)[i] = new[i - Len(buffer)]
        BY <1>2, <1>5, <2>2
      <3> QED BY <3>1, <3>2, <3>3
    <2>3. i <= Len(buffer) \/ i > Len(buffer)
      BY <1>2
    <2> QED BY <2>1, <2>2, <2>3
  <1>7. Held(n) = buffer \o new
    BY DEF Held, new
  <1>8. 3 * d + (Len(buffer) + n) <= Len(Answer) /\ Len(Held(n)) \in Nat /\ Len(Held(n)) = Len(buffer) + n
    BY <1>2, <1>5, <1>7
  <1> QED BY <1>5, <1>6, <1>7, <1>8 DEF Following

(* Where the reader stands after the chunk.                                *)
LEMMA EndedNext ==
  ASSUME ScriptOk, closed \in BOOLEAN, NEW d \in Nat, Ended(d), NEW n \in 1..Len(wire),
         buffer' = Remainder(Held(n)), wire' = SubSeq(wire, n + 1, Len(wire)),
         cut' = Cut(wire[n]), UNCHANGED <<script, closed>>
  PROVE  \E e \in Nat : e = d + (Len(Held(n)) \div 3) /\ Ended(e)'
  <1> DEFINE symbols == Held(n)
             m == Len(symbols) \div 3
             r == Len(symbols) % 3
  <1>1. /\ Following(symbols, d, Cut(wire[n])) /\ Len(symbols) = Len(buffer) + n
        /\ Len(symbols) \in Nat /\ n \in Nat /\ n > 0 /\ Len(buffer) \in 0..2
        /\ symbols \in Seq(Symbols)
    <2>1. Following(symbols, d, Cut(wire[n])) /\ Len(symbols) = Len(buffer) + n
      BY HeldIs
    <2>2. Len(symbols) \in Nat /\ symbols \in Seq(Symbols)
      BY <2>1 DEF Following
    <2>3. Len(buffer) \in 0..2
      BY DEF Ended
    <2>4. Len(wire) \in Nat
      BY WireIs
    <2> QED BY <2>1, <2>2, <2>3, <2>4
  <1>2. m \in Nat /\ r \in 0..2 /\ Len(symbols) = 3 * m + r
    BY <1>1
  <1> HIDE DEF symbols, m, r
  <1>3. LineEnds(symbols) = {i \in 1..Len(symbols) : i % 3 = 0}
    BY <1>1, LinesEnd DEF LineEnds
  <1>4. LastEnd(symbols) = 3 * m
    <2>1. CASE m = 0
      <3>1. \A i \in 1..Len(symbols) : i % 3 # 0
        BY <1>2, <2>1
      <3>2. LineEnds(symbols) = {}
        BY <1>3, <3>1
      <3> QED BY <2>1, <3>2 DEF LastEnd
    <2>2. CASE m > 0
      <3>1. 3 * m \in LineEnds(symbols)
        BY <1>2, <1>3, <2>2
      <3>2. \A i \in LineEnds(symbols) : i \in Nat /\ i <= 3 * m
        BY <1>2, <1>3
      <3>3. Max(LineEnds(symbols)) = 3 * m
        BY <3>1, <3>2 DEF Max
      <3> QED BY <3>1, <3>3 DEF LastEnd
    <2> QED BY <1>2, <2>1, <2>2
  <1>5. /\ buffer' \in Seq(Symbols) /\ Len(buffer') = r
        /\ \A i \in 1..r : buffer'[i] = symbols[3 * m + i]
    <2>1. buffer' = SubSeq(symbols, 3 * m + 1, Len(symbols))
      BY <1>4 DEF Remainder, symbols
    <2>2. \A i \in (3 * m + 1)..Len(symbols) : symbols[i] \in Symbols
      BY <1>1, <1>2, ElementOfSeq
    <2>3. 3 * m + 1 \in Int /\ Len(symbols) \in Int
      BY <1>2
    <2>4. /\ buffer' \in Seq(Symbols)
          /\ Len(buffer') = IF 3 * m + 1 <= Len(symbols) THEN Len(symbols) - (3 * m + 1) + 1 ELSE 0
          /\ \A i \in 1..(Len(symbols) - (3 * m + 1) + 1) : buffer'[i] = symbols[3 * m + 1 + i - 1]
      BY <2>1, <2>2, <2>3, SubSeqProperties
    <2>5. Len(buffer') = r
      BY <1>2, <2>4
    <2>6. \A i \in 1..r : 3 * m + 1 + i - 1 = 3 * m + i /\ i \in 1..(Len(symbols) - (3 * m + 1) + 1)
      BY <1>2
    <2>7. \A i \in 1..r : buffer'[i] = symbols[3 * m + i]
      BY <2>4, <2>6
    <2> QED BY <2>4, <2>5, <2>7
  <1>6. Answer' = Answer
    BY DEF Answer
  <1>7. ASSUME NEW i \in 1..r PROVE Faithful(buffer'[i], 3 * (d + m) + i, cut')
    <2>1. 3 * m + i \in 1..Len(symbols) /\ 3 * d + (3 * m + i) = 3 * (d + m) + i
      BY <1>2
    <2>2. Faithful(symbols[3 * m + i], 3 * d + (3 * m + i), Cut(wire[n]))
      BY <1>1, <2>1 DEF Following
    <2> QED BY <1>5, <2>1, <2>2
  <1>8. \A s, j, c : Faithful(s, j, c)' <=> Faithful(s, j, c)
    BY <1>6 DEF Faithful
  <1>9. /\ Len(wire) = Len(Answer) - 3 * d - Len(buffer) /\ Len(wire) \in Nat /\ Len(Answer) \in Nat
    <2>1. Len(Answer) \in Nat
      BY AnswerIs
    <2> QED BY <2>1, WireIs
  <1>10. 3 * (d + m) + r = 3 * d + Len(buffer) + n /\ 3 * (d + m) + r <= Len(Answer)
    <2>1. n <= Len(wire)
      BY <1>1, <1>9
    <2>2. 3 * d + Len(buffer) + n = 3 * d + Len(symbols)
      BY <1>1
    <2>3. 3 * (d + m) + r = 3 * d + Len(symbols)
      BY <1>2
    <2>4. 3 * d + Len(buffer) + n <= Len(Answer)
      BY <1>1, <1>9, <2>1
    <2> QED BY <2>2, <2>3, <2>4
  <1>11. wire' = SubSeq(Answer, 3 * (d + m) + r + 1, Len(Answer))
    <2> DEFINE w == SubSeq(Answer, 3 * (d + m) + r + 1, Len(Answer))
               p == 3 * d + Len(buffer)
    <2>1. p \in Nat /\ 3 * (d + m) + r + 1 = p + n + 1 /\ p + n <= Len(Answer) /\ Len(wire) = Len(Answer) - p
      BY <1>1, <1>9, <1>10
    <2> HIDE DEF p
    <2>2. \A t \in 1..Len(wire) : wire[t] = Answer[p + t] /\ wire[t] \in Symbols
      <3>1. wire \in Seq(Symbols) /\ \A t \in 1..Len(wire) : wire[t] = Answer[p + t]
        BY WireIs DEF p
      <3> QED BY <3>1, ElementOfSeq
    <2>3. n + 1 \in Int /\ Len(wire) \in Int /\ \A t \in (n + 1)..Len(wire) : wire[t] \in Symbols
      BY <1>1, <1>9, <2>2
    <2>4. /\ wire' \in Seq(Symbols)
          /\ Len(wire') = IF n + 1 <= Len(wire) THEN Len(wire) - (n + 1) + 1 ELSE 0
          /\ \A t \in 1..(Len(wire) - (n + 1) + 1) : wire'[t] = wire[n + 1 + t - 1]
      BY <2>3, SubSeqProperties
    <2>5. p + n + 1 \in Int /\ Len(Answer) \in Int /\ \A t \in (p + n + 1)..Len(Answer) : Answer[t] \in Symbols
      BY <1>1, <1>9, <2>1, AnswerSymbols, ElementOfSeq
    <2>6. /\ w \in Seq(Symbols)
          /\ Len(w) = IF p + n + 1 <= Len(Answer) THEN Len(Answer) - (p + n + 1) + 1 ELSE 0
          /\ \A t \in 1..(Len(Answer) - (p + n + 1) + 1) : w[t] = Answer[p + n + 1 + t - 1]
      BY <2>1, <2>5, SubSeqProperties
    <2> HIDE DEF w
    <2>7. Len(w) = Len(wire') /\ Len(w) = Len(wire) - n
      <3>1. Len(wire) \in Nat /\ Len(Answer) \in Nat /\ n \in Nat
        BY <1>1, <1>9
      <3>2. n <= Len(wire)
        BY <3>1
      <3>3. Len(wire') = Len(wire) - n
        <4>1. Len(wire') = IF n + 1 <= Len(wire) THEN Len(wire) - (n + 1) + 1 ELSE 0
          BY <2>4
        <4> QED BY <3>1, <3>2, <4>1
      <3>4. Len(w) = Len(Answer) - (p + n)
        <4>1. Len(w) = IF p + n + 1 <= Len(Answer) THEN Len(Answer) - (p + n + 1) + 1 ELSE 0
          BY <2>6
        <4>2. p \in Nat /\ p + n <= Len(Answer)
          BY <2>1
        <4> QED BY <3>1, <4>1, <4>2
      <3>5. p \in Nat /\ Len(wire) = Len(Answer) - p
        BY <2>1
      <3> QED BY <3>1, <3>3, <3>4, <3>5
    <2>8. ASSUME NEW t \in 1..Len(w) PROVE w[t] = wire'[t]
      <3>1. t \in Nat /\ t > 0 /\ t <= Len(wire) - n
        BY <1>1, <1>9, <2>7
      <3>2. w[t] = Answer[p + n + t]
        <4>1. t \in 1..(Len(Answer) - (p + n + 1) + 1) /\ p + n + 1 + t - 1 = p + n + t
          BY <1>1, <1>9, <2>1, <3>1
        <4> QED BY <2>6, <4>1
      <3>3. wire'[t] = wire[n + t]
        <4>1. t \in 1..(Len(wire) - (n + 1) + 1) /\ n + 1 + t - 1 = n + t
          BY <1>1, <1>9, <2>1, <3>1
        <4> QED BY <2>4, <4>1
      <3>4. wire[n + t] = Answer[p + (n + t)] /\ p + (n + t) = p + n + t
        BY <1>1, <1>9, <2>1, <2>2, <3>1
      <3> QED BY <3>2, <3>3, <3>4
    <2>9. w = wire'
      BY <2>4, <2>6, <2>7, <2>8, SeqEqual
    <2> QED BY <2>9 DEF w
  <1>12. r = 1 /\ HasText(script[d + m + 1]) => d + m + 1 \in cut'
    <2> SUFFICES ASSUME r = 1, HasText(script[d + m + 1]) PROVE d + m + 1 \in cut'
      OBVIOUS
    <2>1. d + m \in Nat /\ 3 * (d + m) + 1 = 3 * d + Len(buffer) + n
      BY <1>2, <1>10
    <2> QED BY <2>1, CutOnly
  <1>13. cut' \in SUBSET {k \in Nat : 3 * k <= 3 * (d + m) + r + 2}
    BY <1>10, CutOnly
  <1>14. PICK e \in Nat : e = d + m
    BY <1>2
  <1>15. Ended(e)'
    BY <1>2, <1>5, <1>6, <1>7, <1>8, <1>10, <1>11, <1>12, <1>13, <1>14 DEF Ended
  <1> QED BY <1>14, <1>15 DEF m, symbols

(* The lines that have ended when nothing more is said to the reader.      *)
LEMMA SaidWhenTold ==
  ASSUME ScriptOk, closed \in BOOLEAN, NEW k \in Nat, k <= Lines,
         k = Lines \/ \E e \in 1..k : script[e].kind = "error", NEW p
  PROVE  SaidOn(p) = HeardOn(p, k)
  <1>1. Len(script) \in Nat /\ Lines \in Nat /\ Lines <= Len(script)
        /\ \A n \in 1..Len(script) : n < Len(script) \/ closed <=> n <= Lines
    BY DEF ScriptOk, Lines
  <1>2. Said = Heard(k)
    <2>1. ASSUME NEW n \in Said PROVE n \in Heard(k)
      BY <1>1, <2>1 DEF Said, Heard
    <2>2. ASSUME NEW n \in Heard(k) PROVE n \in Said
      BY <1>1, <2>2 DEF Said, Heard
    <2> QED BY <2>1, <2>2
  <1> QED BY <1>2 DEF SaidOn, HeardOn

(* At the end of the source every line with a newline has ended.           *)
LEMMA EndedLines ==
  ASSUME ScriptOk, closed \in BOOLEAN, NEW d \in Nat, Ended(d)
  PROVE  /\ d <= Lines /\ Lines \in Nat /\ Lines <= Len(script)
         /\ wire = <<>> => d = Lines /\ 3 * d + Len(buffer) = Len(Answer)
  <1>1. /\ \A n \in Nat : 3 * n <= Len(Answer) => n <= Lines
        /\ Lines \in Nat /\ Lines <= Len(script)
        /\ Len(Answer) \in Nat /\ Len(Answer) >= 3 * Lines
    BY AnswerIs
  <1>2. Len(buffer) \in 0..2 /\ 3 * d + Len(buffer) <= Len(Answer)
    BY DEF Ended
  <1>3. d <= Lines
    BY <1>1, <1>2
  <1>4. ASSUME wire = <<>> PROVE d = Lines /\ 3 * d + Len(buffer) = Len(Answer)
    <2>1. Len(wire) = Len(Answer) - 3 * d - Len(buffer) /\ Len(wire) = 0
      BY <1>4, WireIs
    <2>2. Lines \in Nat /\ Len(Answer) \in Nat /\ Len(Answer) >= 3 * Lines
      BY <1>1
    <2>3. 3 * d + Len(buffer) = Len(Answer)
      BY <1>2, <2>1, <2>2
    <2>4. PICK b, m, a : b = Len(buffer) /\ m = Lines /\ a = Len(Answer)
      OBVIOUS
    <2>5. b \in 0..2 /\ m \in Nat /\ a \in Nat /\ a >= 3 * m /\ 3 * d + b = a /\ d <= m
      BY <1>2, <1>3, <2>2, <2>3, <2>4
    <2>6. d = m
      BY <2>5
    <2> QED BY <2>3, <2>4, <2>6
  <1> QED BY <1>1, <1>3, <1>4

(* The failure that the reader met is the first one of the answer.         *)
LEMMA FailureTold ==
  ASSUME ScriptOk, closed \in BOOLEAN, NEW k \in Nat, k <= Lines, NEW reader, NEW damaged,
         Tells(reader, k, damaged), reader.at = "failed"
  PROVE  /\ \A p \in Paths : InOrder(reader.texts[p], SaidOn(p), damaged)
         /\ Errors # {} /\ reader.code = script[Min(Errors)].code
  <1>1. PICK e \in 1..k : /\ script[e].kind = "error" /\ reader.code = script[e].code
                          /\ \A m \in 1..(e - 1) : script[m].kind # "error"
    BY DEF Tells
  <1>2. \A p \in Paths : SaidOn(p) = HeardOn(p, k)
    BY <1>1, SaidWhenTold
  <1>3. Len(script) \in Nat /\ e \in 1..Len(script) /\ (e < Len(script) \/ closed)
    BY <1>1 DEF ScriptOk, Lines
  <1>4. \A n \in 1..Len(script) : script[n].kind # "envelope"
    <2>1. \A n \in 1..Len(script) : script[n].kind = "envelope" => Len(script) = 1
      BY DEF ScriptOk
    <2> QED BY <1>1, <1>3, <2>1
  <1>5. e \in Errors /\ \A n \in Errors : n \in Nat /\ e <= n
    BY <1>1, <1>3, <1>4 DEF Errors
  <1>6. Min(Errors) = e
    <2>1. PICK S : S = Errors
      OBVIOUS
    <2>2. e \in S /\ e \in Nat /\ \A n \in S : n \in Nat /\ e <= n
      BY <1>5, <2>1
    <2>3. Min(S) = CHOOSE x \in S : \A y \in S : x <= y
      BY DEF Min
    <2>4. ASSUME NEW x \in S, \A y \in S : x <= y PROVE x = e
      BY <2>2, <2>4
    <2> QED BY <2>1, <2>2, <2>3, <2>4
  <1> QED BY <1>1, <1>2, <1>5, <1>6 DEF Tells

(* Without a failure the answer is over when all its lines are told.       *)
LEMMA AllTold ==
  ASSUME ScriptOk, closed \in BOOLEAN, NEW k \in Nat, k = Lines, NEW reader, NEW damaged,
         Tells(reader, k, damaged), reader.at # "failed"
  PROVE  /\ \A p \in Paths : InOrder(reader.texts[p], SaidOn(p), damaged)
         /\ Errors = {n \in 1..Len(script) : script[n].kind = "envelope"}
  <1>1. \A m \in 1..k : script[m].kind # "error"
    BY DEF Tells
  <1>2. \A p \in Paths : SaidOn(p) = HeardOn(p, k)
    BY AnswerIs, SaidWhenTold
  <1>3. \A n \in 1..Len(script) : n < Len(script) \/ closed => n \in 1..k
    BY DEF ScriptOk, Lines
  <1> QED BY <1>1, <1>2, <1>3 DEF Tells, Errors

(* What EmptyCode says of texts that were told.                            *)
LEMMA EmptyTold ==
  ASSUME texts \in [Paths -> Seq(Nat)],
         \A p \in Paths : InOrder(texts[p], SaidOn(p), cut)
  PROVE  EmptyCode = IF Shown = {} THEN "provider_empty_response" ELSE "none"
  <1>1. ASSUME NEW q \in Paths, NEW i \in 1..Len(texts[q]), Counts(texts[q][i])
        PROVE  Shown # {}
    <2>1. PICK order \in [1..Len(texts[q]) -> SaidOn(q)] :
            texts[q][i] = IF order[i] \in cut THEN Damaged ELSE order[i]
      BY DEF InOrder
    <2>2. order[i] \in SaidOn(q) /\ order[i] # Damaged
      BY <2>1 DEF SaidOn, Said, Damaged
    <2>3. stream \/ order[i] \in cut \/ ~script[order[i]].blank
      BY <1>1, <2>1, <2>2 DEF Counts
    <2> QED BY <2>2, <2>3 DEF Shown, Paths
  <1>2. ASSUME NEW n \in Shown
        PROVE  \E q \in Paths : \E i \in 1..Len(texts[q]) : Counts(texts[q][i])
    <2>1. PICK q \in Paths : n \in SaidOn(q)
      BY DEF Shown, Paths
    <2>2. PICK order \in [1..Len(texts[q]) -> SaidOn(q)] :
            /\ \A m \in SaidOn(q) : \E i \in 1..Len(texts[q]) : order[i] = m
            /\ \A i \in 1..Len(texts[q]) :
                 texts[q][i] = IF order[i] \in cut THEN Damaged ELSE order[i]
      BY DEF InOrder
    <2>3. PICK i \in 1..Len(texts[q]) : order[i] = n
      BY <2>1, <2>2
    <2>4. Counts(texts[q][i])
      BY <2>2, <2>3 DEF Counts, Shown
    <2> QED BY <2>4
  <1> QED BY <1>1, <1>2 DEF EmptyCode

(* What is left unread is an envelope exactly when the answer is one.      *)
LEMMA BodyLeftIs ==
  ASSUME ScriptOk, closed \in BOOLEAN, NEW d \in Nat, Ended(d), wire = <<>>,
         plain \in Seq(Spoken), PlainTells(plain, d)
  PROVE  /\ EnvelopeLeft <=> script[1].kind = "envelope"
         /\ EnvelopeLeft => BodyLeft[1] = script[1]
  <1>1. d = Lines /\ 3 * d + Len(buffer) = Len(Answer) /\ d <= Len(script) /\ Len(buffer) \in 0..2
    BY EndedLines DEF Ended
  <1>2. CASE Len(buffer) = 2
    <2>1. Place(3 * d + 2, d, 2) /\ 3 * d + 2 <= Len(Answer)
      BY <1>1, <1>2 DEF Place
    <2>2. Answer[3 * d + 2].event = script[d + 1]
      <3>1. PICK j, h : j = 3 * d + 2 /\ h = 2
        OBVIOUS
      <3>2. Place(j, d, h) /\ j <= Len(Answer) /\ h < 3
        BY <2>1, <3>1
      <3>3. Answer[j].event = script[d + 1]
        BY <3>2, SymbolKinds
      <3> QED BY <3>1, <3>3
    <2>3. buffer[2].event = script[d + 1]
      BY <1>2, <2>2 DEF Ended, Faithful
    <2>4. BodyLeft = plain \o <<script[d + 1]>>
      <3> DEFINE tail == [k \in 1..(Len(buffer) \div 2) |-> buffer[2 * k].event]
      <3>1. tail = <<script[d + 1]>>
        BY <1>2, <2>3
      <3> QED BY <3>1 DEF BodyLeft
    <2>5. d < Len(script) /\ d + 1 \in 1..Len(script) /\ script[d + 1] \in Spoken
      <3>1. d < Len(script)
        <4>1. 2 \in 1..2 /\ 3 * d + 2 <= Len(Answer)
          BY <2>1
        <4> QED BY <4>1, AnswerIs
      <3> QED BY <3>1 DEF ScriptOk
    <2>6. /\ Len(BodyLeft) = Len(plain) + 1 /\ Len(plain) \in Nat
          /\ \A i \in 1..(Len(plain) + 1) :
               BodyLeft[i] = IF i <= Len(plain) THEN plain[i] ELSE <<script[d + 1]>>[i - Len(plain)]
      BY <2>4, <2>5, ConcatProperties
    <2>7. CASE script[1].kind = "envelope"
      <3>1. Len(script) = 1 /\ d = 0
        BY <2>5, <2>7 DEF ScriptOk
      <3>2. plain = <<>>
        BY <2>7, <3>1 DEF PlainTells
      <3>3. Len(BodyLeft) = 1 /\ BodyLeft[1] = script[1]
        BY <2>6, <3>1, <3>2
      <3> QED BY <2>7, <3>3 DEF EnvelopeLeft
    <2>8. CASE script[1].kind # "envelope"
      <3>1. \A i \in 1..Len(plain) : plain[i].kind # "envelope"
        BY <2>8 DEF PlainTells
      <3>2. script[d + 1].kind # "envelope"
        BY <2>5, <2>8 DEF ScriptOk
      <3>3. ASSUME Len(BodyLeft) = 1 PROVE BodyLeft[1].kind # "envelope"
        <4>1. Len(plain) = 0
          BY <2>6, <3>3
        <4>2. BodyLeft[1] = script[d + 1]
          BY <2>6, <4>1
        <4> QED BY <3>2, <4>2
      <3> QED BY <2>8, <3>3 DEF EnvelopeLeft
    <2> QED BY <2>7, <2>8
  <1>3. CASE Len(buffer) # 2
    <2>1. Len(buffer) \div 2 = 0
      <3>1. Len(buffer) = 0 \/ Len(buffer) = 1
        BY <1>1, <1>3
      <3>2. 0 \div 2 = 0 /\ 1 \div 2 = 0
        OBVIOUS
      <3> QED BY <3>1, <3>2
    <2>2. BodyLeft = plain
      <3> DEFINE tail == [k \in 1..(Len(buffer) \div 2) |-> buffer[2 * k].event]
      <3>1. tail = <<>>
        BY <2>1
      <3> HIDE DEF tail
      <3>2. BodyLeft = plain \o tail
        BY DEF BodyLeft, tail
      <3> QED BY <3>1, <3>2, ConcatEmptySeq
    <2>3. CASE script[1].kind = "envelope"
      <3>1. Len(script) = 1
        BY <2>3 DEF ScriptOk
      <3>2. Len(Answer) = 3 * Len(script) - (IF closed THEN 0 ELSE 1)
        BY AnswerIs
      <3>3. d = 1
        <4>1. Len(buffer) \in 0..1 /\ 3 * d + Len(buffer) = Len(Answer)
          BY <1>1, <1>3
        <4>2. Len(Answer) = 3 \/ Len(Answer) = 2
          BY <3>1, <3>2
        <4>3. PICK b : b = Len(buffer)
          OBVIOUS
        <4>4. b \in 0..1 /\ (3 * d + b = 3 \/ 3 * d + b = 2)
          BY <4>1, <4>2, <4>3
        <4> QED BY <4>4
      <3>4. plain = <<script[1]>>
        BY <2>3, <3>3 DEF PlainTells
      <3> QED BY <2>2, <2>3, <3>4 DEF EnvelopeLeft
    <2>4. CASE script[1].kind # "envelope"
      BY <2>2, <2>4 DEF EnvelopeLeft, PlainTells
    <2> QED BY <2>3, <2>4
  <1> QED BY <1>2, <1>3

(* Where the call awaits the provider before there is an answer.           *)
Asked == {"token", "session", "challenge", "upload", "poll", "completion"}

(* Where it may be before it reads.                                        *)
Early == {"begin", "lease", "files", "pause"} \cup Asked

(* Where it stands when it has ended.                                      *)
Ends == {"cleaning", "read", "failed"}

(* Nothing of an answer has been read.                                     *)
Unread ==
  /\ script = <<>> /\ buffer = <<>> /\ plain = <<>> /\ path = first
  /\ texts = [p \in Paths |-> <<>>] /\ cut = {}

(* The reader the variables describe, with its place.                      *)
ReaderAt(a) == [Reader EXCEPT !.at = a]

(* The reader stands where the lines that have ended put it.               *)
Stands(a) ==
  \E d \in Nat, reader \in Readers : \E damaged :
    /\ reader = ReaderAt(a) /\ damaged = cut
    /\ Ended(d) /\ Tells(reader, d, damaged)

(* The inductive invariant: the pieces of the answer in the reader, in the *)
(* buffer and on the wire are the answer, whole and in order.              *)
CallReads ==
  /\ stream \in BOOLEAN /\ closed \in BOOLEAN /\ first \in Paths
  /\ at \in Early \cup Ends \cup {"reading", "over"}
  /\ open \in Asked \cup Cleanup \cup {"none"}
  /\ open \in Asked => at = open
  /\ open \in Cleanup => at = "cleaning" /\ session \in {"released", "dropped"}
  /\ at \in Early => Unread /\ code = "none"
  /\ at \in Ends => session # "leased"
  /\ at \in {"reading", "over"} => ScriptOk
  /\ at = "reading" => Stands("reading")
  /\ at = "over" => Stands("ended")
  /\ TextIndependentOfChunks

(* It holds before the call begins,                                        *)
LEMMA CallReadsInit == ASSUME CallInit PROVE CallReads
  BY DEF CallInit, CallReads, Early, Ends, Asked, Unread, TextIndependentOfChunks, Finished, Cleanup

(* The ways to end, and to go on: where a step leaves a call that had no   *)
(* answer before.                                                          *)
Going ==
  /\ at' \in Early \cup Ends
  /\ open' \in Asked \cup Cleanup \cup {"none"}
  /\ open' \in Asked => at' = open'
  /\ open' \in Cleanup => at' = "cleaning" /\ session' \in {"released", "dropped"}
  /\ at' \in Early => code' = "none"
  /\ at' \in Ends => session' # "leased"

HasEnded ==
  /\ at' \in Ends /\ open' \in {"none"} \cup Cleanup
  /\ open' \in Cleanup => at' = "cleaning" /\ session' \in {"released", "dropped"}
  /\ session' # "leased"

LEMMA Finalizes == ASSUME NEW outcome, finalizeSession(outcome) PROVE HasEnded
  BY DEF finalizeSession, releaseSession, invalidateSession, Over, CleanUp, Cleanup, HasEnded, Ends

LEMMA FailEnds == ASSUME NEW failure, Fail(failure) PROVE HasEnded
  BY DEF Fail, releaseSession, invalidateSession, Over, CleanUp, Cleanup, HasEnded, Ends

LEMMA EndedGoes == ASSUME HasEnded PROVE Going
  BY DEF HasEnded, Going, Ends, Early, Asked, Cleanup

LEMMA SendGoes ==
  ASSUME NEW step \in Asked, Send(step), code = "none" PROVE Going
  <1>1. CASE aborted
    BY <1>1, FailEnds, EndedGoes DEF Send
  <1>2. CASE ~aborted
    BY <1>2 DEF Send, Going, Ends, Early, Asked, Cleanup
  <1> QED BY <1>1, <1>2

(* while nothing of an answer has been read,                               *)
LEMMA CallReadsEarly ==
  ASSUME CallReads, at \in Early,
         \/ RejectInput \/ AcquireToken \/ Exchanged \/ Lease \/ Created
         \/ NextFile \/ Solved \/ Uploaded \/ Polled \/ Pause
         \/ StepFails \/ Abort \/ Refused
  PROVE  CallReads'
  <1>2. UNCHANGED reading
    BY DEF RejectInput, AcquireToken, Exchanged, Lease, Created, NextFile, Solved,
           Uploaded, Polled, Pause, StepFails, Abort, Refused
  <1>3. Unread'
    BY <1>2 DEF CallReads, Unread, reading
  <1>6. code = "none"
    BY DEF CallReads
  <1>7. Going
    <2>1. CASE RejectInput
      BY <2>1, FailEnds, EndedGoes DEF RejectInput
    <2>2. CASE AcquireToken
      <3>1. CASE cached
        BY <1>6, <2>2, <3>1 DEF AcquireToken, CallReads, Going, Early, Ends, Asked, Cleanup
      <3>2. CASE ~cached
        BY <1>6, <2>2, <3>2, SendGoes DEF AcquireToken, Asked
      <3> QED BY <3>1, <3>2
    <2>3. CASE Exchanged
      BY <1>6, <2>3 DEF Exchanged, CallReads, Going, Early, Ends, Asked, Cleanup
    <2>4. CASE Lease
      <3>1. CASE Send("session")
        BY <1>6, <3>1, SendGoes DEF Asked
      <3>2. CASE at' = "files" /\ UNCHANGED <<open, code>>
        BY <1>6, <2>4, <3>2 DEF Lease, CallReads, Going, Early, Ends, Asked, Cleanup
      <3> QED BY <2>4, <3>1, <3>2 DEF Lease
    <2>5. CASE Created
      BY <1>6, <2>5 DEF Created, CallReads, Going, Early, Ends, Asked, Cleanup
    <2>6. CASE NextFile
      BY <1>6, <2>6, SendGoes DEF NextFile, Asked
    <2>7. CASE Solved
      <3>1. proof' \in Asked /\ Send(proof')
        BY <2>7 DEF Solved, Asked
      <3> QED BY <1>6, <3>1, SendGoes
    <2>8. CASE Uploaded
      <3>1. CASE Send("poll")
        BY <1>6, <3>1, SendGoes DEF Asked
      <3>2. CASE at' = "files" /\ open' = "none" /\ UNCHANGED <<code, session>>
        BY <1>6, <3>2 DEF Going, Early, Ends, Asked, Cleanup
      <3> QED BY <2>8, <3>1, <3>2 DEF Uploaded
    <2>9. CASE Polled
      <3>1. CASE Fail("provider_media_processing_timeout")
        BY <3>1, FailEnds, EndedGoes
      <3>2. CASE at' \in {"files", "pause"} /\ open' = "none" /\ UNCHANGED <<code, session>>
        BY <1>6, <3>2 DEF Going, Early, Ends, Asked, Cleanup
      <3> QED BY <2>9, <3>1, <3>2 DEF Polled
    <2>10. CASE Pause
      BY <1>6, <2>10, SendGoes DEF Pause, Asked
    <2>11. CASE StepFails
      BY <2>11, FailEnds, EndedGoes DEF StepFails
    <2>12. CASE Abort
      <3>1. UNCHANGED <<at, open, code, session>>
        BY <2>12 DEF Abort, Early, Asked
      <3> QED BY <1>6, <3>1 DEF CallReads, Going, Early, Ends, Asked, Cleanup
    <2>13. CASE Refused
      BY <2>13, Finalizes, EndedGoes DEF Refused
    <2> QED BY <2>1, <2>2, <2>3, <2>4, <2>5, <2>6, <2>7, <2>8, <2>9, <2>10, <2>11, <2>12, <2>13
  <1>8. (stream \in BOOLEAN /\ closed \in BOOLEAN /\ first \in Paths)'
    BY <1>2 DEF CallReads, reading
  <1>9. TextIndependentOfChunks'
    BY <1>3 DEF TextIndependentOfChunks, Finished, Unread
  <1>10. at' \notin {"reading", "over"}
    BY <1>7 DEF Going, Early, Ends, Asked
  <1> QED BY <1>3, <1>7, <1>8, <1>9, <1>10 DEF Going, CallReads

(* What was read is there as long as nothing reads on.                     *)
LEMMA TextStays ==
  ASSUME TextIndependentOfChunks, UNCHANGED <<script, closed, stream, first, texts, cut, code>>,
         Finished' => Finished
  PROVE  TextIndependentOfChunks'
  <1>1. /\ Errors' = Errors /\ Shown' = Shown
        /\ \A p \in Paths : InOrder(texts[p], SaidOn(p), cut)' <=> InOrder(texts[p], SaidOn(p), cut)
    BY DEF Errors, Shown, SaidOn, Said, PathOf, Announced, InOrder
  <1> QED BY <1>1 DEF TextIndependentOfChunks

(* while the session of a call that is over is cleaned up,                 *)
LEMMA CallReadsCleaning ==
  ASSUME CallReads, at \in Ends, ExchangedAgain \/ CleanupSettles \/ Abort
  PROVE  CallReads'
  <1>1. /\ UNCHANGED <<reading, code, session>> /\ at' \in Ends
        /\ open' \in Cleanup \cup {"none"} /\ (open' \in Cleanup => at' = "cleaning" /\ open \in Cleanup)
        /\ aborted' = FALSE => aborted = FALSE
    <2>1. CASE ExchangedAgain
      BY <2>1 DEF ExchangedAgain, CallReads, Cleanup
    <2>2. CASE CleanupSettles
      BY <2>2 DEF CleanupSettles, Over, Ends, Cleanup
    <2>3. CASE Abort
      BY <2>3 DEF Abort, CallReads, Ends, Asked, Cleanup
    <2> QED BY <2>1, <2>2, <2>3
  <1>2. Finished' => Finished
    <2>1. script' = script /\ at \in {"cleaning", "read", "failed"}
      BY <1>1 DEF reading, Ends
    <2>2. aborted => aborted'
      BY DEF ExchangedAgain, CleanupSettles, Abort
    <2> QED BY <2>1, <2>2 DEF Finished
  <1>3. TextIndependentOfChunks'
    BY <1>1, <1>2, TextStays DEF CallReads, reading
  <1> QED BY <1>1, <1>3 DEF CallReads, reading, Early, Ends, Asked, Cleanup

(* when the client leaves a call that is being read,                       *)
LEMMA CallReadsBreak ==
  ASSUME CallReads, at = "reading", Abort
  PROVE  CallReads'
  <1>1. HasEnded /\ aborted' /\ UNCHANGED reading
    BY Finalizes DEF Abort
  <1>2. TextIndependentOfChunks'
    BY <1>1 DEF TextIndependentOfChunks, Finished
  <1> QED BY <1>1, <1>2 DEF HasEnded, CallReads, reading, Early, Ends, Asked, Cleanup

(* Where reading begins.                                                   *)
LEMMA ReadingBegins ==
  ScriptOk /\ closed \in BOOLEAN /\ stream \in BOOLEAN /\ first \in Paths
    /\ buffer = <<>> /\ plain = <<>> /\ texts = [p \in Paths |-> <<>>] /\ cut = {}
    /\ path = first /\ code = "none" /\ wire = Wired(script, closed)
  => Stands("reading")
  <1> SUFFICES ASSUME ScriptOk, closed \in BOOLEAN, stream \in BOOLEAN, first \in Paths,
                      buffer = <<>>, plain = <<>>, texts = [p \in Paths |-> <<>>], cut = {},
                      path = first, code = "none", wire = Wired(script, closed)
               PROVE  Stands("reading")
    OBVIOUS
  <1> DEFINE reader == ReaderAt("reading")
  <1>1. /\ reader.at = "reading" /\ reader.code = "none" /\ reader.path = first
        /\ reader.texts = [p \in Paths |-> <<>>] /\ reader.plain = <<>>
        /\ reader \in Readers
    <2>1. reader = [at |-> "reading", code |-> "none", path |-> first,
                    texts |-> [p \in Paths |-> <<>>], plain |-> <<>>]
      BY DEF ReaderAt, Reader
    <2>2. [p \in Paths |-> <<>>] \in [Paths -> Seq(Nat)]
      OBVIOUS
    <2>3. <<>> \in Seq(Spoken)
      OBVIOUS
    <2> HIDE DEF reader
    <2> QED BY <2>1, <2>2, <2>3 DEF Readers
  <1>2. Ended(0)
    <2>1. Answer \in Seq(Symbols) /\ Len(Answer) \in Nat
      BY AnswerSymbols, AnswerIs
    <2>2. Len(buffer) = 0
      OBVIOUS
    <2>3. wire = SubSeq(Answer, 1, Len(Answer))
      BY <2>1, SubSeqFull DEF Answer
    <2>4. 3 * 0 + Len(buffer) = 0 /\ 3 * 0 + Len(buffer) + 1 = 1
      BY <2>2
    <2> QED BY <2>1, <2>2, <2>3, <2>4 DEF Ended
  <1>3. Tells(reader, 0, {})
    <2>1. \A p \in Paths : HeardOn(p, 0) = {}
      BY DEF HeardOn, Heard
    <2>2. \A p \in Paths : reader.texts[p] = <<>>
      BY <1>1
    <2>3. PlainTells(reader.plain, 0)
      BY <1>1 DEF PlainTells
    <2>4. PathOf(0) = first
      BY PathOfNone
    <2>5. \A p \in Paths : InOrder(reader.texts[p], HeardOn(p, 0), {})
      BY <2>1, <2>2, InOrderEmpty
    <2> HIDE DEF reader
    <2> QED BY <1>1, <2>3, <2>4, <2>5 DEF Tells
  <1> HIDE DEF reader
  <1>4. reader \in Readers /\ reader = ReaderAt("reading")
    BY <1>1 DEF reader
  <1> QED BY <1>2, <1>3, <1>4 DEF Stands

(* when the answer begins,                                                 *)
LEMMA CallReadsAnswer ==
  ASSUME CallReads, AnswerComes
  PROVE  CallReads'
  <1>1. at = "completion" /\ Unread /\ code = "none"
    BY DEF CallReads, AnswerComes, Asked, Early
  <1>2. ScriptOk'
    <2>1. CASE \E n \in 1..MaxEvents : \E events \in [1..n -> Events] :
                 script' \in {events, Append(events, DoneEvent)}
      <3>0. PICK n \in 1..MaxEvents : \E events \in [1..n -> Events] :
                 script' \in {events, Append(events, DoneEvent)}
        BY <2>1
      <3>1. PICK events \in [1..n -> Events] : script' \in {events, Append(events, DoneEvent)}
        BY <3>0
      <3>2. events \in Seq(Events) /\ Len(events) = n /\ n \in Nat /\ n > 0
        BY <3>1, CallAssumption
      <3>3. \A e \in Events : e.kind \notin {"done", "envelope"} /\ e \in Spoken
        BY DEF Events, Spoken
      <3>4. events \in Seq(Spoken)
        BY <3>1, <3>3
      <3>5. CASE script' = events
        <4>1. \A m \in 1..Len(script') : script'[m].kind \notin {"done", "envelope"}
          BY <3>1, <3>2, <3>3, <3>5
        <4> QED BY <3>2, <3>4, <3>5, <4>1 DEF ScriptOk
      <3>6. CASE script' = Append(events, DoneEvent)
        <4>1. DoneEvent \in Spoken /\ DoneEvent.kind = "done"
          BY DEF Spoken, DoneEvent
        <4>2. /\ script' \in Seq(Spoken) /\ Len(script') = n + 1
              /\ \A m \in 1..(n + 1) : script'[m] = IF m <= n THEN events[m] ELSE DoneEvent
          BY <3>2, <3>4, <3>6, <4>1, AppendProperties
        <4>3. \A m \in 1..n : script'[m] \in Events
          BY <3>1, <3>2, <4>2
        <4>4. \A m \in 1..Len(script') : m = Len(script') \/ m \in 1..n
          BY <3>2, <4>2
        <4>5. script'[n + 1] = DoneEvent
          BY <3>2, <4>2
        <4>6. \A m \in 1..Len(script') : script'[m].kind # "envelope"
                                         /\ (script'[m].kind = "done" => m = Len(script'))
          BY <3>3, <4>1, <4>2, <4>3, <4>4, <4>5
        <4>7. Len(script') > 0
          BY <3>2, <4>2
        <4> QED BY <4>2, <4>6, <4>7 DEF ScriptOk
      <3> QED BY <3>1, <3>5, <3>6
    <2>2. CASE \E envelope \in Envelopes : script' = <<envelope>>
      <3>1. PICK envelope \in Envelopes : script' = <<envelope>>
        BY <2>2
      <3>2. envelope \in Spoken /\ envelope.kind = "envelope"
        BY DEF Spoken, Envelopes
      <3> QED BY <3>1, <3>2 DEF ScriptOk
    <2> QED BY <2>1, <2>2 DEF AnswerComes
  <1>3. (/\ closed \in BOOLEAN /\ stream \in BOOLEAN /\ first \in Paths
         /\ buffer = <<>> /\ plain = <<>> /\ texts = [p \in Paths |-> <<>>] /\ cut = {}
         /\ path = first /\ code = "none" /\ wire = Wired(script, closed))'
    BY <1>1 DEF AnswerComes, CallReads, Unread, Wired
  <1>4. Stands("reading")'
    BY <1>2, <1>3, ReadingBegins, PTL
  <1>5. at' = "reading" /\ open' = "none"
    BY DEF AnswerComes
  <1> QED BY <1>2, <1>3, <1>4, <1>5
          DEF CallReads, TextIndependentOfChunks, Finished, Asked, Early, Ends, Cleanup

(* after every chunk, wherever it was cut,                                 *)
LEMMA CallReadsChunk ==
  ASSUME CallReads, Chunk
  PROVE  CallReads'
  <1>1. /\ at = "reading" /\ ScriptOk /\ Stands("reading")
        /\ stream \in BOOLEAN /\ closed \in BOOLEAN /\ first \in Paths
    BY DEF Chunk, CallReads
  <1>2. PICK d \in Nat, start \in Readers :
          /\ start = ReaderAt("reading") /\ Ended(d) /\ Tells(start, d, cut)
    BY <1>1 DEF Stands
  <1>3. start = Reader /\ start.at = "reading"
    BY <1>2 DEF ReaderAt, Reader
  <1>4. PICK n \in 1..Len(wire) :
          LET symbols == buffer \o Decoded(SubSeq(wire, 1, n))
              reader  == ReadOn(Reader, symbols)
          IN  /\ wire' = SubSeq(wire, n + 1, Len(wire))
              /\ cut' = IF Opens(wire[n]) THEN cut \cup {wire[n].text} ELSE cut
              /\ buffer' = Remainder(symbols)
              /\ path' = reader.path /\ texts' = reader.texts /\ plain' = reader.plain
              /\ code' = reader.code
              /\ reader.at = "failed" => finalizeSession(reader.code)
              /\ reader.at # "failed" =>
                   /\ at' = IF reader.at = "ended" THEN "over" ELSE "reading"
                   /\ UNCHANGED open
    BY DEF Chunk
  <1>5. UNCHANGED <<script, closed, stream, first>>
    BY DEF Chunk
  <1> DEFINE new == ReadOn(start, Held(n))
  <1>6. /\ wire' = SubSeq(wire, n + 1, Len(wire)) /\ cut' = Cut(wire[n])
        /\ buffer' = Remainder(Held(n))
        /\ path' = new.path /\ texts' = new.texts /\ plain' = new.plain /\ code' = new.code
        /\ new.at = "failed" => HasEnded
        /\ new.at # "failed" => at' = (IF new.at = "ended" THEN "over" ELSE "reading") /\ open' = open
    <2>1. new.at = "failed" => finalizeSession(new.code)
      BY <1>3, <1>4 DEF Held
    <2> HIDE DEF new
    <2>2. new.at = "failed" => HasEnded
      BY <2>1, Finalizes
    <2> QED BY <1>3, <1>4, <2>2 DEF Held, Cut, new
  <1>7. Tells(start, d, Cut(wire[n]))
    <2>1. ASSUME NEW p \in Paths PROVE InOrder(start.texts[p], HeardOn(p, d), Cut(wire[n]))
      <3>1. InOrder(start.texts[p], HeardOn(p, d), cut) /\ start.texts[p] \in Seq(Nat)
        BY <1>2 DEF Tells, Readers
      <3>2. ASSUME NEW m \in HeardOn(p, d) PROVE m \in cut <=> m \in Cut(wire[n])
        <4>1. m \in Nat /\ m <= d
          BY HeardInLines
        <4>2. Len(buffer) \in Nat /\ n \in Nat /\ n > 0
          BY <1>1, <1>2, WireIs DEF Ended
        <4>3. 3 * m - 2 # 3 * d + Len(buffer) + n
          BY <4>1, <4>2
        <4> QED BY <1>1, <1>2, <4>3, CutOnly
      <3> QED BY <3>1, <3>2, InOrderSame
    <2> QED BY <1>2, <2>1 DEF Tells
  <1>8. Following(Held(n), d, Cut(wire[n]))
    BY <1>1, <1>2, HeldIs
  <1>9. PICK e \in Nat : e = d + (Len(Held(n)) \div 3) /\ Ended(e)'
    BY <1>1, <1>2, <1>5, <1>6, EndedNext
  <1>10. new \in Readers /\ Tells(new, e, cut')
    <2>1. /\ ReadOn(start, Held(n)) \in Readers
          /\ Tells(ReadOn(start, Held(n)), d + (Len(Held(n)) \div 3), Cut(wire[n]))
      BY <1>1, <1>2, <1>7, <1>8, ReadOnTells
    <2> QED BY <1>6, <1>9, <2>1
  <1> HIDE DEF new
  <1>11. PICK reader, damaged : reader = new /\ damaged = cut'
    OBVIOUS
  <1>12. reader \in Readers /\ Tells(reader, e, damaged)
    BY <1>10, <1>11
  <1>13. Tells(reader, e, damaged)'
    BY <1>5, <1>12 DEF Tells, HeardOn, Heard, PathOf, Announced, PlainTells
  <1>14. reader.at \in {"reading", "ended", "failed"}
    BY <1>12 DEF Readers
  <1>15. reader = ReaderAt(reader.at)'
    <2>1. reader = [at |-> reader.at, code |-> reader.code, path |-> reader.path,
                    texts |-> reader.texts, plain |-> reader.plain]
      BY <1>12 DEF Readers
    <2> QED BY <1>6, <1>11, <2>1 DEF ReaderAt, Reader
  <1>16. (ScriptOk /\ stream \in BOOLEAN /\ closed \in BOOLEAN /\ first \in Paths)'
    BY <1>1, <1>5 DEF ScriptOk
  <1>17. open = "none"
    BY <1>1 DEF CallReads, Asked, Cleanup
  <1>18. CASE reader.at = "failed"
    <2>1. HasEnded
      BY <1>6, <1>11, <1>18
    <2>2. e <= Lines
      <3>1. Answer' = Answer
        BY <1>5 DEF Answer
      <3>2. Len(buffer') \in 0..2 /\ 3 * e + Len(buffer') <= Len(Answer)
        BY <1>9, <3>1 DEF Ended
      <3>3. Len(Answer) \in Nat /\ \A q \in Nat : 3 * q <= Len(Answer) => q <= Lines
        BY <1>1, AnswerIs
      <3>4. 3 * e <= Len(Answer)
        BY <3>2, <3>3
      <3> QED BY <3>3, <3>4
    <2>3. /\ \A p \in Paths : InOrder(reader.texts[p], SaidOn(p), damaged)
          /\ Errors # {} /\ reader.code = script[Min(Errors)].code
      BY <1>1, <1>12, <1>18, <2>2, FailureTold
    <2>4. Errors' = Errors /\ \A p : SaidOn(p)' = SaidOn(p)
      BY <1>5 DEF Errors, SaidOn, Said, PathOf, Announced
    <2>5. texts' = reader.texts /\ code' = reader.code /\ cut' = damaged
      BY <1>6, <1>11
    <2>6. \A p \in Paths : InOrder(texts[p], SaidOn(p), cut)'
      BY <2>3, <2>4, <2>5 DEF InOrder
    <2>7. TextIndependentOfChunks'
      BY <1>5, <2>3, <2>4, <2>5, <2>6 DEF TextIndependentOfChunks
    <2> QED BY <1>16, <2>1, <2>7 DEF CallReads, HasEnded, Early, Ends, Asked, Cleanup
  <1>19. CASE reader.at # "failed"
    <2>1. at' = (IF reader.at = "ended" THEN "over" ELSE "reading") /\ open' = "none"
      BY <1>6, <1>11, <1>14, <1>17, <1>19
    <2>2. Stands(reader.at)'
      BY <1>9, <1>11, <1>12, <1>13, <1>15 DEF Stands, Readers, Spoken, Events, DoneEvent, Envelopes
    <2>3. TextIndependentOfChunks'
      BY <2>1 DEF TextIndependentOfChunks, Finished
    <2>4. (at = "reading" => Stands("reading"))' /\ (at = "over" => Stands("ended"))'
      BY <1>14, <1>19, <2>1, <2>2
    <2> QED BY <1>16, <2>1, <2>3, <2>4 DEF CallReads, Early, Ends, Asked, Cleanup
  <1> QED BY <1>18, <1>19

(* and at the end of the source.                                           *)
LEMMA CallReadsEnd ==
  ASSUME CallReads, SourceEnds
  PROVE  CallReads'
  <1>1. /\ at \in {"reading", "over"} /\ ScriptOk
        /\ stream \in BOOLEAN /\ closed \in BOOLEAN /\ first \in Paths
        /\ Stands(IF at = "reading" THEN "reading" ELSE "ended")
    BY DEF SourceEnds, CallReads
  <1>2. PICK d \in Nat, reader \in Readers :
          /\ reader = ReaderAt(IF at = "reading" THEN "reading" ELSE "ended")
          /\ Ended(d) /\ Tells(reader, d, cut)
    BY <1>1 DEF Stands
  <1>3. /\ reader.at = IF at = "reading" THEN "reading" ELSE "ended"
        /\ reader.texts = texts /\ reader.plain = plain
    BY <1>2 DEF ReaderAt, Reader
  <1>4. /\ code' = IF at = "reading" /\ EnvelopeLeft THEN BodyLeft[1].code ELSE EmptyCode
        /\ HasEnded
        /\ UNCHANGED <<script, closed, stream, first, texts, cut>>
    BY Finalizes DEF SourceEnds, reading
  <1>5. d = Lines
    <2>1. d <= Lines /\ Lines \in Nat /\ Lines <= Len(script) /\ (wire = <<>> => d = Lines)
      BY <1>1, <1>2, EndedLines
    <2>2. at = "over" => d = Len(script)
      BY <1>2, <1>3 DEF Tells
    <2> QED BY <1>1, <2>1, <2>2 DEF SourceEnds
  <1>6. texts \in [Paths -> Seq(Nat)] /\ plain \in Seq(Spoken)
    BY <1>2, <1>3 DEF Readers
  <1>7. /\ \A p \in Paths : InOrder(texts[p], SaidOn(p), cut)
        /\ Errors = {n \in 1..Len(script) : script[n].kind = "envelope"}
    BY <1>1, <1>2, <1>3, <1>5, AllTold
  <1>8. EmptyCode = IF Shown = {} THEN "provider_empty_response" ELSE "none"
    BY <1>6, <1>7, EmptyTold
  <1>9. script[1].kind = "envelope" => Len(script) = 1
    BY <1>1 DEF ScriptOk
  <1>10. IF script[1].kind = "envelope"
         THEN Errors = {1} ELSE Errors = {}
    <2>1. \A n \in 1..Len(script) : script[n].kind = "envelope" => Len(script) = 1
      BY <1>1 DEF ScriptOk
    <2> QED BY <1>1, <1>7, <2>1 DEF ScriptOk
  <1>11. code' = IF Errors # {} THEN script[Min(Errors)].code
                 ELSE IF Shown = {} THEN "provider_empty_response" ELSE "none"
    <2>1. CASE script[1].kind = "envelope"
      <3>1. at = "reading"
        <4>1. at = "over" => script[Len(script)].kind = "done"
          BY <1>2, <1>3 DEF Tells
        <4> QED BY <1>1, <1>9, <2>1, <4>1
      <3>2. wire = <<>> /\ PlainTells(plain, d)
        BY <1>2, <1>3, <3>1 DEF SourceEnds, Tells
      <3>3. EnvelopeLeft /\ BodyLeft[1] = script[1]
        BY <1>1, <1>2, <1>6, <2>1, <3>2, BodyLeftIs
      <3>4. Min({1}) = 1
        BY DEF Min
      <3> QED BY <1>4, <1>10, <2>1, <3>1, <3>3, <3>4
    <2>2. CASE script[1].kind # "envelope"
      <3>1. at = "reading" => ~EnvelopeLeft
        <4>1. at = "reading" => wire = <<>>
          BY DEF SourceEnds
        <4>2. PlainTells(plain, d)
          BY <1>2, <1>3 DEF Tells
        <4> QED BY <1>1, <1>2, <1>6, <2>2, <4>1, <4>2, BodyLeftIs
      <3> QED BY <1>4, <1>8, <1>10, <2>2, <3>1
    <2> QED BY <2>1, <2>2
  <1>12. Errors' = Errors /\ Shown' = Shown /\ \A p : SaidOn(p)' = SaidOn(p)
    BY <1>4 DEF Errors, Shown, SaidOn, Said, PathOf, Announced
  <1>13. \A p \in Paths : InOrder(texts[p], SaidOn(p), cut)'
    BY <1>4, <1>7, <1>12 DEF InOrder
  <1>14. TextIndependentOfChunks'
    BY <1>4, <1>11, <1>12, <1>13 DEF TextIndependentOfChunks
  <1>16. (stream \in BOOLEAN /\ closed \in BOOLEAN /\ first \in Paths)'
    BY <1>1, <1>4
  <1> QED BY <1>4, <1>14, <1>16 DEF CallReads, HasEnded, Early, Ends, Asked, Cleanup

(* Every call the specification allows keeps it.                           *)
THEOREM CallInvariant == CallSpec => []CallReads
  <1>1. CallInit => CallReads
    BY CallReadsInit
  <1>2. CallReads /\ [CallNext]_callVars => CallReads'
    <2> SUFFICES ASSUME CallReads, [CallNext]_callVars PROVE CallReads'
      OBVIOUS
    <2>1. CASE CallNext
      <3>1. /\ RejectInput \/ AcquireToken \/ Exchanged \/ Lease \/ Created
               \/ NextFile \/ Solved \/ Uploaded \/ Polled \/ Pause
               \/ StepFails \/ Refused => at \in Early
            /\ ExchangedAgain \/ CleanupSettles => at \in Ends
            /\ Abort => at \in Early \cup Ends \cup {"reading"}
        BY DEF CallReads, RejectInput, AcquireToken, Exchanged, Lease, Created, NextFile, Solved,
               Uploaded, Polled, Pause, StepFails, Refused, ExchangedAgain, CleanupSettles, Abort,
               Early, Ends, Asked, Cleanup
      <3> QED BY <2>1, <3>1, CallReadsEarly, CallReadsCleaning, CallReadsBreak, CallReadsAnswer,
                 CallReadsChunk, CallReadsEnd DEF CallNext
    <2>2. CASE UNCHANGED callVars
      <3>1. /\ UNCHANGED <<at, open, code, stream, closed, first>>
            /\ UNCHANGED <<script, wire, buffer, plain, path, texts, cut>>
        BY <2>2 DEF callVars, reading
      <3>5. UNCHANGED session
        BY <2>2 DEF callVars
      <3>2. (at \in Early => Unread /\ code = "none")' /\ ScriptOk' = ScriptOk
        BY <3>1 DEF CallReads, Unread, ScriptOk
      <3>3. \A a : Stands(a) => Stands(a)'
        <4>1. Answer' = Answer
          BY <3>1 DEF Answer
        <4>2. \A s, j, c : Faithful(s, j, c)' <=> Faithful(s, j, c)
          BY <4>1 DEF Faithful
        <4>3. \A d : Ended(d)' <=> Ended(d)
          BY <3>1, <4>1, <4>2 DEF Ended
        <4>4. ASSUME NEW reader, NEW k, NEW c, Tells(reader, k, c) PROVE Tells(reader, k, c)'
          BY <3>1, <4>4 DEF Tells, HeardOn, Heard, PathOf, Announced, PlainTells
        <4>5. \A a : ReaderAt(a)' = ReaderAt(a)
          BY <3>1 DEF ReaderAt, Reader
        <4> QED BY <3>1, <4>3, <4>4, <4>5 DEF Stands
      <3>4. TextIndependentOfChunks'
        <4>1. aborted' = aborted
          BY <2>2 DEF callVars
        <4>2. Finished' => Finished
          BY <3>1, <4>1 DEF Finished
        <4> QED BY <3>1, <4>2, TextStays DEF CallReads
      <3> QED BY <3>1, <3>2, <3>3, <3>4, <3>5 DEF CallReads
    <2> QED BY <2>1, <2>2
  <1> QED BY <1>1, <1>2, PTL DEF CallSpec

(* What the client gets does not depend on how the network cuts the answer:*)
(* every text on its path and in order, damaged only where a character was cut,*)
(* and the failure the provider reported first (deepseek-stream.ts:236-332,*)
(* 373-475).                                                               *)
THEOREM CallTextIndependentOfChunks == CallSpec => []TextIndependentOfChunks
  <1>1. CallReads => TextIndependentOfChunks
    BY DEF CallReads
  <1> QED BY <1>1, CallInvariant, PTL

(* Whichever step ends a call, at whatever await the client left: nothing  *)
(* more is asked of the provider than to delete a session the call had,    *)
(* since axios sends nothing with an aborted signal, and the session is    *)
(* given back or dropped (chatCompletion's catch, finalizeSession).        *)
THEOREM CallEndsClean == CallSpec => CallsEndClean
<1> DEFINE Stops == aborted' /\ open' # open => open' \in {"none"} \cup Cleanup
           Clean == /\ open' \in Cleanup => session' \in {"released", "dropped"}
                    /\ at' \in {"cleaning", "read", "failed"} => session' # "leased"
<1>1. ASSUME HasEnded PROVE open' \in {"none"} \cup Cleanup
  BY <1>1 DEF HasEnded
<1>2. ASSUME NEW step, Send(step), aborted PROVE open' \in {"none"} \cup Cleanup
  BY <1>1, <1>2, FailEnds DEF Send
<1>3. ASSUME CallNext PROVE Stops
  <2>1. CASE RejectInput
    BY <1>1, <2>1, FailEnds DEF RejectInput
  <2>2. CASE AcquireToken
    BY <1>2, <2>2 DEF AcquireToken
  <2>3. CASE Lease
    BY <1>2, <2>3 DEF Lease
  <2>4. CASE NextFile
    BY <1>2, <2>4 DEF NextFile
  <2>5. CASE Solved
    BY <1>2, <2>5 DEF Solved
  <2>6. CASE Uploaded
    BY <1>2, <2>6 DEF Uploaded
  <2>7. CASE Polled
    BY <1>1, <2>7, FailEnds DEF Polled
  <2>8. CASE Pause
    BY <1>2, <2>8 DEF Pause
  <2>9. CASE StepFails
    BY <1>1, <2>9, FailEnds DEF StepFails
  <2>10. CASE Exchanged \/ Created \/ ExchangedAgain \/ CleanupSettles \/ AnswerComes
    BY <2>10 DEF Exchanged, Created, ExchangedAgain, CleanupSettles, Over, AnswerComes, Cleanup
  <2>11. CASE Refused
    BY <1>1, <2>11, Finalizes DEF Refused
  <2>12. CASE SourceEnds
    BY <1>1, <2>12, Finalizes DEF SourceEnds
  <2>13. CASE Abort
    BY <1>1, <2>13, Finalizes DEF Abort
  <2>14. CASE Chunk
    <3>1. PICK outcome : finalizeSession(outcome) \/ open' = open
      BY <2>14 DEF Chunk
    <3> QED BY <1>1, <3>1, Finalizes
  <2> QED
    BY <1>3, <2>1, <2>2, <2>3, <2>4, <2>5, <2>6, <2>7, <2>8, <2>9, <2>10, <2>11, <2>12, <2>13,
       <2>14 DEF CallNext
<1>4. CallReads' => Clean
  BY DEF CallReads, Ends
<1>5. CallReads' /\ [CallNext]_callVars => [Stops /\ Clean]_callVars
  BY <1>3, <1>4
<1>6. [Stops /\ Clean]_callVars =>
        [/\ aborted' /\ open' # open => open' \in {"none"} \cup Cleanup
         /\ open' \in Cleanup => session' \in {"released", "dropped"}
         /\ at' \in {"cleaning", "read", "failed"} => session' # "leased"]_callVars
  OBVIOUS
<1> QED
  BY <1>5, <1>6, CallInvariant, PTL DEF CallSpec, CallsEndClean
=============================================================================
