-------------------------- MODULE OnboardingProofs --------------------------
(***************************************************************************)
(* Proofs about Onboarding for every set of links and identities, any      *)
(* number of calls in flight and any bundle: a link makes one account, and *)
(* an identity is on one account unless the call that added the second     *)
(* could not know of the first.                                            *)
(***************************************************************************)
EXTENDS Onboarding, FunctionTheorems, FiniteSetTheorems, SequenceTheorems,
        WellFoundedInduction, TLAPS

Statuses == {"absent", "waiting", "validating", "complete", "cancelled"}

Kinds == {"none", "link", "create", "validate", "patch", "import"}

(* The calls that add accounts.                                            *)
Adding == {"link", "create", "import"}

Entry == [account : Accounts, identity : Identities]

CallRecord ==
  [kind : Kinds, link : Nat, target : Nat, identity : Prints, todo : Seq(Identities),
   others : SUBSET Entry, sure : SUBSET Accounts]

Call ==
  {c \in CallRecord : /\ c.kind # "none" => c.identity \in Identities
                      /\ c.kind # "patch" => c.target = 0
                      /\ c.kind = "none" => c.others = {}}

LinkRecord == [status : Statuses, expires : Nat, account : Nat]

Types ==
  /\ now \in Nat /\ started \in Nat /\ made \in Nat /\ events \in 0..MaxEvents
  /\ links \in [Links -> LinkRecord]
  /\ row \in [Accounts -> Prints] /\ print \in [Accounts -> Prints]
  /\ reading \in [Accounts -> Prints]
  /\ madeBy \in [Accounts -> Nat]
  /\ calls \in [1..MaxCalls -> Call]

(* The accounts the calls cs may still add, and that there is room for     *)
(* them: the next account is one of Accounts.                              *)
Slots(cs) ==
  {s \in (1..MaxCalls) \X Nat : cs[s[1]].kind \in Adding /\ s[2] <= Len(cs[s[1]].todo)}

Budget ==
  /\ IsFiniteSet(Slots(calls))
  /\ made + Cardinality(Slots(calls)) <= FirstCount + events

(* Ids are new: of a link that was never started nothing is known.         *)
LinksFresh ==
  /\ \A l \in Links : l > started => links[l] = NoLink
  /\ \A a \in Accounts : madeBy[a] <= started /\ (a > made => madeBy[a] = 0)

(* A link that may still be claimed or completed has made no account.      *)
MakersDone ==
  \A a \in Accounts : \A l \in Links :
    madeBy[a] = l => links[l].status \notin {"waiting", "validating"}

(* One call at a time completes a link, and the link waits for no other:   *)
(* it is being validated, or cancelled, expired or lost meanwhile.         *)
Captures ==
  \A i \in 1..MaxCalls : calls[i].kind = "link" =>
    /\ calls[i].link \in Links /\ calls[i].link <= started
    /\ links[calls[i].link].status # "waiting"
    /\ \A a \in Accounts : madeBy[a] # calls[i].link
    /\ \A j \in 1..MaxCalls \ {i} : calls[j].kind = "link" => calls[j].link # calls[i].link

Completions ==
  \A l \in Links : links[l].status = "complete" => links[l].account \in Accounts

LinkInv == LinksFresh /\ MakersDone /\ Captures /\ Completions /\ OneAccountPerLink

(* What call c is sure of, with rows r: such an account is the one it      *)
(* patches, or differs from the new identity, or is still to be compared.  *)
Sound(c, r) ==
  /\ \A b \in c.sure :
       /\ r[b] # NoIdentity
       /\ b = c.target \/ r[b] # c.identity \/ [account |-> b, identity |-> r[b]] \in c.others
  /\ \A o \in c.others : o.account \in c.sure => o.identity = r[o.account]

Sure ==
  \A i \in 1..MaxCalls :
    /\ Sound(calls[i], row)
    /\ \A b \in calls[i].sure : print[b] \in {NoIdentity, row[b]}

(* The inductive invariant.  One account per link is not inductive alone:  *)
(* that the calls in flight are for distinct links without an account is   *)
(* what LinkInv adds.  Unique identities rest on what each call knows in   *)
(* the middle of its comparison.                                           *)
IInv == Types /\ Budget /\ LinkInv /\ Sure /\ IdentitiesUnique

-----------------------------------------------------------------------------
(* Lemmas about the operators of the model.                                *)

LEMMA AccountsAre ==
  /\ FirstCount \in Nat /\ MaxEvents \in Nat /\ MaxCalls \in Nat
  /\ Accounts = 1..(FirstCount + MaxEvents) /\ Accounts \subseteq Nat \ {0}
  BY OnboardingAssumption, FS_CardinalityType DEF Accounts, FirstCount

(* The one listed first is listed, and none was listed before it.          *)
LEMMA OldestIsFirst ==
  ASSUME NEW S \in SUBSET Entry, S # {}
  PROVE  Oldest(S) \in S /\ \A p \in S : Oldest(S).account <= p.account
  <1> DEFINE R == {ss \in Nat \X Nat : ss[1] < ss[2]}
             N == {o.account : o \in S}
  <1>1. IsWellFoundedOn(R, Nat)
    BY NatLessThanWellFounded DEF OpToRel
  <1>2. N \in SUBSET Nat /\ N # {}
    BY AccountsAre DEF Entry
  <1> HIDE DEF N
  <1>3. PICK x \in N : \A y \in N : ~ (<<y, x>> \in R)
    BY <1>1, <1>2, WFMin
  <1>4. \A y \in N : x <= y
    <2> TAKE y \in N
    <2>1. x \in Nat /\ y \in Nat /\ ~ (<<y, x>> \in R)
      BY <1>2, <1>3
    <2>2. ~ (y < x)
      BY <2>1
    <2> QED BY <2>1, <2>2
  <1>5. PICK o \in S : o.account = x
    BY DEF N
  <1>6. \A p \in S : o.account <= p.account
    BY <1>4, <1>5 DEF N
  <1> QED BY <1>5, <1>6 DEF Oldest

LEMMA NoCallIs ==
  /\ NoCall \in Call
  /\ NoCall.kind = "none" /\ NoCall.link = 0 /\ NoCall.target = 0 /\ NoCall.todo = <<>>
  /\ NoCall.others = {} /\ NoCall.sure = {} /\ NoCall.identity = NoIdentity
  BY DEF NoCall, Call, CallRecord, Kinds, Prints

(* What a call loses by a write is only what it is sure of.                *)
LEMMA WatchedCall ==
  ASSUME NEW cs, NEW rows, NEW prints, NEW j \in 1..MaxCalls, cs[j] \in Call,
         NEW w, w = Watched(cs, rows, prints)[j]
  PROVE  /\ w \in Call
         /\ w.kind = cs[j].kind /\ w.link = cs[j].link /\ w.target = cs[j].target
         /\ w.identity = cs[j].identity /\ w.todo = cs[j].todo /\ w.others = cs[j].others
         /\ \A a : a \in w.sure <=>
              a \in cs[j].sure /\ rows[a] = row[a] /\ prints[a] \in {NoIdentity, rows[a]}
  <1> DEFINE s == {a \in cs[j].sure : rows[a] = row[a] /\ prints[a] \in {NoIdentity, rows[a]}}
  <1>1. w = [cs[j] EXCEPT !.sure = s]
    BY DEF Watched
  <1>2. s \in SUBSET Accounts
    BY DEF Call, CallRecord
  <1>3. \A a : a \in s <=>
          a \in cs[j].sure /\ rows[a] = row[a] /\ prints[a] \in {NoIdentity, rows[a]}
    OBVIOUS
  <1> HIDE DEF s
  <1> QED BY <1>1, <1>2, <1>3 DEF Call, CallRecord

LEMMA WatchedCalls ==
  ASSUME NEW cs, \A j \in 1..MaxCalls : cs[j] \in Call, NEW rows, NEW prints
  PROVE  /\ Watched(cs, rows, prints) \in [1..MaxCalls -> Call]
         /\ Slots(Watched(cs, rows, prints)) = Slots(cs)
  <1> DEFINE W == Watched(cs, rows, prints)
  <1>1. \A j \in 1..MaxCalls : W[j] \in Call /\ W[j].kind = cs[j].kind /\ W[j].todo = cs[j].todo
    <2> TAKE j \in 1..MaxCalls
    <2>1. cs[j] \in Call
      OBVIOUS
    <2> QED BY <2>1, WatchedCall
  <1>2. W = [j \in 1..MaxCalls |-> W[j]]
    BY DEF Watched
  <1> HIDE DEF W
  <1>3. W \in [1..MaxCalls -> Call]
    BY <1>1, <1>2
  <1>4. Slots(W) = Slots(cs)
    BY <1>1 DEF Slots
  <1> QED BY <1>3, <1>4 DEF W

-----------------------------------------------------------------------------
(* Each part of the invariant, for the steps that leave the calls cs with  *)
(* the rows and prints given.                                              *)

LEMMA SureKept ==
  ASSUME NEW cs, \A j \in 1..MaxCalls : cs[j] \in Call, NEW rows, NEW prints,
         \A j \in 1..MaxCalls : Sound(cs[j], row),
         calls' = Watched(cs, rows, prints), row' = rows, print' = prints
  PROVE  Sure'
  <1> SUFFICES ASSUME NEW j \in 1..MaxCalls
               PROVE  /\ Sound(calls'[j], rows)
                      /\ \A b \in calls'[j].sure : prints[b] \in {NoIdentity, rows[b]}
    BY DEF Sure, Sound
  <1>0. cs[j] \in Call
    OBVIOUS
  <1>1. /\ calls'[j].target = cs[j].target /\ calls'[j].identity = cs[j].identity
        /\ calls'[j].others = cs[j].others
        /\ \A a : a \in calls'[j].sure <=>
             a \in cs[j].sure /\ rows[a] = row[a] /\ prints[a] \in {NoIdentity, rows[a]}
    BY <1>0, WatchedCall
  <1> QED BY <1>1 DEF Sound

(* The budget: slots that are used up, and slots that events pay for.      *)
LEMMA SlotUsed ==
  ASSUME Types, Budget, NEW x \in Slots(calls),
         Slots(calls') \subseteq Slots(calls) \ {x},
         made' = made + 1, events' = events
  PROVE  Budget' /\ made + 1 \in Accounts
  <1>1. /\ IsFiniteSet(Slots(calls) \ {x})
        /\ Cardinality(Slots(calls) \ {x}) = Cardinality(Slots(calls)) - 1
    BY FS_RemoveElement DEF Budget
  <1>2. /\ IsFiniteSet(Slots(calls'))
        /\ Cardinality(Slots(calls')) <= Cardinality(Slots(calls) \ {x})
    BY <1>1, FS_Subset
  <1>3. Cardinality(Slots(calls)) \in Nat /\ Cardinality(Slots(calls')) \in Nat
        /\ Cardinality(Slots(calls) \ {x}) \in Nat
    BY <1>1, <1>2, FS_CardinalityType DEF Budget
  <1>4. made' + Cardinality(Slots(calls')) <= FirstCount + events'
    BY <1>1, <1>2, <1>3, AccountsAre DEF Budget, Types
  <1>5. made + 1 \in Accounts
    BY <1>1, <1>3, AccountsAre DEF Budget, Types
  <1> QED BY <1>2, <1>4, <1>5 DEF Budget

LEMMA SlotsKept ==
  ASSUME Types, Budget, Slots(calls') \subseteq Slots(calls), made' = made,
         events' \in Nat, events' >= events
  PROVE  Budget'
  <1>1. IsFiniteSet(Slots(calls')) /\ Cardinality(Slots(calls')) <= Cardinality(Slots(calls))
    BY FS_Subset DEF Budget
  <1>2. Cardinality(Slots(calls)) \in Nat /\ Cardinality(Slots(calls')) \in Nat
    BY <1>1, FS_CardinalityType DEF Budget
  <1>3. made' + Cardinality(Slots(calls')) <= FirstCount + events'
    BY <1>1, <1>2, AccountsAre DEF Budget, Types
  <1> QED BY <1>1, <1>3 DEF Budget

LEMMA SlotsPaid ==
  ASSUME Types, Budget, NEW i \in 1..MaxCalls, NEW n \in Nat,
         Slots(calls') \subseteq Slots(calls) \cup ({i} \X (0..(n - 1))),
         made' = made, events' = events + n
  PROVE  Budget'
  <1> DEFINE new == {i} \X (0..(n - 1))
             S == Slots(calls)
  <1>1. IsFiniteSet({i}) /\ Cardinality({i}) = 1
    BY FS_Singleton
  <1>2. IsFiniteSet(0..(n - 1)) /\ Cardinality(0..(n - 1)) = n
    <2>1. 0 \in Int /\ n - 1 \in Int
      OBVIOUS
    <2>2. IsFiniteSet(0..(n - 1))
          /\ Cardinality(0..(n - 1)) = IF 0 > n - 1 THEN 0 ELSE (n - 1) - 0 + 1
      BY <2>1, FS_Interval
    <2> QED BY <2>2
  <1>3. IsFiniteSet(new) /\ Cardinality(new) = n
    <2>1. IsFiniteSet(new) /\ Cardinality(new) = Cardinality({i}) * Cardinality(0..(n - 1))
      BY <1>1, <1>2, FS_Product
    <2>2. Cardinality(new) = 1 * n
      BY <1>1, <1>2, <2>1
    <2> HIDE DEF new
    <2> QED BY <2>1, <2>2
  <1>4. IsFiniteSet(S)
    BY DEF Budget
  <1> HIDE DEF new
  <1>5. /\ IsFiniteSet(S \cup new) /\ IsFiniteSet(S \cap new)
        /\ Cardinality(S \cup new) = Cardinality(S) + n - Cardinality(S \cap new)
    BY <1>3, <1>4, FS_Union, FS_Intersection
  <1>6. IsFiniteSet(Slots(calls')) /\ Cardinality(Slots(calls')) <= Cardinality(S \cup new)
    BY <1>5, FS_Subset DEF new
  <1>7. Cardinality(S) \in Nat /\ Cardinality(S \cap new) \in Nat
        /\ Cardinality(S \cup new) \in Nat /\ Cardinality(Slots(calls')) \in Nat
    BY <1>4, <1>5, <1>6, FS_CardinalityType
  <1>8. made' + Cardinality(Slots(calls')) <= FirstCount + events'
    BY <1>5, <1>6, <1>7, AccountsAre DEF Budget, Types
  <1> QED BY <1>6, <1>8 DEF Budget

(* Call i becomes c, the rows and prints are written.                      *)
LEMMA MovedCalls ==
  ASSUME Types, Sure, NEW i \in 1..MaxCalls, NEW c \in Call, Sound(c, row),
         NEW rows, NEW prints, Moved(i, c, rows, prints), row' = rows, print' = prints
  PROVE  /\ calls' \in [1..MaxCalls -> Call] /\ Sure'
         /\ \A j \in 1..MaxCalls \ {i} :
              calls'[j].kind = calls[j].kind /\ calls'[j].link = calls[j].link
              /\ calls'[j].todo = calls[j].todo
         /\ calls'[i].kind = c.kind /\ calls'[i].link = c.link /\ calls'[i].todo = c.todo
  <1> DEFINE cs == [calls EXCEPT ![i] = c]
  <1>1. \A j \in 1..MaxCalls : cs[j] = IF j = i THEN c ELSE calls[j]
    BY DEF Types
  <1>2. \A j \in 1..MaxCalls : cs[j] \in Call /\ Sound(cs[j], row)
    BY <1>1 DEF Types, Sure
  <1>3. calls' = Watched(cs, rows, prints)
    BY DEF Moved
  <1> HIDE DEF cs
  <1>4. calls' \in [1..MaxCalls -> Call]
    BY <1>2, <1>3, WatchedCalls
  <1>5. Sure'
    BY <1>2, <1>3, SureKept
  <1>6. \A j \in 1..MaxCalls :
          calls'[j].kind = cs[j].kind /\ calls'[j].link = cs[j].link /\ calls'[j].todo = cs[j].todo
    BY <1>2, <1>3, WatchedCall
  <1> QED BY <1>1, <1>4, <1>5, <1>6

(* A call ends, or an import goes on with its next entry: a slot is free.  *)
LEMMA NextEntryIs ==
  ASSUME NEW c \in Call
  PROVE  /\ NextEntry(c) \in Call /\ Sound(NextEntry(c), row) /\ NextEntry(c).kind # "link"
         /\ \/ NextEntry(c).kind = "none"
            \/ /\ c.kind = "import" /\ NextEntry(c).kind = "import"
               /\ c.todo # <<>> /\ NextEntry(c).todo = Tail(c.todo)
  <1>1. CASE c.kind # "import" \/ c.todo = <<>>
    BY <1>1, NoCallIs DEF NextEntry, Sound
  <1>2. CASE c.kind = "import" /\ c.todo # <<>>
    <2>1. /\ Head(c.todo) \in Identities /\ Tail(c.todo) \in Seq(Identities)
      BY <1>2 DEF Call, CallRecord
    <2>2. NextEntry(c) = [NoCall EXCEPT !.kind = "import", !.identity = Head(c.todo),
                                        !.todo = Tail(c.todo)]
      BY <1>2 DEF NextEntry
    <2>3. NextEntry(c) \in Call /\ NextEntry(c).others = {} /\ NextEntry(c).sure = {}
          /\ NextEntry(c).kind = "import" /\ NextEntry(c).todo = Tail(c.todo)
      <3> DEFINE h == Head(c.todo)
                 t == Tail(c.todo)
      <3>1. NextEntry(c) = [kind |-> "import", link |-> 0, target |-> 0, identity |-> h,
                            todo |-> t, others |-> {}, sure |-> {}]
        BY <2>2 DEF NoCall
      <3>2. h \in Identities /\ t \in Seq(Identities)
        BY <2>1
      <3> HIDE DEF h, t
      <3>3. /\ NextEntry(c).todo = t /\ NextEntry(c).kind = "import" /\ NextEntry(c).target = 0
            /\ NextEntry(c).others = {} /\ NextEntry(c).sure = {} /\ NextEntry(c).identity = h
        BY <3>1
      <3>4. NextEntry(c) \in CallRecord
        BY <3>1, <3>2 DEF CallRecord, Kinds, Prints
      <3> QED BY <3>2, <3>3, <3>4 DEF Call, t
    <2> QED BY <1>2, <2>3 DEF Sound
  <1> QED BY <1>1, <1>2

LEMMA SlotFreed ==
  ASSUME Types, NEW i \in 1..MaxCalls, calls[i].kind \in Adding,
         \A j \in 1..MaxCalls \ {i} :
           calls'[j].kind = calls[j].kind /\ calls'[j].todo = calls[j].todo,
         \/ calls'[i].kind = "none"
         \/ /\ calls'[i].kind = "import"
            /\ calls[i].todo # <<>> /\ calls'[i].todo = Tail(calls[i].todo)
  PROVE  /\ <<i, Len(calls[i].todo)>> \in Slots(calls)
         /\ Slots(calls') \subseteq Slots(calls) \ {<<i, Len(calls[i].todo)>>}
  <1> DEFINE n == Len(calls[i].todo)
  <1>1. calls[i].todo \in Seq(Identities) /\ n \in Nat
    BY DEF Types, Call, CallRecord
  <1>2. calls[i].todo # <<>> => Len(Tail(calls[i].todo)) = n - 1
    BY <1>1
  <1> HIDE DEF n
  <1>3. ASSUME NEW s \in Slots(calls')
        PROVE  s \in Slots(calls) /\ s # <<i, n>>
    <2>1. CASE s[1] = i
      <3>1. calls'[i].kind \in Adding /\ s \in (1..MaxCalls) \X Nat /\ s[2] <= Len(calls'[i].todo)
        BY <1>3, <2>1 DEF Slots
      <3>2. calls[i].todo # <<>> /\ calls'[i].todo = Tail(calls[i].todo)
        BY <3>1 DEF Adding
      <3>3. s[2] \in Nat /\ s[2] <= n - 1 /\ s[2] # n /\ s[2] <= n
        BY <1>1, <1>2, <3>1, <3>2
      <3> QED BY <2>1, <3>1, <3>3 DEF Slots, n
    <2>2. CASE s[1] # i
      BY <1>3, <2>2 DEF Slots
    <2> QED BY <2>1, <2>2
  <1>4. <<i, n>> \in Slots(calls)
    BY <1>1 DEF Slots, n
  <1> QED BY <1>3, <1>4 DEF n

LEMMA NoSlotAdded ==
  ASSUME NEW i \in 1..MaxCalls, calls'[i].kind \notin Adding,
         \A j \in 1..MaxCalls \ {i} :
           calls'[j].kind = calls[j].kind /\ calls'[j].todo = calls[j].todo
  PROVE  Slots(calls') \subseteq Slots(calls)
  BY DEF Slots

-----------------------------------------------------------------------------
(* The links.                                                              *)

(* The calls that complete a link are among those there were.              *)
Fewer ==
  \A j \in 1..MaxCalls :
    calls'[j].kind = "link" => calls[j].kind = "link" /\ calls'[j].link = calls[j].link

LEMMA LinksQuiet ==
  ASSUME Types, LinkInv, UNCHANGED <<links, started, madeBy>>, Fewer,
         made' \in Nat, made' >= made
  PROVE  LinkInv'
  <1>1. LinksFresh'
    <2>1. \A a \in Accounts : a \in Nat /\ made \in Nat /\ (a > made' => a > made)
      BY AccountsAre DEF Types
    <2> QED BY <2>1 DEF LinkInv, LinksFresh
  <1>2. MakersDone' /\ Completions' /\ OneAccountPerLink'
    BY DEF LinkInv, MakersDone, Completions, OneAccountPerLink
  <1>3. Captures'
    BY DEF LinkInv, Captures, Fewer
  <1> QED BY <1>1, <1>2, <1>3 DEF LinkInv

LEMMA StatusesOf ==
  ASSUME NEW k \in LinkRecord, NEW a \in Nat
  PROVE  /\ Failed(k) \in LinkRecord /\ Completed(k, a) \in LinkRecord
         /\ Claimed(k) \in LinkRecord /\ Cancelled(k) \in LinkRecord
         /\ Failed(k).status = (IF k.status = "validating" THEN "waiting" ELSE k.status)
         /\ Failed(k).account = k.account
         /\ Completed(k, a).status = (IF k.status = "validating" THEN "complete" ELSE k.status)
         /\ Completed(k, a).account = (IF k.status = "validating" THEN a ELSE k.account)
         /\ Claimed(k).status = "validating" /\ Cancelled(k).status = "cancelled"
  BY DEF LinkRecord, Statuses, Failed, Completed, Claimed, Cancelled

LEMMA LinkFails ==
  ASSUME Types, LinkInv, NEW i \in 1..MaxCalls, calls[i].kind = "link", calls'[i].kind # "link",
         Fewer, links' = [links EXCEPT ![calls[i].link] = Failed(@)],
         UNCHANGED <<started, made, madeBy>>
  PROVE  LinkInv' /\ links' \in [Links -> LinkRecord]
  <1> DEFINE l == calls[i].link
  <1>1. /\ l \in Links /\ l <= started /\ links[l].status # "waiting"
        /\ \A a \in Accounts : madeBy[a] # l
        /\ \A j \in 1..MaxCalls \ {i} : calls[j].kind = "link" => calls[j].link # l
    BY DEF LinkInv, Captures
  <1>2. /\ links' \in [Links -> LinkRecord]
        /\ \A m \in Links \ {l} : links'[m] = links[m]
        /\ links'[l].status \in {links[l].status, "waiting"}
        /\ links'[l].account = links[l].account
    <2>1. links[l] \in LinkRecord /\ 0 \in Nat
      BY <1>1 DEF Types
    <2> HIDE DEF l
    <2>2. links' = [links EXCEPT ![l] = Failed(links[l])]
      BY DEF l
    <2>3. links' \in [Links -> LinkRecord] /\ links'[l] = Failed(links[l])
          /\ \A m \in Links \ {l} : links'[m] = links[m]
      BY <1>1, <2>1, <2>2, StatusesOf DEF Types
    <2> QED BY <2>1, <2>3, StatusesOf
  <1> HIDE DEF l
  <1>3. LinksFresh'
    <2>1. l \in Nat /\ started \in Nat /\ ~ (l > started)
      BY <1>1, LinkAssumption DEF Types
    <2> QED BY <1>2, <2>1 DEF LinkInv, LinksFresh
  <1>4. MakersDone'
    BY <1>1, <1>2 DEF LinkInv, MakersDone
  <1>5. Captures'
    <2>1. ASSUME NEW j \in 1..MaxCalls, calls'[j].kind = "link"
          PROVE  j # i /\ calls[j].kind = "link" /\ calls'[j].link = calls[j].link
                 /\ calls[j].link # l
      BY <1>1, <2>1 DEF Fewer
    <2> QED BY <1>2, <2>1 DEF LinkInv, Captures
  <1>6. Completions' /\ OneAccountPerLink'
    <2>1. links[l].status # "complete"
      BY <1>1 DEF LinkInv, Completions, OneAccountPerLink
    <2>2. \A m \in Links : links'[m].status = "complete" => m # l /\ links[m].status = "complete"
      BY <1>2, <2>1
    <2> QED BY <1>2, <2>2 DEF LinkInv, Completions, OneAccountPerLink
  <1> QED BY <1>2, <1>3, <1>4, <1>5, <1>6 DEF LinkInv

LEMMA LinkCompletes ==
  ASSUME Types, LinkInv, NEW i \in 1..MaxCalls, calls[i].kind = "link", calls'[i].kind # "link",
         Fewer, NEW a \in Accounts, a = made + 1, made' = a, UNCHANGED started,
         links' = [links EXCEPT ![calls[i].link] = Completed(@, a)],
         madeBy' = [madeBy EXCEPT ![a] = calls[i].link]
  PROVE  LinkInv' /\ links' \in [Links -> LinkRecord] /\ madeBy' \in [Accounts -> Nat]
  <1> DEFINE l == calls[i].link
  <1>1. /\ l \in Links /\ l <= started /\ links[l].status # "waiting"
        /\ \A b \in Accounts : madeBy[b] # l
        /\ \A j \in 1..MaxCalls \ {i} : calls[j].kind = "link" => calls[j].link # l
    BY DEF LinkInv, Captures
  <1>0. l \in Nat \ {0} /\ started \in Nat /\ made \in Nat /\ a \in Nat
    BY <1>1, LinkAssumption, AccountsAre DEF Types
  <1>2. /\ links' \in [Links -> LinkRecord]
        /\ \A m \in Links \ {l} : links'[m] = links[m]
        /\ \/ links'[l].status = "complete" /\ links'[l].account = a
           \/ links'[l] = links[l] /\ links[l].status # "validating"
    <2>1. links[l] \in LinkRecord
      BY <1>1 DEF Types
    <2> HIDE DEF l
    <2>2. links' = [links EXCEPT ![l] = Completed(links[l], a)]
      BY DEF l
    <2>3. links' \in [Links -> LinkRecord] /\ links'[l] = Completed(links[l], a)
          /\ \A m \in Links \ {l} : links'[m] = links[m]
      <3> DEFINE k == Completed(links[l], a)
      <3>1. k \in LinkRecord
        BY <1>0, <2>1, StatusesOf
      <3>2. links \in [Links -> LinkRecord] /\ l \in Links /\ links' = [links EXCEPT ![l] = k]
        BY <1>1, <2>2 DEF Types
      <3> HIDE DEF k
      <3>3. links' \in [Links -> LinkRecord] /\ links'[l] = k
            /\ \A m \in Links \ {l} : links'[m] = links[m]
        BY <3>1, <3>2
      <3> QED BY <3>3 DEF k
    <2>4. CASE links[l].status = "validating"
      <3> DEFINE k == links[l]
      <3>1. k \in LinkRecord /\ k.status = "validating" /\ links'[l] = Completed(k, a)
        BY <2>1, <2>3, <2>4
      <3> HIDE DEF k
      <3> QED BY <1>0, <2>3, <3>1, StatusesOf
    <2>5. CASE links[l].status # "validating"
      BY <2>3, <2>5 DEF Completed
    <2> QED BY <2>3, <2>4, <2>5
  <1>3. /\ madeBy' \in [Accounts -> Nat]
        /\ \A b \in Accounts : madeBy'[b] = IF b = a THEN l ELSE madeBy[b]
    BY <1>0 DEF Types
  <1>4. madeBy[a] = 0
    BY <1>0 DEF LinkInv, LinksFresh
  <1>5. links[l].status # "complete"
    BY <1>1 DEF LinkInv, Completions, OneAccountPerLink
  <1> HIDE DEF l
  <1>6. LinksFresh'
    <2>1. \A b \in Accounts : b \in Nat /\ (b > made' => b > made /\ b # a)
      BY <1>0, AccountsAre
    <2> QED BY <1>0, <1>1, <1>2, <1>3, <2>1 DEF LinkInv, LinksFresh
  <1>7. MakersDone'
    BY <1>1, <1>2, <1>3 DEF LinkInv, MakersDone
  <1>8. Captures'
    <2>1. ASSUME NEW j \in 1..MaxCalls, calls'[j].kind = "link"
          PROVE  j # i /\ calls[j].kind = "link" /\ calls'[j].link = calls[j].link
                 /\ calls[j].link # l
      BY <1>1, <2>1 DEF Fewer
    <2> QED BY <1>2, <1>3, <2>1 DEF LinkInv, Captures
  <1>9. Completions'
    BY <1>2 DEF LinkInv, Completions
  <1>10. OneAccountPerLink'
    <2>1. ASSUME NEW x \in Accounts, NEW y \in Accounts,
                 madeBy'[x] = madeBy'[y], madeBy'[x] # 0
          PROVE  x = y
      BY <1>1, <1>3, <2>1 DEF LinkInv, OneAccountPerLink
    <2>2. ASSUME NEW m \in Links, links'[m].status = "complete"
          PROVE  madeBy'[links'[m].account] = m
      <3>1. CASE m = l
        BY <1>2, <1>3, <1>5, <2>2, <3>1
      <3>2. CASE m # l
        <4>1. links[m].status = "complete" /\ links'[m] = links[m]
          BY <1>2, <2>2, <3>2
        <4>2. links[m].account \in Accounts /\ madeBy[links[m].account] = m /\ m # 0
          BY <4>1, LinkAssumption DEF LinkInv, Completions, OneAccountPerLink
        <4> QED BY <1>3, <1>4, <4>1, <4>2
      <3> QED BY <3>1, <3>2
    <2> QED BY <2>1, <2>2 DEF OneAccountPerLink
  <1> QED BY <1>2, <1>3, <1>6, <1>7, <1>8, <1>9, <1>10 DEF LinkInv

LEMMA LinkClaimed ==
  ASSUME Types, LinkInv, NEW i \in 1..MaxCalls, NEW l \in Links,
         ClaimKind(links[l], now) = "ready", links' = [links EXCEPT ![l] = Claimed(@)],
         calls'[i].kind = "link", calls'[i].link = l,
         \A j \in 1..MaxCalls \ {i} :
           calls'[j].kind = calls[j].kind /\ calls'[j].link = calls[j].link,
         UNCHANGED <<started, made, madeBy>>
  PROVE  LinkInv' /\ links' \in [Links -> LinkRecord]
  <1>1. links[l].status = "waiting"
    <2>1. links[l].status \in Statuses
      BY DEF Types, LinkRecord
    <2> QED BY <2>1 DEF ClaimKind, Statuses
  <1>2. l \in Nat /\ started \in Nat /\ l <= started
    <2>1. l \in Nat /\ started \in Nat
      BY LinkAssumption DEF Types
    <2>2. links[l] # NoLink
      BY <1>1 DEF NoLink, Link
    <2> QED BY <2>1, <2>2 DEF LinkInv, LinksFresh
  <1>3. \A a \in Accounts : madeBy[a] # l
    BY <1>1 DEF LinkInv, MakersDone
  <1>4. \A j \in 1..MaxCalls : calls[j].kind = "link" => calls[j].link # l
    BY <1>1 DEF LinkInv, Captures
  <1>5. /\ links' \in [Links -> LinkRecord]
        /\ \A m \in Links \ {l} : links'[m] = links[m]
        /\ links'[l].status = "validating"
    <2> DEFINE k == Claimed(links[l])
    <2>1. k \in LinkRecord /\ k.status = "validating"
      BY StatusesOf DEF Types
    <2>2. links \in [Links -> LinkRecord] /\ links' = [links EXCEPT ![l] = k]
      BY DEF Types
    <2> HIDE DEF k
    <2> QED BY <2>1, <2>2
  <1>6. LinksFresh' /\ MakersDone'
    BY <1>2, <1>3, <1>5 DEF LinkInv, LinksFresh, MakersDone
  <1>7. Captures'
    <2>1. ASSUME NEW j \in 1..MaxCalls, calls'[j].kind = "link"
          PROVE  /\ calls'[j].link \in Links /\ calls'[j].link <= started
                 /\ links'[calls'[j].link].status # "waiting"
                 /\ \A a \in Accounts : madeBy[a] # calls'[j].link
      <3>1. CASE j = i
        BY <1>2, <1>3, <1>5, <3>1
      <3>2. CASE j # i
        <4>1. calls[j].kind = "link" /\ calls'[j].link = calls[j].link /\ calls[j].link # l
          BY <1>4, <2>1, <3>2
        <4> QED BY <1>5, <4>1 DEF LinkInv, Captures
      <3> QED BY <3>1, <3>2
    <2>2. ASSUME NEW j \in 1..MaxCalls, NEW k \in 1..MaxCalls \ {j},
                 calls'[j].kind = "link", calls'[k].kind = "link"
          PROVE  calls'[k].link # calls'[j].link
      <3>1. CASE j = i \/ k = i
        BY <1>4, <2>2, <3>1
      <3>2. CASE j # i /\ k # i
        BY <2>2, <3>2 DEF LinkInv, Captures
      <3> QED BY <3>1, <3>2
    <2> QED BY <2>1, <2>2 DEF Captures
  <1>8. Completions' /\ OneAccountPerLink'
    <2>1. \A m \in Links : links'[m].status = "complete" =>
            links[m].status = "complete" /\ links'[m] = links[m]
      BY <1>5
    <2> QED BY <2>1 DEF LinkInv, Completions, OneAccountPerLink
  <1> QED BY <1>5, <1>6, <1>7, <1>8 DEF LinkInv

(* Links are lost, cancelled or new; nothing else happens to them.         *)
LEMMA LinksLost ==
  ASSUME Types, LinkInv, Fewer, UNCHANGED <<made, madeBy>>, started' \in Nat, started' >= started,
         \A l \in Links :
           \/ links'[l] = links[l]
           \/ links'[l] = NoLink
           \/ l <= started' /\ links'[l].status = "cancelled" /\ links[l].status # "complete"
                /\ links[l].status # "absent"
           \/ l = started' /\ l > started /\ links'[l].status = "waiting"
  PROVE  LinkInv'
  <1>1. started \in Nat /\ Links \subseteq Nat \ {0} /\ madeBy \in [Accounts -> Nat]
    BY LinkAssumption DEF Types
  <1>2. \A l \in Links : l > started => links[l] = NoLink
    BY DEF LinkInv, LinksFresh
  <1>3. NoLink.status = "absent"
    BY DEF NoLink, Link
  <1>4. LinksFresh'
    <2>1. ASSUME NEW l \in Links, l > started' PROVE links'[l] = NoLink
      BY <1>1, <1>2, <1>3, <2>1
    <2> QED BY <1>1, <2>1 DEF LinkInv, LinksFresh
  <1>5. \A a \in Accounts : madeBy[a] <= started
    BY DEF LinkInv, LinksFresh
  <1>6. MakersDone'
    <2> SUFFICES ASSUME NEW a \in Accounts, NEW l \in Links, madeBy[a] = l
                 PROVE  links'[l].status \notin {"waiting", "validating"}
      BY DEF MakersDone
    <2>1. ~ (l > started)
      BY <1>1, <1>5
    <2> QED BY <1>3, <2>1 DEF LinkInv, MakersDone
  <1>7. Captures'
    <2> SUFFICES ASSUME NEW j \in 1..MaxCalls, calls'[j].kind = "link"
                 PROVE  /\ calls'[j].link \in Links /\ calls'[j].link <= started'
                        /\ links'[calls'[j].link].status # "waiting"
                        /\ \A a \in Accounts : madeBy[a] # calls'[j].link
                        /\ \A k \in 1..MaxCalls \ {j} :
                             calls'[k].kind = "link" => calls'[k].link # calls'[j].link
      BY DEF Captures
    <2>1. calls[j].kind = "link" /\ calls'[j].link = calls[j].link
      BY DEF Fewer
    <2>2. /\ calls[j].link \in Links /\ calls[j].link <= started
          /\ links[calls[j].link].status # "waiting"
          /\ \A a \in Accounts : madeBy[a] # calls[j].link
          /\ \A k \in 1..MaxCalls \ {j} : calls[k].kind = "link" => calls[k].link # calls[j].link
      BY <2>1 DEF LinkInv, Captures
    <2>3. calls[j].link <= started' /\ ~ (calls[j].link > started)
      <3> DEFINE l == calls[j].link
      <3>1. l \in Nat /\ l <= started
        BY <1>1, <2>2
      <3> HIDE DEF l
      <3>2. l <= started' /\ ~ (l > started)
        BY <1>1, <3>1
      <3> QED BY <3>2 DEF l
    <2>4. links'[calls[j].link].status # "waiting"
      BY <1>3, <2>2, <2>3
    <2> QED BY <2>1, <2>2, <2>3, <2>4 DEF Fewer
  <1>8. Completions' /\ OneAccountPerLink'
    <2>1. \A m \in Links : links'[m].status = "complete" =>
            links[m].status = "complete" /\ links'[m] = links[m]
      BY <1>3
    <2> QED BY <2>1 DEF LinkInv, Completions, OneAccountPerLink
  <1> QED BY <1>4, <1>6, <1>7, <1>8 DEF LinkInv

-----------------------------------------------------------------------------
(* The identities.                                                         *)

(* A call that adopts has compared its identity with all it is sure of.    *)
Clear(c) == \A b \in c.sure : b = c.target \/ row[b] # c.identity

(* A row that is written is excused, or nobody known has its identity.     *)
LEMMA WrittenUnique ==
  ASSUME Types, IdentitiesUnique, NEW c \in Call, Clear(c), NEW a \in Nat,
         c.target \notin Accounts \ {a},
         excused' = Excused(a, c, c.identity),
         row' = [row EXCEPT ![a] = c.identity] \/ (row' = row /\ a \in Accounts \ Rows)
  PROVE  IdentitiesUnique' /\ excused' \subseteq excused \cup {a}
  <1>1. /\ \A b : b # a => (b \in excused' <=> b \in excused)
        /\ excused' \subseteq excused \cup {a}
        /\ a \in excused' <=> \E b \in Rows \ (c.sure \cup {a}) : row[b] = c.identity
    BY DEF Excused
  <1>2. SUFFICES ASSUME NEW x \in Accounts, NEW y \in Accounts, row'[x] # NoIdentity,
                        row'[y] # NoIdentity, x # y, row'[x] = row'[y]
                 PROVE  x \in excused' \/ y \in excused'
    BY <1>1 DEF IdentitiesUnique, Rows
  <1>3. \A b \in Accounts : b # a => row'[b] = row[b]
    BY DEF Types
  <1>4. CASE x # a /\ y # a
    BY <1>1, <1>2, <1>3, <1>4 DEF IdentitiesUnique, Rows
  <1>5. ASSUME NEW b \in Accounts, b # a, row'[a] = row[b], row[b] # NoIdentity, a \in Accounts
        PROVE  a \in excused'
    <2>1. row'[a] = c.identity
      BY <1>5 DEF Types, Rows
    <2>2. b \notin c.sure
      BY <1>5, <2>1 DEF Clear
    <2> QED BY <1>1, <1>5, <2>1, <2>2 DEF Rows
  <1> QED BY <1>2, <1>3, <1>4, <1>5

(* Rows that go away or stay leave identities as unique as they were.      *)
LEMMA FewerUnique ==
  ASSUME IdentitiesUnique, UNCHANGED excused,
         \A a \in Accounts : row'[a] \in {row[a], NoIdentity}
  PROVE  IdentitiesUnique'
  BY DEF IdentitiesUnique, Rows

-----------------------------------------------------------------------------
(* The ends of a call, and of one entry of an import.                      *)

(* c is call i, but for what it is sure of and has still to compare.       *)
Continues(i, c) ==
  /\ c \in Call /\ c.kind # "none"
  /\ c.kind = calls[i].kind /\ c.link = calls[i].link /\ c.target = calls[i].target
  /\ c.identity = calls[i].identity /\ c.todo = calls[i].todo

LEMMA EntryEnds ==
  ASSUME Types, Sure, NEW i \in 1..MaxCalls, NEW c, Continues(i, c),
         NEW d, d = NextEntry(c) \/ d = NoCall,
         NEW rows, NEW prints, Moved(i, d, rows, prints), row' = rows, print' = prints
  PROVE  /\ calls' \in [1..MaxCalls -> Call] /\ Sure' /\ Fewer /\ calls'[i].kind # "link"
         /\ Slots(calls') \subseteq Slots(calls)
         /\ c.kind \in Adding =>
              \E x \in Slots(calls) : Slots(calls') \subseteq Slots(calls) \ {x}
  <1>1. c \in Call /\ c.kind = calls[i].kind /\ c.todo = calls[i].todo
    BY DEF Continues
  <1>2. /\ d \in Call /\ Sound(d, row) /\ d.kind # "link"
        /\ \/ d.kind = "none"
           \/ /\ c.kind = "import" /\ d.kind = "import"
              /\ c.todo # <<>> /\ d.todo = Tail(c.todo)
    <2>1. CASE d = NoCall
      BY <2>1, NoCallIs DEF Sound
    <2>2. CASE d = NextEntry(c)
      BY <1>1, <2>2, NextEntryIs
    <2> QED BY <2>1, <2>2
  <1>3. /\ calls' \in [1..MaxCalls -> Call] /\ Sure'
        /\ \A j \in 1..MaxCalls \ {i} :
             calls'[j].kind = calls[j].kind /\ calls'[j].link = calls[j].link
             /\ calls'[j].todo = calls[j].todo
        /\ calls'[i].kind = d.kind /\ calls'[i].link = d.link /\ calls'[i].todo = d.todo
    BY <1>2, MovedCalls
  <1>4. Fewer /\ calls'[i].kind # "link"
    BY <1>2, <1>3 DEF Fewer
  <1>5. CASE c.kind \in Adding
    <2> DEFINE x == <<i, Len(calls[i].todo)>>
    <2>1. x \in Slots(calls) /\ Slots(calls') \subseteq Slots(calls) \ {x}
      BY <1>1, <1>2, <1>3, <1>5, SlotFreed
    <2> HIDE DEF x
    <2> QED BY <1>3, <1>4, <2>1
  <1>6. CASE c.kind \notin Adding
    <2>1. calls'[i].kind \notin Adding
      BY <1>2, <1>3, <1>6 DEF Adding
    <2> QED BY <1>3, <1>4, <1>6, <2>1, NoSlotAdded
  <1> QED BY <1>5, <1>6

LEMMA AddKeeps ==
  ASSUME IInv, NEW i \in 1..MaxCalls, NEW c, Continues(i, c), c.kind \in Adding, Clear(c),
         NEW prints \in [Accounts -> Prints], NEW seen \in Prints,
         AddAccount(i, c, prints, seen), UNCHANGED <<now, started, reading, events>>
  PROVE  IInv'
  <1> DEFINE a    == made + 1
             rows == [row EXCEPT ![a] = c.identity]
             ps   == [prints EXCEPT ![a] = seen]
  <1>1. Types /\ Budget /\ LinkInv /\ Sure /\ IdentitiesUnique
    BY DEF IInv
  <1>2. /\ made' = a /\ row' = rows /\ print' = ps
        /\ links' = IF c.kind = "link" THEN [links EXCEPT ![c.link] = Completed(@, a)] ELSE links
        /\ madeBy' = IF c.kind = "link" THEN [madeBy EXCEPT ![a] = c.link] ELSE madeBy
        /\ excused' = Excused(a, c, c.identity)
        /\ Moved(i, NextEntry(c), rows, ps)
    BY DEF AddAccount
  <1>3. /\ calls' \in [1..MaxCalls -> Call] /\ Sure' /\ Fewer /\ calls'[i].kind # "link"
        /\ \E x \in Slots(calls) : Slots(calls') \subseteq Slots(calls) \ {x}
    BY <1>1, <1>2, EntryEnds
  <1>4. Budget' /\ a \in Accounts
    BY <1>1, <1>2, <1>3, SlotUsed
  <1>5. c \in Call /\ c.identity \in Identities /\ c.target = 0 /\ made \in Nat
    BY <1>1 DEF Continues, Call, Adding, Types
  <1>6. IdentitiesUnique'
    <2>1. a \in Nat /\ c.target \notin Accounts \ {a}
      BY <1>5, AccountsAre
    <2> HIDE DEF a
    <2> QED BY <1>1, <1>2, <1>5, <2>1, WrittenUnique
  <1>7. row' \in [Accounts -> Prints] /\ print' \in [Accounts -> Prints]
    <2> HIDE DEF a
    <2> QED BY <1>1, <1>2, <1>4, <1>5 DEF Types, Prints
  <1>8. LinkInv' /\ links' \in [Links -> LinkRecord] /\ madeBy' \in [Accounts -> Nat]
    <2>1. CASE c.kind = "link"
      <3>1. /\ calls[i].kind = "link" /\ links' = [links EXCEPT ![calls[i].link] = Completed(@, a)]
            /\ madeBy' = [madeBy EXCEPT ![a] = calls[i].link]
        BY <1>2, <2>1 DEF Continues
      <3> QED BY <1>1, <1>2, <1>3, <1>4, <3>1, LinkCompletes
    <2>2. CASE c.kind # "link"
      <3>1. UNCHANGED <<links, started, madeBy>> /\ made' \in Nat /\ made' >= made
        BY <1>2, <1>5, <2>2
      <3> QED BY <1>1, <1>3, <3>1, LinksQuiet DEF Types
    <2> QED BY <2>1, <2>2
  <1>9. Types'
    BY <1>1, <1>2, <1>3, <1>5, <1>7, <1>8 DEF Types
  <1> QED BY <1>3, <1>4, <1>6, <1>8, <1>9 DEF IInv

LEMMA PatchKeeps ==
  ASSUME IInv, NEW i \in 1..MaxCalls, NEW c, Continues(i, c), Clear(c),
         NEW prints \in [Accounts -> Prints], NEW seen \in Prints,
         PatchAccount(i, c, prints, seen), UNCHANGED <<now, started, reading, events>>
  PROVE  IInv'
  <1> DEFINE a    == c.target
             rows == IF row[a] = NoIdentity THEN row ELSE [row EXCEPT ![a] = c.identity]
             ps   == [prints EXCEPT ![a] = seen]
  <1>1. Types /\ Budget /\ LinkInv /\ Sure /\ IdentitiesUnique
    BY DEF IInv
  <1>2. /\ row' = rows /\ print' = ps /\ excused' = Excused(a, c, c.identity)
        /\ Moved(i, NoCall, rows, ps) /\ UNCHANGED <<made, links, madeBy>>
    BY DEF PatchAccount
  <1>3. /\ calls' \in [1..MaxCalls -> Call] /\ Sure' /\ Fewer
        /\ Slots(calls') \subseteq Slots(calls)
    BY <1>1, <1>2, EntryEnds
  <1>4. c \in Call /\ c.identity \in Identities /\ a \in Nat
    BY DEF Continues, Call, CallRecord
  <1>5. Budget'
    BY <1>1, <1>2, <1>3, SlotsKept DEF Types
  <1> HIDE DEF a
  <1>6. IdentitiesUnique'
    <2>1. row' = [row EXCEPT ![a] = c.identity] \/ (row' = row /\ a \in Accounts \ Rows)
      <3>1. row \in [Accounts -> Prints]
        BY <1>1 DEF Types
      <3>2. CASE a \in Accounts
        BY <1>2, <3>1, <3>2 DEF Rows
      <3>3. CASE a \notin Accounts
        BY <1>2, <3>1, <3>3
      <3> QED BY <3>2, <3>3
    <2> QED BY <1>1, <1>2, <1>4, <2>1, WrittenUnique DEF a
  <1>7. row' \in [Accounts -> Prints] /\ print' \in [Accounts -> Prints]
    BY <1>1, <1>2, <1>4 DEF Types, Prints
  <1>8. LinkInv'
    BY <1>1, <1>2, <1>3, LinksQuiet DEF Types
  <1>9. Types'
    BY <1>1, <1>2, <1>3, <1>7 DEF Types
  <1> QED BY <1>3, <1>5, <1>6, <1>8, <1>9 DEF IInv

LEMMA RejectKeeps ==
  ASSUME IInv, NEW i \in 1..MaxCalls, NEW c, Continues(i, c),
         NEW prints \in [Accounts -> Prints], Reject(i, c, prints),
         UNCHANGED <<now, started, reading, events>>
  PROVE  IInv'
  <1>1. Types /\ Budget /\ LinkInv /\ Sure /\ IdentitiesUnique
    BY DEF IInv
  <1>2. /\ row' = row /\ print' = prints /\ UNCHANGED <<made, madeBy, excused>>
        /\ links' = IF c.kind = "link" THEN [links EXCEPT ![c.link] = Failed(@)] ELSE links
        /\ Moved(i, NextEntry(c), row, prints)
    BY DEF Reject
  <1>3. /\ calls' \in [1..MaxCalls -> Call] /\ Sure' /\ Fewer /\ calls'[i].kind # "link"
        /\ Slots(calls') \subseteq Slots(calls)
    BY <1>1, <1>2, EntryEnds
  <1>4. Budget'
    BY <1>1, <1>2, <1>3, SlotsKept DEF Types
  <1>5. IdentitiesUnique'
    BY <1>1, <1>2, FewerUnique
  <1>6. LinkInv' /\ links' \in [Links -> LinkRecord]
    <2>1. CASE c.kind = "link"
      <3>1. calls[i].kind = "link" /\ links' = [links EXCEPT ![calls[i].link] = Failed(@)]
        BY <1>2, <2>1 DEF Continues
      <3> QED BY <1>1, <1>2, <1>3, <3>1, LinkFails
    <2>2. CASE c.kind # "link"
      BY <1>1, <1>2, <1>3, <2>2, LinksQuiet DEF Types
    <2> QED BY <2>1, <2>2
  <1>7. Types'
    BY <1>1, <1>2, <1>3, <1>6 DEF Types
  <1> QED BY <1>3, <1>4, <1>5, <1>6, <1>7 DEF IInv

LEMMA AdoptKeeps ==
  ASSUME IInv, NEW i \in 1..MaxCalls, NEW c, Continues(i, c), Clear(c),
         NEW prints \in [Accounts -> Prints], NEW seen \in Prints,
         Adopt(i, c, prints, seen), UNCHANGED <<now, started, reading, events>>
  PROVE  IInv'
  <1>1. CASE c.kind = "patch"
    <2>1. PatchAccount(i, c, prints, seen)
      BY <1>1 DEF Adopt
    <2> QED BY <2>1, PatchKeeps
  <1>2. CASE c.kind = "validate"
    <2>0. Types /\ Budget /\ LinkInv /\ Sure /\ IdentitiesUnique
      BY DEF IInv
    <2>1. /\ print' = prints /\ Moved(i, NoCall, row, prints)
          /\ UNCHANGED <<links, row, made, madeBy, excused>>
      BY <1>2 DEF Adopt
    <2>2. /\ calls' \in [1..MaxCalls -> Call] /\ Sure' /\ Fewer
          /\ Slots(calls') \subseteq Slots(calls)
      BY <2>0, <2>1, EntryEnds
    <2>3. Budget' /\ LinkInv' /\ IdentitiesUnique'
      BY <2>0, <2>1, <2>2, SlotsKept, LinksQuiet, FewerUnique DEF Types
    <2>4. Types'
      BY <2>0, <2>1, <2>2 DEF Types
    <2> QED BY <2>2, <2>3, <2>4 DEF IInv
  <1>3. CASE c.kind \notin {"patch", "validate"}
    <2>1. AddAccount(i, c, prints, seen)
      BY <1>3 DEF Adopt
    <2>2. c.kind \in Adding
      BY <1>3 DEF Continues, Call, CallRecord, Kinds, Adding
    <2> QED BY <2>1, <2>2, AddKeeps
  <1> QED BY <1>1, <1>2, <1>3

(* rest is what call i has still to compare, and what c is sure of beyond  *)
(* it differs from the new identity.                                       *)
Comparing(c, rest, prints) ==
  /\ rest \subseteq Entry
  /\ \A b \in c.sure :
       /\ row[b] # NoIdentity /\ prints[b] \in {NoIdentity, row[b]}
       /\ b = c.target \/ row[b] # c.identity \/ [account |-> b, identity |-> row[b]] \in rest
  /\ \A o \in rest : o.account \in c.sure => o.identity = row[o.account]

LEMMA CompareKeeps ==
  ASSUME IInv, NEW i \in 1..MaxCalls, NEW c, Continues(i, c),
         NEW prints \in [Accounts -> Prints], NEW rest, Comparing(c, rest, prints),
         Compare(i, c, rest, prints), UNCHANGED <<now, started, reading, events>>
  PROVE  IInv'
  <1> DEFINE stops == Stops(rest, prints, c.identity)
             next  == Oldest(stops).account
             d     == [c EXCEPT !.others = {o \in rest : o.account >= next}]
  <1>1. c \in Call /\ c \in CallRecord /\ c.kind # "none" /\ c.identity \in Identities
        /\ rest \subseteq Entry
    BY DEF Continues, Call, Comparing
  <1>2. CASE stops = {}
    <2>1. Adopt(i, c, prints, c.identity)
      BY <1>2 DEF Compare
    <2>2. Clear(c)
      <3> SUFFICES ASSUME NEW b \in c.sure, b # c.target, row[b] = c.identity PROVE FALSE
        BY DEF Clear
      <3> DEFINE o == [account |-> b, identity |-> row[b]]
      <3>1. o \in rest /\ o.account = b /\ prints[b] \in {NoIdentity, row[b]}
        BY DEF Comparing
      <3>2. o \in stops
        BY <3>1 DEF Stops
      <3> QED BY <1>2, <3>2
    <2>3. c.identity \in Prints
      BY <1>1 DEF Prints
    <2> QED BY <2>1, <2>2, <2>3, AdoptKeeps
  <1>3. CASE stops # {} /\ prints[next] = c.identity
    <2>1. Reject(i, c, prints)
      BY <1>3 DEF Compare
    <2> QED BY <2>1, RejectKeeps
  <1>4. CASE stops # {} /\ prints[next] # c.identity
    <2>1. /\ print' = prints /\ Moved(i, d, row, prints)
          /\ UNCHANGED <<links, row, made, madeBy, excused>>
      BY <1>4 DEF Compare
    <2>2. stops \in SUBSET Entry
      BY <1>1 DEF Stops
    <2>3. \A o \in stops : next <= o.account
      <3> HIDE DEF stops
      <3> QED BY <1>4, <2>2, OldestIsFirst
    <2>4. {o \in rest : o.account >= next} \in SUBSET Entry
      BY <1>1
    <2>5. /\ d \in Call /\ d.kind = c.kind /\ d.link = c.link /\ d.target = c.target
          /\ d.identity = c.identity /\ d.todo = c.todo /\ d.sure = c.sure
          /\ d.others = {o \in rest : o.account >= next}
      <3> DEFINE S == {o \in rest : o.account >= next}
      <3>1. d = [c EXCEPT !.others = S] /\ S \in SUBSET Entry
        BY <2>4
      <3> HIDE DEF S, d
      <3>2. /\ d \in CallRecord /\ d.kind = c.kind /\ d.link = c.link /\ d.target = c.target
            /\ d.identity = c.identity /\ d.todo = c.todo /\ d.sure = c.sure /\ d.others = S
        BY <1>1, <3>1 DEF CallRecord
      <3> QED BY <1>1, <3>2 DEF Call, S
    <2>6. Sound(d, row)
      <3>1. ASSUME NEW b \in c.sure
            PROVE  /\ row[b] # NoIdentity
                   /\ \/ b = c.target \/ row[b] # c.identity
                      \/ [account |-> b, identity |-> row[b]] \in d.others
        <4> SUFFICES ASSUME b # c.target, row[b] = c.identity
                     PROVE  [account |-> b, identity |-> row[b]] \in d.others
          BY DEF Comparing
        <4> DEFINE o == [account |-> b, identity |-> row[b]]
        <4>1. o \in rest /\ o.account = b /\ prints[b] \in {NoIdentity, row[b]}
          BY DEF Comparing
        <4>2. o \in stops
          BY <4>1 DEF Stops
        <4>3. next <= o.account
          BY <2>3, <4>2
        <4>4. o.account \in Nat /\ next \in Nat
          <5>1. o \in Entry /\ Oldest(stops) \in Entry
            <6> HIDE DEF stops, o
            <6> QED BY <1>1, <1>4, <2>2, <4>1, OldestIsFirst
          <5> QED BY <5>1, AccountsAre DEF Entry
        <4>5. o.account >= next
          <5> HIDE DEF next, o
          <5> QED BY <4>3, <4>4
        <4> HIDE DEF d, next, stops
        <4> QED BY <2>5, <4>1, <4>5
      <3>2. \A o \in d.others : o.account \in c.sure => o.identity = row[o.account]
        <4> HIDE DEF d
        <4> QED BY <2>5 DEF Comparing
      <3> HIDE DEF d, next
      <3> QED BY <2>5, <3>1, <3>2 DEF Sound
    <2> HIDE DEF d, next, stops
    <2>7. Types /\ Budget /\ LinkInv /\ Sure /\ IdentitiesUnique
      BY DEF IInv
    <2>8. /\ calls' \in [1..MaxCalls -> Call] /\ Sure'
          /\ \A j \in 1..MaxCalls :
               calls'[j].kind = calls[j].kind /\ calls'[j].link = calls[j].link
               /\ calls'[j].todo = calls[j].todo
      <3>1. /\ calls' \in [1..MaxCalls -> Call] /\ Sure'
            /\ \A j \in 1..MaxCalls \ {i} :
                 calls'[j].kind = calls[j].kind /\ calls'[j].link = calls[j].link
                 /\ calls'[j].todo = calls[j].todo
            /\ calls'[i].kind = d.kind /\ calls'[i].link = d.link /\ calls'[i].todo = d.todo
        BY <2>1, <2>5, <2>6, <2>7, MovedCalls
      <3> QED BY <2>5, <3>1 DEF Continues
    <2>9. Slots(calls') = Slots(calls) /\ Fewer
      BY <2>8 DEF Slots, Fewer
    <2>10. Budget' /\ LinkInv' /\ IdentitiesUnique'
      BY <2>1, <2>7, <2>8, <2>9, SlotsKept, LinksQuiet, FewerUnique DEF Types
    <2>11. Types'
      BY <2>1, <2>7, <2>8 DEF Types
    <2> QED BY <2>8, <2>10, <2>11 DEF IInv
  <1> QED BY <1>2, <1>3, <1>4

LEMMA TokenCheckedKeeps ==
  ASSUME IInv, NEW i \in 1..MaxCalls,
         NEW answer \in {"valid", "anonymous", "unhealthy"}, TokenChecked(i, answer)
  PROVE  IInv'
  <1> DEFINE c == calls[i]
             d == [c EXCEPT !.sure = {a \in Rows : print[a] \in {NoIdentity, row[a]}}]
  <1>1. Types /\ Sure
    BY DEF IInv
  <1>2. c \in Call /\ c.kind # "none" /\ c.others = {} /\ print \in [Accounts -> Prints]
    BY <1>1 DEF Types, TokenChecked
  <1>3. UNCHANGED <<now, started, reading, events>>
    BY DEF TokenChecked
  <1>4. Continues(i, c)
    BY <1>2 DEF Continues
  <1>5. CASE answer = "unhealthy"
    <2>1. Reject(i, c, print)
      BY <1>5 DEF TokenChecked
    <2> QED BY <1>2, <1>3, <1>4, <2>1, RejectKeeps
  <1>6. CASE answer = "anonymous"
    <2>1. Adopt(i, c, print, NoIdentity)
      BY <1>6 DEF TokenChecked
    <2>2. Clear(c)
      BY <1>1, <1>2 DEF Clear, Sure, Sound
    <2>3. NoIdentity \in Prints
      BY DEF Prints
    <2> QED BY <1>2, <1>3, <1>4, <2>1, <2>2, <2>3, AdoptKeeps
  <1>7. CASE answer = "valid"
    <2>1. Compare(i, d, Listed(c), print)
      BY <1>7 DEF TokenChecked
    <2>2. /\ d \in Call /\ d.kind = c.kind /\ d.link = c.link /\ d.target = c.target
          /\ d.identity = c.identity /\ d.todo = c.todo
          /\ d.sure = {a \in Rows : print[a] \in {NoIdentity, row[a]}}
      <3> DEFINE S == {a \in Rows : print[a] \in {NoIdentity, row[a]}}
      <3>1. d = [c EXCEPT !.sure = S] /\ S \in SUBSET Accounts
        BY DEF Rows
      <3> HIDE DEF S, d
      <3>2. /\ d \in CallRecord /\ d.kind = c.kind /\ d.link = c.link /\ d.target = c.target
            /\ d.identity = c.identity /\ d.todo = c.todo /\ d.sure = S
        BY <1>2, <3>1 DEF Call, CallRecord
      <3> QED BY <1>2, <3>2 DEF Call, S
    <2> HIDE DEF d
    <2>3. Continues(i, d)
      BY <1>2, <2>2 DEF Continues
    <2>4. Comparing(d, Listed(c), print)
      <3>1. Listed(c) \subseteq Entry
        BY <1>1 DEF Listed, Entry, Rows, Types, Prints
      <3>2. ASSUME NEW b \in d.sure
            PROVE  /\ row[b] # NoIdentity /\ print[b] \in {NoIdentity, row[b]}
                   /\ b = d.target \/ [account |-> b, identity |-> row[b]] \in Listed(c)
        BY <2>2, <3>2 DEF Rows, Listed
      <3>3. \A o \in Listed(c) : o.identity = row[o.account]
        BY DEF Listed
      <3> QED BY <3>1, <3>2, <3>3 DEF Comparing
    <2> QED BY <1>2, <1>3, <2>1, <2>3, <2>4, CompareKeeps
  <1> QED BY <1>5, <1>6, <1>7

LEMMA OtherCheckedKeeps ==
  ASSUME IInv, NEW i \in 1..MaxCalls, NEW known \in BOOLEAN, OtherChecked(i, known)
  PROVE  IInv'
  <1> DEFINE o      == Oldest(calls[i].others)
             seen   == IF known THEN o.identity ELSE NoIdentity
             prints == [print EXCEPT ![o.account] = seen]
             S      == IF known THEN calls[i].sure ELSE calls[i].sure \ {o.account}
             c      == [calls[i] EXCEPT !.others = {}, !.sure = S]
  <1>1. Types /\ Sure
    BY DEF IInv
  <1>2. calls[i] \in Call /\ calls[i] \in CallRecord /\ print \in [Accounts -> Prints]
    BY <1>1 DEF Types, Call
  <1>3. calls[i].others # {} /\ UNCHANGED <<now, started, reading, events>>
    BY DEF OtherChecked
  <1>4. IF seen = c.identity THEN Reject(i, c, prints)
        ELSE Compare(i, c, calls[i].others \ {o}, prints)
    <2>1. c = [calls[i] EXCEPT !.others = {},
                               !.sure = IF known THEN @ ELSE @ \ {o.account}]
      OBVIOUS
    <2> HIDE DEF c
    <2> QED BY <2>1 DEF OtherChecked
  <1>5. calls[i].others \in SUBSET Entry /\ o \in calls[i].others /\ o \in Entry
    <2>1. calls[i].others \in SUBSET Entry
      BY <1>2 DEF CallRecord
    <2> QED BY <1>3, <2>1, OldestIsFirst
  <1>6. calls[i].kind # "none"
    BY <1>2, <1>3 DEF Call
  <1>7. /\ c \in Call /\ c.kind = calls[i].kind /\ c.link = calls[i].link
        /\ c.target = calls[i].target /\ c.identity = calls[i].identity
        /\ c.todo = calls[i].todo /\ c.sure = S
    <2>1. S \in SUBSET Accounts
      BY <1>2 DEF CallRecord
    <2> HIDE DEF S
    <2>2. /\ c \in CallRecord /\ c.kind = calls[i].kind /\ c.link = calls[i].link
          /\ c.target = calls[i].target /\ c.identity = calls[i].identity
          /\ c.todo = calls[i].todo /\ c.sure = S
      BY <1>2, <2>1 DEF CallRecord
    <2> HIDE DEF c
    <2> QED BY <1>2, <1>6, <2>2 DEF Call
  <1>8. Continues(i, c)
    <2> HIDE DEF c
    <2> QED BY <1>6, <1>7 DEF Continues
  <1>9. seen \in Prints
    BY <1>5 DEF Entry, Prints
  <1>10. prints \in [Accounts -> Prints] /\ prints[o.account] = seen
         /\ \A b \in Accounts : b # o.account => prints[b] = print[b]
    <2>1. o.account \in Accounts
      BY <1>5 DEF Entry
    <2> HIDE DEF o, seen
    <2> QED BY <1>2, <1>9, <2>1
  <1>11. CASE seen = c.identity
    <2>1. Reject(i, c, prints)
      BY <1>4, <1>11
    <2> HIDE DEF c, prints
    <2> QED BY <1>3, <1>8, <1>10, <2>1, RejectKeeps
  <1>12. CASE seen # c.identity
    <2> DEFINE rest == calls[i].others \ {o}
    <2>1. Compare(i, c, rest, prints)
      BY <1>4, <1>12
    <2>2. \A b \in S : b \in calls[i].sure /\ b \in Accounts /\ (known \/ b # o.account)
      BY <1>2 DEF CallRecord
    <2>3. \A b \in calls[i].sure :
            /\ row[b] # NoIdentity /\ print[b] \in {NoIdentity, row[b]}
            /\ \/ b = c.target \/ row[b] # c.identity
               \/ [account |-> b, identity |-> row[b]] \in calls[i].others
      BY <1>1, <1>7 DEF Sure, Sound
    <2>4. \A p \in calls[i].others : p.account \in calls[i].sure => p.identity = row[p.account]
      BY <1>1 DEF Sure, Sound
    <2>5. ASSUME NEW b \in S
          PROVE  /\ row[b] # NoIdentity /\ prints[b] \in {NoIdentity, row[b]}
                 /\ \/ b = c.target \/ row[b] # c.identity
                    \/ [account |-> b, identity |-> row[b]] \in rest
      <3>1. CASE b = o.account
        <4>1. known /\ o.identity = row[b] /\ seen = row[b]
          BY <1>5, <2>2, <2>4, <3>1
        <4> HIDE DEF seen, prints, c
        <4> QED BY <1>10, <1>12, <2>2, <2>3, <3>1, <4>1
      <3>2. CASE b # o.account
        <4> DEFINE p == [account |-> b, identity |-> row[b]]
        <4>1. p # o
          BY <3>2
        <4> HIDE DEF o, prints, c, S
        <4> QED BY <1>10, <2>2, <2>3, <3>2, <4>1
      <3> QED BY <3>1, <3>2
    <2>6. Comparing(c, rest, prints)
      <3>1. rest \subseteq Entry /\ c.sure = S
            /\ \A p \in rest : p.account \in S => p.identity = row[p.account]
        BY <1>5, <1>7, <2>2, <2>4
      <3> HIDE DEF c, prints, S, rest
      <3> QED BY <2>5, <3>1 DEF Comparing
    <2> HIDE DEF c, prints, rest
    <2> QED BY <1>3, <1>8, <1>10, <2>1, <2>6, CompareKeeps
  <1> QED BY <1>11, <1>12

-----------------------------------------------------------------------------
(* Calls arrive, and what happens beside them.                             *)

LEMMA BeginCalls ==
  ASSUME IInv, NEW i \in 1..MaxCalls, NEW c \in Call, c.sure = {}, c.others = {}, Begin(i, c),
         NEW n \in Nat, Act(n), c.kind \in Adding => Len(c.todo) + 1 <= n
  PROVE  /\ calls' \in [1..MaxCalls -> Call] /\ Sure' /\ Budget' /\ IdentitiesUnique'
         /\ events' \in 0..MaxEvents
         /\ \A j \in 1..MaxCalls \ {i} :
              calls'[j].kind = calls[j].kind /\ calls'[j].link = calls[j].link
         /\ calls'[i].kind = c.kind /\ calls'[i].link = c.link
  <1>1. Types /\ Sure /\ Budget /\ IdentitiesUnique
    BY DEF IInv
  <1>2. /\ calls' = [calls EXCEPT ![i] = c] /\ calls \in [1..MaxCalls -> Call]
        /\ UNCHANGED <<row, print, made, excused>>
    BY <1>1 DEF Begin, Types
  <1>3. calls' \in [1..MaxCalls -> Call] /\ calls'[i] = c
        /\ \A j \in 1..MaxCalls \ {i} : calls'[j] = calls[j]
    BY <1>2
  <1>4. Sure'
    <2>1. \A j \in 1..MaxCalls :
            calls'[j] = calls[j] \/ (calls'[j].sure = {} /\ calls'[j].others = {})
      BY <1>3
    <2> QED BY <1>1, <1>2, <2>1 DEF Sure, Sound
  <1>5. events' \in 0..MaxEvents /\ events' = events + n
    BY <1>1, OnboardingAssumption DEF Act, Types
  <1>6. Slots(calls') \subseteq Slots(calls) \cup ({i} \X (0..(n - 1)))
    <2> SUFFICES ASSUME NEW s \in Slots(calls'), s \notin Slots(calls)
                 PROVE  s \in {i} \X (0..(n - 1))
      OBVIOUS
    <2>1. s \in (1..MaxCalls) \X Nat /\ s[1] = i /\ c.kind \in Adding /\ s[2] <= Len(c.todo)
      BY <1>3 DEF Slots
    <2>2. Len(c.todo) \in Nat
      BY DEF Call, CallRecord
    <2>3. s[2] \in 0..(n - 1)
      BY <2>1, <2>2
    <2> QED BY <2>1, <2>3
  <1>7. Budget'
    BY <1>1, <1>2, <1>5, <1>6, SlotsPaid
  <1>8. IdentitiesUnique'
    BY <1>1, <1>2, FewerUnique
  <1> QED BY <1>3, <1>4, <1>5, <1>7, <1>8

LEMMA ArrivalKeeps ==
  ASSUME IInv, NEW i \in 1..MaxCalls, NEW c \in Call, c.sure = {}, c.others = {}, Begin(i, c),
         NEW n \in Nat, Act(n), c.kind \in Adding => Len(c.todo) + 1 <= n,
         c.kind # "link", UNCHANGED links
  PROVE  IInv'
  <1>1. Types /\ LinkInv
    BY DEF IInv
  <1>2. UNCHANGED <<now, started, row, print, made, reading, madeBy, excused>>
    BY DEF Begin
  <1>3. /\ calls' \in [1..MaxCalls -> Call] /\ Sure' /\ Budget' /\ IdentitiesUnique'
        /\ events' \in 0..MaxEvents
        /\ \A j \in 1..MaxCalls \ {i} :
             calls'[j].kind = calls[j].kind /\ calls'[j].link = calls[j].link
        /\ calls'[i].kind = c.kind
    BY BeginCalls
  <1>4. Fewer
    BY <1>3 DEF Fewer
  <1>5. LinkInv'
    BY <1>1, <1>2, <1>4, LinksQuiet DEF Types
  <1>6. Types'
    BY <1>1, <1>2, <1>3 DEF Types
  <1> QED BY <1>3, <1>5, <1>6 DEF IInv

LEMMA CallsArrive ==
  ASSUME IInv, NEW i \in 1..MaxCalls, NEW identity \in Identities,
         \/ CreateAccount(i, identity) \/ ValidateCredentials(i, identity)
         \/ \E a \in Accounts : PatchCredentials(i, a, identity)
  PROVE  IInv'
  <1>0. <<>> \in Seq(Identities) /\ Len(<<>>) = 0 /\ 0 \in Nat /\ 1 \in Nat
    OBVIOUS
  <1>1. CASE CreateAccount(i, identity)
    <2> DEFINE c == [NoCall EXCEPT !.kind = "create", !.identity = identity]
    <2>1. Begin(i, c) /\ Act(1) /\ UNCHANGED links
      BY <1>1 DEF CreateAccount
    <2>2. c = [NoCall EXCEPT !.kind = "create", !.identity = identity]
      OBVIOUS
    <2> HIDE DEF c
    <2>3. c \in Call /\ c.kind = "create" /\ c.sure = {} /\ c.others = {}
          /\ Len(c.todo) + 1 <= 1
      <3>1. c \in CallRecord
        BY <1>0, <2>2, NoCallIs DEF Call, CallRecord, Kinds, Prints
      <3>2. /\ c.kind = "create" /\ c.identity = identity /\ c.target = 0 /\ c.todo = <<>>
            /\ c.sure = {} /\ c.others = {}
        BY <2>2, NoCallIs DEF Call, CallRecord
      <3> QED BY <1>0, <3>1, <3>2 DEF Call
    <2> QED BY <1>0, <2>1, <2>3, ArrivalKeeps
  <1>2. CASE ValidateCredentials(i, identity)
    <2> DEFINE c == [NoCall EXCEPT !.kind = "validate", !.identity = identity]
    <2>1. Begin(i, c) /\ Act(1) /\ UNCHANGED links
      BY <1>2 DEF ValidateCredentials
    <2>2. c = [NoCall EXCEPT !.kind = "validate", !.identity = identity]
      OBVIOUS
    <2> HIDE DEF c
    <2>3. c \in Call /\ c.kind = "validate" /\ c.sure = {} /\ c.others = {}
          /\ Len(c.todo) + 1 <= 1
      <3>1. c \in CallRecord
        BY <1>0, <2>2, NoCallIs DEF Call, CallRecord, Kinds, Prints
      <3>2. /\ c.kind = "validate" /\ c.identity = identity /\ c.target = 0 /\ c.todo = <<>>
            /\ c.sure = {} /\ c.others = {}
        BY <2>2, NoCallIs DEF Call, CallRecord
      <3> QED BY <1>0, <3>1, <3>2 DEF Call
    <2> QED BY <1>0, <2>1, <2>3, ArrivalKeeps
  <1>3. ASSUME NEW a \in Accounts, PatchCredentials(i, a, identity)
        PROVE  IInv'
    <2> DEFINE c == [NoCall EXCEPT !.kind = "patch", !.target = a, !.identity = identity]
    <2>1. Begin(i, c) /\ Act(1) /\ UNCHANGED links
      BY <1>3 DEF PatchCredentials
    <2>2. c = [NoCall EXCEPT !.kind = "patch", !.target = a, !.identity = identity]
      OBVIOUS
    <2>3. a \in Nat
      BY AccountsAre
    <2> HIDE DEF c
    <2>4. c \in Call /\ c.kind = "patch" /\ c.sure = {} /\ c.others = {}
          /\ Len(c.todo) + 1 <= 1
      <3>1. c \in CallRecord
        BY <1>0, <2>2, <2>3, NoCallIs DEF Call, CallRecord, Kinds, Prints
      <3>2. /\ c.kind = "patch" /\ c.identity = identity /\ c.target = a /\ c.todo = <<>>
            /\ c.sure = {} /\ c.others = {}
        BY <2>2, NoCallIs DEF Call, CallRecord
      <3> QED BY <1>0, <3>1, <3>2 DEF Call
    <2> QED BY <1>0, <2>1, <2>4, ArrivalKeeps
  <1> QED BY <1>1, <1>2, <1>3

LEMMA ImportArrives ==
  ASSUME IInv, NEW i \in 1..MaxCalls, NEW bundle \in [1..BundleSize -> Identities],
         ImportAccounts(i, bundle)
  PROVE  IInv'
  <1> DEFINE h == Head(bundle)
             t == Tail(bundle)
             c == [NoCall EXCEPT !.kind = "import", !.identity = h, !.todo = t]
  <1>1. /\ bundle \in Seq(Identities) /\ Len(bundle) \in Nat /\ bundle # <<>>
        /\ h \in Identities /\ t \in Seq(Identities) /\ Len(t) + 1 = Len(bundle)
    <2>1. BundleSize \in Nat \ {0}
      BY OnboardingAssumption
    <2>2. bundle \in Seq(Identities) /\ Len(bundle) = BundleSize
      BY <2>1
    <2>3. bundle # <<>>
      BY <2>1, <2>2
    <2> QED BY <2>1, <2>2, <2>3
  <1>2. Begin(i, c) /\ Act(Len(bundle)) /\ UNCHANGED links
    BY DEF ImportAccounts
  <1>3. c = [NoCall EXCEPT !.kind = "import", !.identity = h, !.todo = t]
    OBVIOUS
  <1> HIDE DEF c, h, t
  <1>4. c \in Call /\ c.kind = "import" /\ c.sure = {} /\ c.others = {} /\ c.todo = t
    <2>1. c \in CallRecord
      BY <1>1, <1>3, NoCallIs DEF Call, CallRecord, Kinds, Prints
    <2>2. /\ c.kind = "import" /\ c.identity = h /\ c.target = 0 /\ c.todo = t
          /\ c.sure = {} /\ c.others = {}
      BY <1>3, NoCallIs DEF Call, CallRecord
    <2> QED BY <1>1, <2>1, <2>2 DEF Call
  <1>5. Len(c.todo) + 1 <= Len(bundle)
    BY <1>1, <1>4
  <1> QED BY <1>1, <1>2, <1>4, <1>5, ArrivalKeeps

LEMMA CaptureKeeps ==
  ASSUME IInv, NEW i \in 1..MaxCalls, NEW l \in Links, NEW identity \in Identities,
         Capture(i, l, identity)
  PROVE  IInv'
  <1> DEFINE c == [NoCall EXCEPT !.kind = "link", !.link = l, !.identity = identity]
  <1>1. /\ Begin(i, c) /\ Act(1) /\ ClaimKind(links[l], now) = "ready"
        /\ links' = [links EXCEPT ![l] = Claimed(@)]
    BY DEF Capture
  <1>2. c = [NoCall EXCEPT !.kind = "link", !.link = l, !.identity = identity]
    OBVIOUS
  <1>3. <<>> \in Seq(Identities) /\ l \in Nat
    BY LinkAssumption
  <1> HIDE DEF c
  <1>4. c \in Call /\ c.kind = "link" /\ c.link = l /\ c.sure = {} /\ c.others = {} /\ c.todo = <<>>
    <2>1. c \in CallRecord
      BY <1>2, <1>3, NoCallIs DEF Call, CallRecord, Kinds, Prints
    <2>2. /\ c.kind = "link" /\ c.link = l /\ c.identity = identity /\ c.target = 0
          /\ c.todo = <<>> /\ c.sure = {} /\ c.others = {}
      BY <1>2, NoCallIs DEF Call, CallRecord
    <2> QED BY <2>1, <2>2 DEF Call
  <1>5. Len(c.todo) + 1 <= 1
    BY <1>4
  <1>6. UNCHANGED <<now, started, row, print, made, reading, madeBy, excused>>
    BY <1>1 DEF Begin
  <1>7. /\ calls' \in [1..MaxCalls -> Call] /\ Sure' /\ Budget' /\ IdentitiesUnique'
        /\ events' \in 0..MaxEvents
        /\ \A j \in 1..MaxCalls \ {i} :
             calls'[j].kind = calls[j].kind /\ calls'[j].link = calls[j].link
        /\ calls'[i].kind = "link" /\ calls'[i].link = l
    BY <1>1, <1>4, <1>5, BeginCalls
  <1>8. LinkInv' /\ links' \in [Links -> LinkRecord]
    BY <1>1, <1>6, <1>7, LinkClaimed DEF IInv
  <1>9. Types'
    BY <1>6, <1>7, <1>8 DEF IInv, Types
  <1> QED BY <1>7, <1>8, <1>9 DEF IInv

(* A step that leaves rows, prints and calls alone.                        *)
LEMMA AsideKeeps ==
  ASSUME IInv, UNCHANGED <<row, print, made, calls, madeBy, excused>>,
         now' \in Nat, started' \in Nat, events' \in 0..MaxEvents, events' >= events,
         links' \in [Links -> LinkRecord], LinkInv', reading' \in [Accounts -> Prints]
  PROVE  IInv'
  <1>1. Types /\ Budget /\ Sure /\ IdentitiesUnique
    BY DEF IInv
  <1>2. Types'
    BY <1>1 DEF Types
  <1>3. Budget' /\ IdentitiesUnique'
    BY <1>1, SlotsKept, FewerUnique DEF Slots
  <1>4. Sure'
    BY <1>1 DEF Sure, Sound
  <1> QED BY <1>2, <1>3, <1>4 DEF IInv

LEMMA StartLinkKeeps == ASSUME IInv, NEW l \in Links, StartLink(l) PROVE IInv'
  <1>1. /\ l = started + 1 /\ started' = l /\ links' = Created(links, l, now)
        /\ UNCHANGED <<now, row, print, made, calls, reading, madeBy, excused, events>>
    BY DEF StartLink
  <1>2. Types /\ LinkInv
    BY DEF IInv
  <1>3. started \in Nat /\ l \in Nat /\ now + Lifetime \in Nat /\ started' >= started
    BY <1>1, <1>2, LinkAssumption DEF Types
  <1>4. Link("waiting", now + Lifetime) \in LinkRecord /\ NoLink \in LinkRecord
        /\ Link("waiting", now + Lifetime).status = "waiting"
    BY <1>3 DEF Link, NoLink, LinkRecord, Statuses
  <1>5. \A m \in Links :
          IF m = l THEN links'[m] = Link("waiting", now + Lifetime)
          ELSE links'[m] = NoLink \/ links'[m] = links[m]
    <2> DEFINE kept == Purged(links, now)
               evicted == IF Cardinality(Present(kept)) >= MaxPending
                          THEN {Min(Present(kept))} ELSE {}
    <2>1. \A m \in Links : kept[m] = NoLink \/ kept[m] = links[m]
      BY DEF Purged
    <2>2. links' = [m \in Links |-> IF m = l THEN Link("waiting", now + Lifetime)
                                     ELSE IF m \in evicted THEN NoLink ELSE kept[m]]
      BY <1>1, Zenon DEF Created
    <2> HIDE DEF kept, evicted
    <2> QED BY <2>1, <2>2
  <1>6. links' = [m \in Links |-> links'[m]]
    BY <1>1 DEF Created
  <1>7. links' \in [Links -> LinkRecord]
    BY <1>2, <1>4, <1>5, <1>6 DEF Types
  <1>8. LinkInv'
    <2>1. Fewer /\ started' \in Nat /\ l > started
      BY <1>1, <1>3 DEF Fewer
    <2> QED BY <1>1, <1>2, <1>3, <1>4, <1>5, <2>1, LinksLost
  <1> QED BY <1>1, <1>2, <1>3, <1>7, <1>8, AsideKeeps DEF Types

LEMMA CancelLinkKeeps == ASSUME IInv, NEW l \in Links, CancelLink(l) PROVE IInv'
  <1>1. /\ links[l].status \notin {"absent", "complete"}
        /\ links' = [links EXCEPT ![l] = Cancelled(@)]
        /\ UNCHANGED <<now, started, row, print, made, calls, reading, madeBy, excused, events>>
    BY DEF CancelLink, Cancellable
  <1>2. Types /\ LinkInv
    BY DEF IInv
  <1>3. l \in Nat /\ started \in Nat /\ l <= started
    <2>1. l \in Nat /\ started \in Nat
      BY <1>2, LinkAssumption DEF Types
    <2>2. links[l] # NoLink
      BY <1>1 DEF NoLink, Link
    <2> QED BY <1>2, <2>1, <2>2 DEF LinkInv, LinksFresh
  <1>4. links' \in [Links -> LinkRecord] /\ links'[l].status = "cancelled"
        /\ \A m \in Links \ {l} : links'[m] = links[m]
    <2> DEFINE k == Cancelled(links[l])
    <2>1. k \in LinkRecord /\ k.status = "cancelled"
      BY <1>2, StatusesOf DEF Types
    <2>2. links \in [Links -> LinkRecord] /\ links' = [links EXCEPT ![l] = k]
      BY <1>1, <1>2 DEF Types
    <2> HIDE DEF k
    <2> QED BY <2>1, <2>2
  <1>5. LinkInv'
    <2>1. Fewer
      BY <1>1 DEF Fewer
    <2> QED BY <1>1, <1>2, <1>3, <1>4, <2>1, LinksLost
  <1> QED BY <1>1, <1>2, <1>4, <1>5, AsideKeeps DEF Types

LEMMA WriteKeeps ==
  ASSUME IInv, NEW rows \in [Accounts -> Prints], NEW prints \in [Accounts -> Prints],
         \A a \in Accounts : rows[a] \in {row[a], NoIdentity},
         Write(rows, prints), reading' \in [Accounts -> Prints],
         events' \in 0..MaxEvents, events' >= events
  PROVE  IInv'
  <1>1. Types /\ Budget /\ LinkInv /\ Sure /\ IdentitiesUnique
    BY DEF IInv
  <1>2. /\ row' = rows /\ print' = prints /\ calls' = Watched(calls, rows, prints)
        /\ UNCHANGED <<now, links, started, made, madeBy, excused>>
    BY DEF Write
  <1>3. \A j \in 1..MaxCalls : calls[j] \in Call /\ Sound(calls[j], row)
    BY <1>1 DEF Types, Sure
  <1>4. calls' \in [1..MaxCalls -> Call] /\ Slots(calls') = Slots(calls)
    BY <1>2, <1>3, WatchedCalls
  <1>5. Sure'
    BY <1>2, <1>3, SureKept
  <1>6. Fewer
    <2>1. \A j \in 1..MaxCalls : calls'[j].kind = calls[j].kind /\ calls'[j].link = calls[j].link
      BY <1>2, <1>3, WatchedCall
    <2> QED BY <2>1 DEF Fewer
  <1>7. Budget'
    BY <1>1, <1>2, <1>4, SlotsKept
  <1>8. LinkInv'
    BY <1>1, <1>2, <1>6, LinksQuiet DEF Types
  <1>9. IdentitiesUnique'
    BY <1>1, <1>2, FewerUnique
  <1>10. Types'
    BY <1>1, <1>2, <1>4 DEF Types
  <1> QED BY <1>5, <1>7, <1>8, <1>9, <1>10 DEF IInv

LEMMA OneEvent ==
  ASSUME Types, Act(1)
  PROVE  events' \in 0..MaxEvents /\ events' >= events
  BY OnboardingAssumption DEF Types, Act

LEMMA AccountsAsideKeep ==
  ASSUME IInv, NEW a \in Accounts,
         \/ DeleteAccount(a) \/ CheckStarts(a) \/ TrafficFindsHold(a)
         \/ \E known \in BOOLEAN : CheckEnds(a, known)
  PROVE  IInv'
  <1>1. /\ row \in [Accounts -> Prints] /\ print \in [Accounts -> Prints]
        /\ reading \in [Accounts -> Prints] /\ NoIdentity \in Prints
        /\ events \in 0..MaxEvents /\ events >= events /\ Types /\ LinkInv
    BY OnboardingAssumption DEF IInv, Types, Prints
  <1>2. CASE DeleteAccount(a)
    <2> DEFINE rows == [row EXCEPT ![a] = NoIdentity]
               ps   == [print EXCEPT ![a] = NoIdentity]
    <2>1. Write(rows, ps) /\ UNCHANGED reading /\ Act(1)
      BY <1>2 DEF DeleteAccount
    <2>2. /\ rows \in [Accounts -> Prints] /\ ps \in [Accounts -> Prints]
          /\ \A b \in Accounts : rows[b] \in {row[b], NoIdentity}
      BY <1>1
    <2> HIDE DEF rows, ps
    <2> QED BY <1>1, <2>1, <2>2, OneEvent, WriteKeeps
  <1>3. CASE CheckStarts(a)
    <2>1. /\ Act(1) /\ reading' = [reading EXCEPT ![a] = row[a]]
          /\ UNCHANGED <<now, links, started, row, print, made, calls, madeBy, excused>>
      BY <1>3 DEF CheckStarts
    <2>2. reading' \in [Accounts -> Prints]
      BY <1>1, <2>1
    <2>3. LinkInv'
      BY <1>1, <2>1, LinksQuiet DEF Fewer, Types
    <2> QED BY <1>1, <2>1, <2>2, <2>3, OneEvent, AsideKeeps DEF Types
  <1>4. CASE TrafficFindsHold(a)
    <2> DEFINE ps == [print EXCEPT ![a] = NoIdentity]
    <2>1. Write(row, ps) /\ UNCHANGED reading /\ Act(1)
      BY <1>4 DEF TrafficFindsHold
    <2>2. ps \in [Accounts -> Prints]
      BY <1>1
    <2> HIDE DEF ps
    <2> QED BY <1>1, <2>1, <2>2, OneEvent, WriteKeeps
  <1>5. ASSUME NEW known \in BOOLEAN, CheckEnds(a, known)
        PROVE  IInv'
    <2> DEFINE ps == [print EXCEPT ![a] = IF known THEN reading[a] ELSE NoIdentity]
    <2>1. Write(row, ps) /\ reading' = [reading EXCEPT ![a] = NoIdentity] /\ UNCHANGED events
      BY <1>5 DEF CheckEnds
    <2>2. ps \in [Accounts -> Prints] /\ reading' \in [Accounts -> Prints]
      BY <1>1, <2>1
    <2> HIDE DEF ps
    <2> QED BY <1>1, <2>1, <2>2, WriteKeeps
  <1> QED BY <1>2, <1>3, <1>4, <1>5

LEMMA RestartKeeps == ASSUME IInv, Restart PROVE IInv'
  <1>1. /\ Act(1) /\ links' = [l \in Links |-> NoLink]
        /\ print' = [a \in Accounts |-> NoIdentity] /\ reading' = [a \in Accounts |-> NoIdentity]
        /\ calls' = [i \in 1..MaxCalls |-> NoCall]
        /\ UNCHANGED <<now, started, row, made, madeBy, excused>>
    BY DEF Restart
  <1>2. Types /\ Budget /\ LinkInv /\ IdentitiesUnique
    BY DEF IInv
  <1>3. Fewer /\ Slots(calls') \subseteq Slots(calls) /\ calls' \in [1..MaxCalls -> Call]
    BY <1>1, NoCallIs DEF Fewer, Slots, Adding
  <1>4. events' \in 0..MaxEvents /\ events' >= events
    BY <1>1, <1>2, OneEvent
  <1>5. Budget'
    <2>1. made' = made /\ events' \in Nat /\ events' >= events
      BY <1>1, <1>4, OnboardingAssumption
    <2>2. Slots(calls') \subseteq Slots(calls)
      BY <1>3
    <2> QED BY <1>2, <2>1, <2>2, SlotsKept
  <1>6. LinkInv'
    <2>1. started \in Nat /\ started' >= started
      BY <1>1, <1>2 DEF Types
    <2> QED BY <1>1, <1>2, <1>3, <2>1, LinksLost
  <1>7. Sure'
    BY <1>1, NoCallIs DEF Sure, Sound
  <1>8. IdentitiesUnique'
    BY <1>1, <1>2, FewerUnique
  <1>9. Types'
    <2>1. NoLink \in LinkRecord
      BY DEF NoLink, Link, LinkRecord, Statuses
    <2> QED BY <1>1, <1>2, <1>3, <1>4, <2>1 DEF Types, Prints
  <1> QED BY <1>5, <1>6, <1>7, <1>8, <1>9 DEF IInv

LEMMA TickKeeps ==
  ASSUME IInv, now' \in Nat,
         UNCHANGED <<links, started, row, print, made, calls, reading, madeBy, excused, events>>
  PROVE  IInv'
  <1>1. Types /\ LinkInv
    BY DEF IInv
  <1>2. LinkInv'
    BY <1>1, LinksQuiet DEF Fewer, Types
  <1>3. events \in 0..MaxEvents /\ events >= events
    BY <1>1, OnboardingAssumption DEF Types
  <1> QED BY <1>1, <1>2, <1>3, AsideKeeps DEF Types

-----------------------------------------------------------------------------
LEMMA OnboardingInit == Init => IInv
  <1> SUFFICES ASSUME Init PROVE IInv
    OBVIOUS
  <1>1. /\ now = 0 /\ events = 0 /\ made = FirstCount /\ started = 0
        /\ links = [l \in Links |-> NoLink] /\ row \in [Accounts -> Prints]
        /\ {row[a] : a \in 1..FirstCount} = FirstIdentities
        /\ \A a \in Accounts : row[a] # NoIdentity <=> a <= FirstCount
        /\ print = [a \in Accounts |-> NoIdentity] /\ reading = [a \in Accounts |-> NoIdentity]
        /\ calls = [i \in 1..MaxCalls |-> NoCall] /\ madeBy = [a \in Accounts |-> 0]
        /\ excused = {}
    BY DEF Init
  <1>2. Types
    <2>1. NoLink \in LinkRecord /\ NoIdentity \in Prints
      BY DEF NoLink, Link, LinkRecord, Statuses, Prints
    <2>2. now \in Nat /\ started \in Nat /\ made \in Nat /\ events \in 0..MaxEvents
      BY <1>1, AccountsAre
    <2> QED BY <1>1, <2>1, <2>2, NoCallIs DEF Types
  <1>3. Budget
    <2>1. Slots(calls) = {}
      BY <1>1, NoCallIs DEF Slots, Adding
    <2>2. IsFiniteSet({}) /\ Cardinality({}) = 0
      BY FS_EmptySet
    <2>3. FirstCount \in Nat
      BY AccountsAre
    <2>4. IsFiniteSet(Slots(calls)) /\ Cardinality(Slots(calls)) = 0
      BY <2>1, <2>2
    <2>5. made = FirstCount /\ events = 0
      BY <1>1
    <2> QED BY <2>3, <2>4, <2>5 DEF Budget
  <1>4. LinkInv
    <2>1. NoLink.status = "absent"
      BY DEF NoLink, Link
    <2>2. LinksFresh
      BY <1>1 DEF LinksFresh
    <2>3. MakersDone /\ Completions /\ OneAccountPerLink
      BY <1>1, <2>1 DEF MakersDone, Completions, OneAccountPerLink
    <2>4. Captures
      BY <1>1, NoCallIs DEF Captures
    <2> QED BY <2>2, <2>3, <2>4 DEF LinkInv
  <1>5. Sure
    BY <1>1, NoCallIs DEF Sure, Sound
  <1>6. IdentitiesUnique
    <2> DEFINE N == 1..FirstCount
               f == [a \in N |-> row[a]]
    <2>1. FirstCount \in Nat /\ N \subseteq Accounts
      BY AccountsAre
    <2>2. IsFiniteSet(N) /\ Cardinality(N) = Cardinality(FirstIdentities)
      <3>1. 1 \in Int /\ FirstCount \in Int
        BY <2>1
      <3>2. IsFiniteSet(N) /\ Cardinality(N) = IF 1 > FirstCount THEN 0 ELSE FirstCount - 1 + 1
        BY <3>1, FS_Interval
      <3> HIDE DEF N
      <3> QED BY <2>1, <3>2 DEF FirstCount
    <2>3. f \in Surjection(N, FirstIdentities)
      BY <1>1 DEF Surjection
    <2> HIDE DEF N, f
    <2>4. f \in Injection(N, FirstIdentities)
      BY <2>2, <2>3, FS_SurjSameCardinalityImpliesInj
    <2>5. \A a, b \in N : f[a] = f[b] => a = b
      BY <2>4 DEF Injection, IsInjective
    <2>6. \A a, b \in N : row[a] = row[b] => a = b
      BY <2>5 DEF f
    <2>7. Rows \subseteq N
      BY <1>1, <2>1, AccountsAre DEF Rows, N
    <2> QED BY <2>6, <2>7 DEF IdentitiesUnique
  <1> QED BY <1>2, <1>3, <1>4, <1>5, <1>6 DEF IInv

LEMMA OnboardingStep == IInv /\ [Next]_vars => IInv'
  <1> SUFFICES ASSUME IInv, [Next]_vars PROVE IInv'
    OBVIOUS
  <1>1. ASSUME NEW i \in 1..MaxCalls, Answered(i)
        PROVE  IInv'
    BY <1>1, TokenCheckedKeeps, OtherCheckedKeeps DEF Answered
  <1>2. ASSUME NEW i \in 1..MaxCalls, NEW identity \in Identities,
               \/ \E l \in Links : Capture(i, l, identity)
               \/ CreateAccount(i, identity) \/ ValidateCredentials(i, identity)
               \/ \E a \in Accounts : PatchCredentials(i, a, identity)
        PROVE  IInv'
    BY <1>2, CaptureKeeps, CallsArrive
  <1>3. ASSUME NEW i \in 1..MaxCalls, NEW bundle \in [1..BundleSize -> Identities],
               ImportAccounts(i, bundle)
        PROVE  IInv'
    BY <1>3, ImportArrives
  <1>4. ASSUME NEW l \in Links, StartLink(l) \/ CancelLink(l)
        PROVE  IInv'
    BY <1>4, StartLinkKeeps, CancelLinkKeeps
  <1>5. ASSUME NEW a \in Accounts,
               \/ DeleteAccount(a) \/ CheckStarts(a) \/ TrafficFindsHold(a)
               \/ \E known \in BOOLEAN : CheckEnds(a, known)
        PROVE  IInv'
    BY <1>5, AccountsAsideKeep
  <1>6. CASE Restart
    BY <1>6, RestartKeeps
  <1>7. CASE Tick
    BY <1>7, TickKeeps DEF Tick, IInv, Types
  <1>8. CASE UNCHANGED vars
    BY <1>8, TickKeeps DEF vars, IInv, Types
  <1> QED BY <1>1, <1>2, <1>3, <1>4, <1>5, <1>6, <1>7, <1>8 DEF Next

(* The inductive invariant: at most one call completes a link, that link   *)
(* has made no account yet, and a call in the middle of its comparison     *)
(* has compared or still lists every account it is sure of                 *)
(* (admin.ts:239-256, 508-622).                                            *)
THEOREM OnboardingInvariant == Spec => []IInv
  BY OnboardingInit, OnboardingStep, PTL DEF Spec

(* A link adds one account at most and a completed link names it, for any  *)
(* number of links, captures in flight, cancellations, evictions and       *)
(* restarts (deepseek-link-session.ts:104-158).                            *)
THEOREM OnboardingOneAccountPerLink == Spec => []OneAccountPerLink
  <1>1. IInv => OneAccountPerLink
    BY DEF IInv, LinkInv
  <1> QED BY <1>1, OnboardingInvariant, PTL

(* Two accounts have one identity only if the call that wrote the second   *)
(* could not know, for any number of identities, accounts and calls        *)
(* (admin.ts:239-256).                                                     *)
THEOREM OnboardingIdentitiesUnique == Spec => []IdentitiesUnique
  <1>1. IInv => IdentitiesUnique
    BY DEF IInv
  <1> QED BY <1>1, OnboardingInvariant, PTL
=============================================================================
