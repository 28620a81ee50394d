------------------------- MODULE LinkPairingProofs --------------------------
(***************************************************************************)
(* Proofs about LinkPairing for any number of links, of polls and checks   *)
(* in flight, of acts of the two users and of failures of the network.     *)
(***************************************************************************)
EXTENDS LinkPairing, TLAPS

Statuses == {"absent", "waiting", "validating", "complete", "cancelled", "expired"}

LinkRecords == [status : Statuses, expires : Int, account : Int]

Panels == [link : Links \cup {0}, status : Statuses]

Phases == {"none", "reading", "waiting", "sent", "validating", "busy", "complete", "error", "lost"}

Checks == [phase : Phases, link : Links \cup {0}, by : {"script", "start"}]

Types ==
  /\ now \in Nat /\ started \in Nat
  /\ links \in [Links -> LinkRecords]
  /\ told \in [Links -> Nat]
  /\ panel \in Panels /\ effect \in Panels
  /\ \A p \in polls : p \in [by : Panels, status : Statuses] /\ p.by.link # 0
  /\ checks \in [1..MaxChecks -> Checks]
  /\ candidate \in Links \cup {0} /\ pending \in Links \cup {0}
  /\ abandoned \subseteq Links /\ added \subseteq Links
  /\ reported \in BOOLEAN /\ cancelling \in BOOLEAN

(* Every trace of a completed link, on its way from the server to the      *)
(* console and to the extension, is of a link that added an account.       *)
Truthful ==
  /\ \A l \in Links : links[l].status = "complete" => l \in added
  /\ \A p \in polls : p.status = "complete" => p.by.link \in added
  /\ \A i \in 1..MaxChecks :
       /\ checks[i].phase \notin {"none", "reading"} => checks[i].link \in Links
       /\ checks[i].phase = "complete" => checks[i].link \in added
  /\ \A l \in Links : told[l] > 0 => l \in added
  /\ shown = "complete" \/ finished => added # {}

(* The live effect polls for the link of the panel or for one its user     *)
(* gave up, and a cancel under way is of the panel's link.                 *)
Attentive ==
  /\ effect.link \in {0, panel.link} \cup abandoned
  /\ cancelling => panel.link \in abandoned
  /\ panel.link <= started /\ effect.link <= started

(* A link that was told of is not told of again: the ref remembers it, or  *)
(* neither the panel nor the effect is about it any more.                  *)
ToldOnce ==
  \A l \in Links :
    told[l] > 0 =>
      /\ l <= started
      /\ l \notin abandoned =>
           told[l] = 1 /\ (reported \/ (panel.link # l /\ effect.link # l))

IInv == Types /\ Truthful /\ Attentive /\ ToldOnce

LEMMA PairingInit == Init => IInv
  <1> SUFFICES ASSUME Init PROVE IInv
    OBVIOUS
  <1> USE DEF Init, NoPanel, NoCheck, NoLink, Link
  <1>1. Types
    <2>1. NoLink \in LinkRecords /\ NoPanel \in Panels /\ NoCheck \in Checks
      BY DEF LinkRecords, Panels, Checks, Statuses, Phases
    <2>2. links \in [Links -> LinkRecords] /\ checks \in [1..MaxChecks -> Checks]
      BY <2>1
    <2>3. told \in [Links -> Nat] /\ panel \in Panels /\ effect \in Panels
      BY <2>1
    <2>4. reported \in BOOLEAN /\ cancelling \in BOOLEAN
      OBVIOUS
    <2> QED BY <2>2, <2>3, <2>4 DEF Types
  <1>2. Truthful
    BY DEF Truthful
  <1>3. Attentive /\ ToldOnce
    BY DEF Attentive, ToldOnce
  <1> QED BY <1>1, <1>2, <1>3 DEF IInv

-----------------------------------------------------------------------------
(* The records of the server.                                              *)

LEMMA LinkOperations ==
  ASSUME NEW link \in LinkRecords, NEW t \in Nat, NEW l \in Links
  PROVE  /\ Claimed(link) \in LinkRecords /\ Claimed(link).status = "validating"
         /\ Failed(link) \in LinkRecords
         /\ Failed(link).status = "complete" => link.status = "complete"
         /\ Completed(link, l) \in LinkRecords
         /\ Cancelled(link) \in LinkRecords /\ Cancelled(link).status = "cancelled"
         /\ ViewStatus(link, t) \in Statuses
         /\ ViewStatus(link, t) = "complete" => link.status = "complete"
         /\ ClaimKind(link, t) \in {"refused", "complete", "busy", "ready"}
         /\ ClaimKind(link, t) = "complete" => link.status = "complete"
  <1>1. /\ Claimed(link) \in LinkRecords /\ Claimed(link).status = "validating"
        /\ Cancelled(link) \in LinkRecords /\ Cancelled(link).status = "cancelled"
    BY DEF LinkRecords, Statuses, Claimed, Cancelled
  <1>2. /\ Failed(link) \in LinkRecords
        /\ Failed(link).status = "complete" => link.status = "complete"
    BY DEF LinkRecords, Statuses, Failed
  <1>3. Completed(link, l) \in LinkRecords
    <2>1. CASE link.status = "validating"
      <3>1. Completed(link, l) = [status |-> "complete", expires |-> link.expires, account |-> l]
        BY <2>1 DEF LinkRecords, Completed
      <3> QED BY <3>1, LinkAssumption DEF LinkRecords, Statuses
    <2>2. CASE link.status # "validating"
      BY <2>2 DEF Completed
    <2> QED BY <2>1, <2>2
  <1>4. /\ ViewStatus(link, t) \in Statuses
        /\ ViewStatus(link, t) = "complete" => link.status = "complete"
    BY DEF LinkRecords, Statuses, ViewStatus
  <1>5. /\ ClaimKind(link, t) \in {"refused", "complete", "busy", "ready"}
        /\ ClaimKind(link, t) = "complete" => link.status = "complete"
    BY DEF ClaimKind
  <1> QED BY <1>1, <1>2, <1>3, <1>4, <1>5

LEMMA CreatedFacts ==
  ASSUME NEW ls \in [Links -> LinkRecords], NEW t \in Nat, NEW l \in Links
  PROVE  /\ Created(ls, l, t) \in [Links -> LinkRecords]
         /\ \A k \in Links : Created(ls, l, t)[k].status = "complete" => ls[k].status = "complete"
  <1> DEFINE kept == Purged(ls, t)
             evicted == IF Cardinality(Present(kept)) >= MaxPending
                        THEN {Min(Present(kept))} ELSE {}
  <1>1. NoLink \in LinkRecords /\ NoLink.status # "complete"
    BY DEF NoLink, Link, LinkRecords, Statuses
  <1>2. /\ Link("waiting", t + Lifetime) \in LinkRecords
        /\ Link("waiting", t + Lifetime).status # "complete"
    BY LinkAssumption DEF Link, LinkRecords, Statuses
  <1>3. \A k \in Links : kept[k] = NoLink \/ kept[k] = ls[k]
    BY DEF Purged
  <1>4. Created(ls, l, t) = [k \in Links |-> IF k = l THEN Link("waiting", t + Lifetime)
                                             ELSE IF k \in evicted THEN NoLink ELSE kept[k]]
    BY DEF Created
  <1> HIDE DEF kept, evicted
  <1>5. \A k \in Links : Created(ls, l, t)[k] \in {Link("waiting", t + Lifetime), NoLink, ls[k]}
    BY <1>3, <1>4
  <1> QED BY <1>1, <1>2, <1>4, <1>5

-----------------------------------------------------------------------------
(* The parts of the invariant that a step of one side leaves alone.        *)

LEMMA ConsoleStep ==
  ASSUME IInv, UNCHANGED <<extension, added, now>>, Types',
         \A l \in Links : links'[l].status = "complete" => links[l].status = "complete",
         \A p \in polls' : p \in polls \/ (p.status = "complete" => p.by.link \in added),
         \A l \in Links : told'[l] > 0 => told[l] > 0 \/ l \in added,
         Attentive', ToldOnce'
  PROVE  IInv'
  BY DEF IInv, Truthful, extension

LEMMA ExtensionStep ==
  ASSUME IInv, UNCHANGED <<console, started>>, Types',
         \A l \in Links : links'[l].status = "complete" => l \in added',
         added \subseteq added',
         \A i \in 1..MaxChecks :
           /\ checks'[i].phase \notin {"none", "reading"} => checks'[i].link \in Links
           /\ checks'[i].phase = "complete" => checks'[i].link \in added',
         shown' = "complete" \/ finished' => added' # {}
  PROVE  IInv'
  BY DEF IInv, Truthful, Attentive, ToldOnce, console

-----------------------------------------------------------------------------
(* The console.                                                            *)

LEMMA StartKeeps ==
  ASSUME IInv, NEW l \in Links, StartAutomaticLink(l)
  PROVE  IInv'
  <1> USE DEF StartAutomaticLink, extension
  <1>1. /\ links' \in [Links -> LinkRecords]
        /\ \A k \in Links : links'[k].status = "complete" => links[k].status = "complete"
    <2>1. links \in [Links -> LinkRecords] /\ now \in Nat /\ links' = Created(links, l, now)
      BY DEF IInv, Types
    <2>2. /\ Created(links, l, now) \in [Links -> LinkRecords]
          /\ \A k \in Links :
               Created(links, l, now)[k].status = "complete" => links[k].status = "complete"
      <3> HIDE DEF StartAutomaticLink, extension
      <3> QED BY <2>1, CreatedFacts
    <2> QED BY <2>1, <2>2
  <1>2. panel'.link = l /\ panel' \in Panels /\ l = started + 1 /\ l \in Nat /\ l # 0
    <2>1. l \in Nat /\ l # 0
      BY LinkAssumption
    <2>2. panel' = [link |-> l, status |-> "waiting"] /\ l = started + 1
      OBVIOUS
    <2> QED BY <2>1, <2>2 DEF Panels, Statuses
  <1>3. Types'
    BY <1>1, <1>2 DEF IInv, Types
  <1>4. effect.link \in {0} \cup abandoned /\ ~cancelling
    <2>1. panel.link = 0 /\ 0 \notin abandoned
      BY LinkAssumption DEF IInv, Types
    <2>2. /\ effect.link \in {0, panel.link} \cup abandoned
          /\ cancelling => panel.link \in abandoned
      BY DEF IInv, Attentive
    <2> QED BY <2>1, <2>2
  <1>5. Attentive'
    <2>1. UNCHANGED <<effect, abandoned, cancelling>> /\ started' = l
      OBVIOUS
    <2>2. effect.link \in Nat /\ effect.link <= started /\ started \in Nat
      <3>1. effect.link \in Links \cup {0} /\ started \in Nat
        BY DEF IInv, Types, Panels
      <3>2. effect.link <= started
        BY DEF IInv, Attentive
      <3>3. Links \cup {0} \subseteq Nat
        BY LinkAssumption
      <3> HIDE DEF StartAutomaticLink, extension
      <3> QED BY <3>1, <3>2, <3>3
    <2>3. panel'.link <= started' /\ effect'.link <= started'
      BY <1>2, <2>1, <2>2
    <2>4. effect'.link \in {0, panel'.link} \cup abandoned'
      BY <1>4, <2>1
    <2> QED BY <1>4, <2>1, <2>3, <2>4 DEF Attentive
  <1>6. ToldOnce'
    BY <1>2, <1>4, LinkAssumption DEF IInv, Types, Panels, Attentive, ToldOnce
  <1> QED BY <1>1, <1>3, <1>5, <1>6, ConsoleStep

LEMMA RenderKeeps == ASSUME IInv, Render PROVE IInv'
  <1> USE DEF Render, extension, server
  <1>1. Types'
    BY DEF IInv, Types
  <1>2. Attentive' /\ ToldOnce'
    BY DEF IInv, Attentive, ToldOnce
  <1> QED BY <1>1, <1>2, ConsoleStep

LEMMA PollSendsKeeps == ASSUME IInv, PollSends PROVE IInv'
  <1>1. effect.link \in Links
    BY DEF IInv, Types, Panels, PollSends
  <1>2. /\ ReadAtServer(effect.link) \in Statuses
        /\ ReadAtServer(effect.link) = "complete" => effect.link \in added
    <2>1. links[effect.link] \in LinkRecords /\ now \in Nat
      BY <1>1 DEF IInv, Types
    <2>2. links[effect.link].status = "complete" => effect.link \in added
      BY <1>1 DEF IInv, Truthful
    <2>3. /\ ViewStatus(links[effect.link], now) \in Statuses
          /\ ViewStatus(links[effect.link], now) = "complete" => links[effect.link].status = "complete"
      BY ONLY <1>1, <2>1, LinkOperations
    <2> QED BY <2>2, <2>3 DEF ReadAtServer
  <1> USE DEF PollSends, extension, server
  <1>3. Types'
    BY <1>1, <1>2 DEF IInv, Types
  <1>4. Attentive' /\ ToldOnce'
    BY DEF IInv, Attentive, ToldOnce
  <1> QED BY <1>2, <1>3, <1>4, ConsoleStep

LEMMA PollReturnsKeeps ==
  ASSUME IInv, NEW p \in polls, PollReturns(p)
  PROVE  IInv'
  <1> USE DEF PollReturns, extension, server
  <1>0. p.by \in Panels /\ p.status \in Statuses /\ p.by.link \in Links /\ p.by.link # 0
    BY DEF IInv, Types, Panels
  <1>1. CASE p.by # effect \/ p.status = "absent"
    <2>1. Types'
      BY <1>1 DEF IInv, Types
    <2>2. Attentive' /\ ToldOnce'
      BY <1>1 DEF IInv, Attentive, ToldOnce
    <2> QED BY <1>1, <2>1, <2>2, ConsoleStep
  <1>2. CASE p.by = effect /\ p.status # "absent"
    <2> DEFINE l == p.by.link
    <2>1. /\ panel' = [link |-> l, status |-> p.status]
          /\ reported' = (reported \/ p.status = "complete")
          /\ told' = IF p.status = "complete" /\ ~reported THEN [told EXCEPT ![l] = @ + 1] ELSE told
          /\ UNCHANGED <<effect, cancelling, abandoned, givenUp, started, links, now, added>>
          /\ effect.link = l /\ panel'.link = l
      BY <1>2
    <2>2. reported' \in BOOLEAN
      BY <2>1, Zenon
    <2>3. told' \in [Links -> Nat]
      BY <1>0, <2>1 DEF IInv, Types
    <2>4. Types'
      BY <1>0, <2>1, <2>2, <2>3 DEF IInv, Types, Panels
    <2>5. \A k \in Links : told'[k] > 0 => told[k] > 0 \/ k \in added
      BY <1>0, <2>1 DEF IInv, Types, Truthful
    <2>6. Attentive'
      BY <2>1, LinkAssumption, <1>0 DEF IInv, Attentive
    <2>7. ToldOnce'
      <3> SUFFICES ASSUME NEW k \in Links, told'[k] > 0
                   PROVE  /\ k <= started
                          /\ k \notin abandoned =>
                               told'[k] = 1 /\ (reported' \/ (l # k /\ effect.link # k))
        BY <2>1 DEF ToldOnce
      <3>1. CASE told'[k] = told[k]
        BY <2>1, <3>1 DEF IInv, ToldOnce
      <3>2. CASE k = l /\ p.status = "complete" /\ ~reported
        <4>1. told'[k] = told[k] + 1 /\ reported' /\ k <= started /\ told[k] \in Nat
          BY <1>0, <2>1, <3>2 DEF IInv, Types, Attentive
        <4>2. k \notin abandoned => told[k] = 0
          BY <2>1, <3>2, <4>1 DEF IInv, ToldOnce
        <4> QED BY <4>1, <4>2
      <3> QED BY <1>0, <2>1, <3>1, <3>2 DEF IInv, Types
    <2> QED BY <2>1, <2>4, <2>5, <2>6, <2>7, ConsoleStep
  <1> QED BY <1>1, <1>2

LEMMA CancelFacts ==
  ASSUME IInv, NEW l \in Links, UNCHANGED links \/ CancelAtServer(l)
  PROVE  /\ links' \in [Links -> LinkRecords]
         /\ \A k \in Links : links'[k].status = "complete" => links[k].status = "complete"
  BY LinkOperations DEF IInv, Types, CancelAtServer

LEMMA GivingUpKeeps ==
  ASSUME IInv, CancelClicked \/ CancelReturns \/ ClosePanel
  PROVE  IInv'
  <1>1. CASE CancelClicked
    <2> USE <1>1 DEF CancelClicked, extension
    <2>1. panel.link \in Links
      BY DEF IInv, Types, Panels
    <2>2. /\ links' \in [Links -> LinkRecords]
          /\ \A k \in Links : links'[k].status = "complete" => links[k].status = "complete"
      BY <2>1, CancelFacts
    <2>3. Types'
      BY <2>1, <2>2 DEF IInv, Types
    <2>4. Attentive' /\ ToldOnce'
      BY DEF IInv, Attentive, ToldOnce
    <2> QED BY <2>2, <2>3, <2>4, ConsoleStep
  <1>2. CASE CancelReturns
    <2> USE <1>2 DEF CancelReturns, extension, server, NoPanel
    <2>1. Types'
      BY DEF IInv, Types, Panels, Statuses
    <2>2. effect.link \in {0} \cup abandoned
      BY DEF IInv, Attentive
    <2>3. Attentive' /\ ToldOnce'
      BY <2>2, LinkAssumption DEF IInv, Types, Attentive, ToldOnce
    <2> QED BY <2>1, <2>3, ConsoleStep
  <1>3. CASE ClosePanel
    <2> USE <1>3 DEF ClosePanel, extension, NoPanel
    <2>1. panel.link \in Links
      BY DEF IInv, Types, Panels
    <2>2. /\ links' \in [Links -> LinkRecords]
          /\ \A k \in Links : links'[k].status = "complete" => links[k].status = "complete"
      BY <2>1, CancelFacts
    <2>3. Types'
      BY <2>1, <2>2 DEF IInv, Types, Panels, Statuses
    <2>4. Attentive' /\ ToldOnce'
      BY <2>1, LinkAssumption DEF IInv, Types, Attentive, ToldOnce
    <2> QED BY <2>2, <2>3, <2>4, ConsoleStep
  <1> QED BY <1>1, <1>2, <1>3

-----------------------------------------------------------------------------
(* The extension.                                                          *)

LEMMA ChecksOnly ==
  ASSUME IInv, UNCHANGED <<console, server, now>>,
         candidate' \in Links \cup {0}, pending' \in Links \cup {0},
         NEW i \in 1..MaxChecks, NEW c \in Checks,
         checks' = checks \/ checks' = [checks EXCEPT ![i] = c],
         c.phase \notin {"none", "reading"} => c.link \in Links,
         c.phase = "complete" => c.link \in added,
         shown' = "complete" \/ finished' => added # {}
  PROVE  IInv'
  <1> USE DEF server
  <1>1. checks' \in [1..MaxChecks -> Checks]
    BY DEF IInv, Types
  <1>2. Types'
    BY <1>1 DEF IInv, Types, console
  <1>3. \A j \in 1..MaxChecks :
           /\ checks'[j].phase \notin {"none", "reading"} => checks'[j].link \in Links
           /\ checks'[j].phase = "complete" => checks'[j].link \in added
    BY DEF IInv, Types, Truthful
  <1>4. \A l \in Links : links[l].status = "complete" => l \in added
    BY DEF IInv, Truthful
  <1> QED BY <1>2, <1>3, <1>4, ExtensionStep

LEMMA CheckRecords ==
  /\ NoCheck \in Checks /\ NoCheck.phase = "none"
  /\ \A by \in {"script", "start"} : LET c == [phase |-> "reading", link |-> 0, by |-> by]
                                     IN  c \in Checks /\ c.phase = "reading"
  BY DEF NoCheck, Checks, Phases

LEMMA PopupKeeps ==
  ASSUME IInv,
         \/ PopupOpens \/ CancelPairing \/ RefreshStatus \/ UserLogsIn \/ Tick
         \/ \E l \in Links : UpdateCandidate(l)
  PROVE  IInv'
  <1>1. /\ UNCHANGED <<console, server, checks>>
        /\ candidate' \in Links \cup {0} /\ pending' \in Links \cup {0}
        /\ now' \in Nat
    BY DEF IInv, Types, PopupOpens, UpdateCandidate, CancelPairing, RefreshStatus, UserLogsIn, Tick,
           extension
  <1>2. shown' = "complete" \/ finished' => added # {}
    BY DEF IInv, Truthful, PopupOpens, UpdateCandidate, CancelPairing, RefreshStatus, UserLogsIn,
           Tick, extension
  <1>3. Types'
    BY <1>1 DEF IInv, Types, console, server
  <1>4. /\ \A k \in Links : links'[k].status = "complete" => k \in added'
        /\ \A i \in 1..MaxChecks :
             /\ checks'[i].phase \notin {"none", "reading"} => checks'[i].link \in Links
             /\ checks'[i].phase = "complete" => checks'[i].link \in added'
        /\ added' = added
    BY <1>1 DEF IInv, Truthful, server
  <1> QED BY <1>1, <1>2, <1>3, <1>4, ExtensionStep DEF server

LEMMA EnteringKeeps ==
  ASSUME IInv, NEW i \in 1..MaxChecks, StartPairing(i) \/ ScriptTimer(i) \/ ScriptWakes(i)
  PROVE  IInv'
  <1>1. PICK by \in {"script", "start"} : Enter(i, by)
    BY DEF StartPairing, ScriptTimer, ScriptWakes
  <1> DEFINE c == [phase |-> "reading", link |-> 0, by |-> by]
  <1>2. checks' = checks \/ checks' = [checks EXCEPT ![i] = c]
    BY <1>1 DEF Enter
  <1>3. /\ UNCHANGED <<console, server, now, candidate, finished>>
        /\ pending' \in {pending, candidate} /\ shown' \in {shown, "waiting"}
    BY DEF StartPairing, ScriptTimer, ScriptWakes
  <1>4. c \in Checks /\ c.phase = "reading"
    BY CheckRecords
  <1>5. shown' = "complete" \/ finished' => added # {}
    BY <1>3 DEF IInv, Truthful
  <1>6. candidate' \in Links \cup {0} /\ pending' \in Links \cup {0}
    BY <1>3 DEF IInv, Types
  <1> HIDE DEF c
  <1> QED BY <1>2, <1>3, <1>4, <1>5, <1>6, ChecksOnly

LEMMA CheckReadsKeeps ==
  ASSUME IInv, NEW i \in 1..MaxChecks, CheckReads(i)
  PROVE  IInv'
  <1> USE DEF CheckReads
  <1>1. UNCHANGED <<console, server, now, candidate, finished>>
    OBVIOUS
  <1>2. CASE ~Valid(pending)
    <2>1. checks' = [checks EXCEPT ![i] = NoCheck] /\ pending' = 0 /\ shown' \in {"expired", shown}
      BY <1>2
    <2>2. shown' = "complete" \/ finished' => added # {}
      BY <1>1, <2>1 DEF IInv, Truthful
    <2>3. candidate' \in Links \cup {0} /\ pending' \in Links \cup {0}
      BY <1>1, <2>1 DEF IInv, Types
    <2> QED BY <1>1, <2>1, <2>2, <2>3, CheckRecords, ChecksOnly
  <1>3. CASE Valid(pending)
    <2> DEFINE c == [phase |-> IF loggedIn THEN "sent" ELSE "waiting", link |-> pending,
                     by |-> checks[i].by]
    <2>1. pending \in Links /\ checks[i] \in Checks
      BY <1>3 DEF IInv, Types, Valid
    <2>2. c \in Checks /\ c.link \in Links /\ c.phase \in {"sent", "waiting"}
      BY <2>1 DEF Checks, Phases
    <2>3. checks' = [checks EXCEPT ![i] = c] /\ UNCHANGED <<pending, shown>>
      BY <1>3, <2>1 DEF Checks
    <2>4. shown' = "complete" \/ finished' => added # {}
      BY <1>1, <2>3 DEF IInv, Truthful
    <2>5. candidate' \in Links \cup {0} /\ pending' \in Links \cup {0}
      BY <1>1, <2>3 DEF IInv, Types
    <2> HIDE DEF c
    <2> QED BY <1>1, <2>2, <2>3, <2>4, <2>5, ChecksOnly
  <1> QED BY <1>2, <1>3

(* What a step of the server may do to the links and to one check.         *)
LEMMA ServerStep ==
  ASSUME IInv, UNCHANGED <<console, started, now, candidate, pending, finished, shown>>,
         NEW i \in 1..MaxChecks, NEW c \in Checks, NEW l \in Links, NEW r \in LinkRecords,
         links' = links \/ links' = [links EXCEPT ![l] = r],
         added' = added \/ added' = added \cup {l},
         r.status = "complete" => l \in added',
         checks' = [checks EXCEPT ![i] = c],
         c.phase \notin {"none", "reading"} => c.link \in Links,
         c.phase = "complete" => c.link \in added'
  PROVE  IInv'
  <1>1. links' \in [Links -> LinkRecords] /\ checks' \in [1..MaxChecks -> Checks]
    BY DEF IInv, Types
  <1>2. added \subseteq added' /\ added' \subseteq Links
    BY DEF IInv, Types
  <1>3. Types'
    BY <1>1, <1>2 DEF IInv, Types, console
  <1>4. \A k \in Links : links'[k].status = "complete" => k \in added'
    BY <1>2 DEF IInv, Types, Truthful
  <1>5. \A j \in 1..MaxChecks :
           /\ checks'[j].phase \notin {"none", "reading"} => checks'[j].link \in Links
           /\ checks'[j].phase = "complete" => checks'[j].link \in added'
    BY <1>2 DEF IInv, Types, Truthful
  <1>6. shown' = "complete" \/ finished' => added' # {}
    BY <1>2 DEF IInv, Truthful
  <1> QED BY <1>2, <1>3, <1>4, <1>5, <1>6, ExtensionStep

LEMMA ServerClaimsKeeps ==
  ASSUME IInv, NEW i \in 1..MaxChecks, ServerClaims(i)
  PROVE  IInv'
  <1> DEFINE l == checks[i].link
             kind == ClaimKind(links[l], now)
             phase == CASE kind = "refused" -> "error" [] kind = "ready" -> "validating"
                        [] OTHER -> kind
             c == [phase |-> phase, link |-> l, by |-> checks[i].by]
  <1>1. /\ checks[i].phase = "sent" /\ checks[i] \in Checks
        /\ l \in Links /\ links[l] \in LinkRecords /\ now \in Nat
    BY DEF ServerClaims, IInv, Types, Truthful
  <1>2. /\ kind \in {"refused", "complete", "busy", "ready"}
        /\ kind = "complete" => l \in added
        /\ Claimed(links[l]) \in LinkRecords /\ Claimed(links[l]).status = "validating"
    BY <1>1, LinkOperations DEF IInv, Truthful
  <1>3. /\ links' = links \/ links' = [links EXCEPT ![l] = Claimed(links[l])]
        /\ added' = added
        /\ UNCHANGED <<console, started, now, candidate, pending, finished, shown>>
    BY DEF ServerClaims
  <1>4. checks' = [checks EXCEPT ![i] = c]
    <2>1. checks' = [checks EXCEPT ![i] = [@ EXCEPT !.phase = phase]]
      BY DEF ServerClaims
    <2> HIDE DEF phase
    <2>2. [checks[i] EXCEPT !.phase = phase] = c
      BY <1>1 DEF Checks
    <2> QED BY <2>1, <2>2
  <1>5. c.phase = "complete" => kind = "complete"
    BY <1>2
  <1>6. c \in Checks /\ c.link = l
    <2>1. c.phase \in {"error", "validating", "complete", "busy"}
      BY <1>2
    <2> QED BY <1>1, <2>1 DEF Checks, Phases
  <1> HIDE DEF c, phase, kind, l
  <1> QED BY <1>1, <1>2, <1>3, <1>4, <1>5, <1>6, ServerStep

LEMMA ServerValidatesKeeps ==
  ASSUME IInv, NEW i \in 1..MaxChecks, NEW verdict \in {"added", "duplicate", "unhealthy"},
         ServerValidates(i, verdict)
  PROVE  IInv'
  <1> DEFINE l == checks[i].link
             r == IF verdict = "added" THEN Completed(links[l], l) ELSE Failed(links[l])
             c == IF checks[i].phase = "lost" THEN NoCheck
                  ELSE [phase |-> Heard(verdict), link |-> l, by |-> checks[i].by]
  <1>1. /\ checks[i].phase \in {"validating", "lost"} /\ checks[i] \in Checks
        /\ l \in Links /\ links[l] \in LinkRecords
    BY DEF ServerValidates, IInv, Types, Truthful
  <1>2. r \in LinkRecords /\ (verdict # "added" /\ r.status = "complete" => l \in added)
    BY <1>1, LinkOperations DEF IInv, Types, Truthful
  <1>3. /\ links' = [links EXCEPT ![l] = r]
        /\ added' = IF verdict = "added" THEN added \cup {l} ELSE added
        /\ UNCHANGED <<console, started, now, candidate, pending, finished, shown>>
    BY DEF ServerValidates
  <1>4. checks' = [checks EXCEPT ![i] = c]
    <2>1. checks' = [checks EXCEPT ![i] = IF @.phase = "lost" THEN NoCheck
                                         ELSE [@ EXCEPT !.phase = Heard(verdict)]]
      BY DEF ServerValidates
    <2>2. [checks[i] EXCEPT !.phase = Heard(verdict)]
            = [phase |-> Heard(verdict), link |-> l, by |-> checks[i].by]
      BY <1>1 DEF Checks
    <2> QED BY <2>1, <2>2
  <1>5. /\ Heard(verdict) \in {"complete", "busy", "error"}
        /\ Heard(verdict) = "complete" => verdict = "added"
    BY DEF Heard
  <1>6. /\ c \in Checks
        /\ c.phase \notin {"none", "reading"} => c.link = l
        /\ c.phase = "complete" => c.link = l /\ verdict = "added"
    BY <1>1, <1>5, CheckRecords DEF Checks, Phases
  <1>7. r.status = "complete" => l \in added'
    BY <1>2, <1>3
  <1>8. c.phase = "complete" => c.link \in added'
    BY <1>3, <1>6
  <1>9. added' = added \/ added' = added \cup {l}
    BY <1>3
  <1> HIDE DEF c, r, l
  <1> QED BY <1>1, <1>2, <1>3, <1>4, <1>6, <1>7, <1>8, <1>9, ServerStep

LEMMA ConcludeKeeps ==
  ASSUME IInv, NEW i \in 1..MaxChecks, CheckReturns(i) \/ RouteRefuses(i) \/ ConnectionLost(i)
  PROVE  IInv'
  <1>1. CASE CheckReturns(i)
    <2> USE <1>1 DEF CheckReturns, Conclude
    <2>1. /\ UNCHANGED <<console, server, now, candidate, finished>>
          /\ checks' = [checks EXCEPT ![i] = NoCheck]
          /\ pending' \in {0, pending}
      OBVIOUS
    <2>2. shown' = shown \/ shown' = checks[i].phase
      OBVIOUS
    <2>3. checks[i].phase = "complete" => added # {}
      BY DEF IInv, Truthful
    <2>4. shown' = "complete" \/ finished' => added # {}
      BY <2>1, <2>2, <2>3 DEF IInv, Truthful
    <2>5. candidate' \in Links \cup {0} /\ pending' \in Links \cup {0}
      BY <2>1 DEF IInv, Types
    <2> QED BY <2>1, <2>4, <2>5, CheckRecords, ChecksOnly
  <1>2. ASSUME ConnectionLost(i) PROVE IInv'
    <2> USE <1>2 DEF ConnectionLost, Conclude
    <2> DEFINE c == IF checks[i].phase = "sent" THEN NoCheck
                    ELSE [phase |-> "lost", link |-> checks[i].link, by |-> "script"]
    <2>1. /\ UNCHANGED <<console, server, now, candidate, finished>>
          /\ checks' = [checks EXCEPT ![i] = c]
          /\ pending' \in {0, pending} /\ shown' = "error"
      BY DEF IInv, Types
    <2>2. checks[i].link \in Links
      BY DEF IInv, Truthful
    <2>3. c \in Checks /\ c.phase \in {"none", "lost"} /\ (c.phase = "lost" => c.link \in Links)
      BY <2>2, CheckRecords DEF Checks, Phases
    <2>4. shown' = "complete" \/ finished' => added # {}
      BY <2>1 DEF IInv, Truthful
    <2>5. candidate' \in Links \cup {0} /\ pending' \in Links \cup {0}
      BY <2>1 DEF IInv, Types
    <2> HIDE DEF c
    <2> QED BY <2>1, <2>3, <2>4, <2>5, ChecksOnly
  <1>3. RouteRefuses(i) => ConnectionLost(i)
    BY DEF RouteRefuses, ConnectionLost
  <1> QED BY <1>1, <1>2, <1>3

-----------------------------------------------------------------------------
LEMMA PollFailsKeeps == ASSUME IInv, NEW p \in polls, PollFails(p) PROVE IInv'
  <1> USE DEF PollFails, extension, server
  <1>1. Types'
    BY DEF IInv, Types
  <1>2. Attentive' /\ ToldOnce'
    BY DEF IInv, Attentive, ToldOnce
  <1> QED BY <1>1, <1>2, ConsoleStep

LEMMA StutterKeeps == ASSUME IInv, UNCHANGED vars PROVE IInv'
  <1> USE DEF vars, server, console, extension
  <1>1. Types' /\ Truthful'
    BY DEF IInv, Types, Truthful
  <1>2. Attentive' /\ ToldOnce'
    BY DEF IInv, Attentive, ToldOnce
  <1> QED BY <1>1, <1>2 DEF IInv

(* The inductive invariant behind the result below: what the console was   *)
(* told, what it polls for and what is under way agree with what the       *)
(* server did (App.tsx:1708-1775, service-worker.js:76-105).               *)
THEOREM PairingInvariant == Spec => []IInv
  <1>1. IInv /\ [Next]_vars => IInv'
    <2> SUFFICES ASSUME IInv, [Next]_vars PROVE IInv'
      OBVIOUS
    <2>1. CASE \E l \in Links : StartAutomaticLink(l)
      BY <2>1, StartKeeps
    <2>2. CASE Render \/ PollSends
      BY <2>2, RenderKeeps, PollSendsKeeps
    <2>3. CASE \E p \in polls : PollReturns(p) \/ PollFails(p)
      BY <2>3, PollReturnsKeeps, PollFailsKeeps
    <2>4. CASE CancelClicked \/ CancelReturns \/ ClosePanel
      BY <2>4, GivingUpKeeps
    <2>5. ASSUME NEW i \in 1..MaxChecks, StartPairing(i) \/ ScriptTimer(i) \/ ScriptWakes(i)
          PROVE  IInv'
      BY <2>5, EnteringKeeps
    <2>6. ASSUME NEW i \in 1..MaxChecks, RouteRefuses(i) \/ ConnectionLost(i) \/ CheckSteps(i)
          PROVE  IInv'
      BY <2>6, ConcludeKeeps, CheckReadsKeeps, ServerClaimsKeeps, ServerValidatesKeeps
      DEF CheckSteps
    <2>7. CASE \E l \in Links : UpdateCandidate(l)
      BY <2>7, PopupKeeps
    <2>8. CASE PopupOpens \/ CancelPairing \/ RefreshStatus \/ UserLogsIn \/ Tick
      BY <2>8, PopupKeeps
    <2>9. CASE UNCHANGED vars
      BY <2>9, StutterKeeps
    <2> QED BY <2>1, <2>2, <2>3, <2>4, <2>5, <2>6, <2>7, <2>8, <2>9 DEF Next
  <1> QED BY PairingInit, <1>1, PTL DEF Spec

(* A report sets the ref and only giving up clears it, so the reports do   *)
(* not outnumber the times the user gave up by more than one, whatever the *)
(* panel shows meanwhile.                                                  *)
Counted ==
  /\ givenUp \in Nat
  /\ \A l \in Links :
       told[l] + (IF cancelling THEN 1 ELSE 0) <= givenUp + (IF reported THEN 1 ELSE 0)

LEMMA CountedKept ==
  ASSUME IInv, Counted, [Next]_vars
  PROVE  Counted'
  <1>0. told \in [Links -> Nat] /\ reported \in BOOLEAN /\ cancelling \in BOOLEAN
    BY DEF IInv, Types
  <1>1. CASE UNCHANGED <<told, givenUp, reported, cancelling>>
    BY <1>1 DEF Counted
  <1>2. ASSUME NEW p \in polls, PollReturns(p)
        PROVE  Counted'
    <2> DEFINE l == p.by.link
    <2>1. UNCHANGED <<cancelling, givenUp>>
      BY <1>2 DEF PollReturns
    <2>2. CASE UNCHANGED <<reported, told>>
      BY <1>1, <2>1, <2>2
    <2>3. CASE /\ ~reported /\ reported'
               /\ told' = [told EXCEPT ![l] = @ + 1]
      <3> HIDE DEF l
      <3>1. \A k \in Links : told'[k] <= told[k] + 1 /\ told'[k] \in Nat /\ told[k] \in Nat
        BY <1>0, <2>3
      <3> QED BY <1>0, <2>1, <2>3, <3>1 DEF Counted
    <2>4. CASE told' = told /\ (reported => reported') /\ reported' \in BOOLEAN
      BY <1>0, <2>1, <2>4 DEF Counted
    <2> QED BY <1>0, <1>2, <2>2, <2>3, <2>4 DEF PollReturns
  <1>3. CASE CancelClicked
    BY <1>0, <1>3 DEF CancelClicked, Counted
  <1>4. CASE CancelReturns
    BY <1>0, <1>4 DEF CancelReturns, Counted
  <1>5. CASE ClosePanel
    BY <1>0, <1>5 DEF ClosePanel, Counted
  <1>6. \/ UNCHANGED <<told, givenUp, reported, cancelling>>
        \/ \E p \in polls : PollReturns(p)
        \/ CancelClicked \/ CancelReturns \/ ClosePanel
    BY DEF Next, vars, console, StartAutomaticLink, Render, PollSends, PollFails, StartPairing,
       ScriptTimer, ScriptWakes, RouteRefuses, ConnectionLost, CheckSteps, CheckReads, ServerClaims,
       CheckReturns, ServerValidates, UpdateCandidate, PopupOpens, CancelPairing, RefreshStatus,
       UserLogsIn, Tick
  <1> QED BY <1>1, <1>2, <1>3, <1>4, <1>5, <1>6

(* A link the user did not give up is told of at most once, any link at    *)
(* most once more than the user gave up; the console is told only of       *)
(* accounts that were added, the popup of a link only when one was added   *)
(* (App.tsx:1713-1746, 1841-1857, service-worker.js:76-105).               *)
THEOREM PairingToldOnceAndTruly == Spec => []ToldOnceAndTruly
  <1>1. IInv /\ Counted => ToldOnceAndTruly
    <2> SUFFICES ASSUME IInv, Counted PROVE ToldOnceAndTruly
      OBVIOUS
    <2>1. \A l \in Links : told[l] \in Nat
      BY DEF IInv, Types
    <2>2. \A l \in Links : told[l] <= 1 \/ l \in abandoned
      BY <2>1 DEF IInv, ToldOnce
    <2>3. \A l \in Links : told[l] <= 1 + givenUp
      BY <2>1 DEF Counted
    <2> QED BY <2>2, <2>3 DEF IInv, Truthful, ToldOnceAndTruly
  <1>2. Init => Counted
    BY DEF Init, Counted
  <1>3. IInv /\ Counted /\ [Next]_vars => Counted'
    BY CountedKept
  <1> QED BY <1>1, <1>2, <1>3, PairingInvariant, PTL DEF Spec
=============================================================================
