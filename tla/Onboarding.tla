----------------------------- MODULE Onboarding -----------------------------
(***************************************************************************)
(* How accounts come into the gateway: the admin routes that link, create, *)
(* validate, patch, import, test and delete accounts                       *)
(* (src/server/routes/admin.ts), the link sessions, and the registry of    *)
(* health snapshots whose identity fingerprints tell duplicates apart.     *)
(*                                                                         *)
(* An action is the code of a handler from one await to the next; the      *)
(* awaits are the health checks, of the new token first and then of every  *)
(* account whose fingerprint the registry does not know.  The monitor and  *)
(* failing traffic write the same registry.                                *)
(***************************************************************************)
EXTENDS LinkSession, Sequences

CONSTANTS
  Identities,  \* DeepSeek identities
  NoIdentity,  \* none, or not known
  FirstIdentities, \* bound: those of the accounts at the start
  BundleSize,  \* bound: accounts in an exported bundle
  MaxCalls,    \* bound: calls of the admin routes in flight
  MaxTime,     \* bound: the clock
  MaxEvents    \* bound: accounts that calls may add, checks, writes, restarts

ASSUME OnboardingAssumption ==
  /\ NoIdentity \notin Identities
  /\ FirstIdentities \subseteq Identities /\ IsFiniteSet(FirstIdentities)
  /\ BundleSize \in Nat \ {0}
  /\ MaxCalls \in Nat /\ MaxTime \in Nat /\ MaxEvents \in Nat

FirstCount == Cardinality(FirstIdentities)

(* Account ids in the order of their creation, the order of the store.     *)
Accounts == 1..(FirstCount + MaxEvents)

Prints == Identities \cup {NoIdentity}

VARIABLES
  now,
  links,
  started,  \* link sessions ever created
  row,      \* the identity of each account's credentials, if it has a row
  print,    \* the fingerprint in its snapshot: it outlives the row
  made,     \* accounts added so far
  calls,    \* calls in flight
  reading,  \* the identity of the credentials a monitor check is using
  madeBy,   \* auxiliary: the link that added an account, 0 for none
  excused,  \* auxiliary: accounts added as duplicates for a good reason
  events

vars == <<now, links, started, row, print, made, calls, reading, madeBy, excused,
          events>>

(* others are the accounts still to compare with, as they were listed; the *)
(* check of the oldest is awaited.  sure is auxiliary: the accounts listed *)
(* that kept their identity and were never mislabelled or left unanswered. *)
NoCall == [kind |-> "none", link |-> 0, target |-> 0, identity |-> NoIdentity,
           todo |-> <<>>, others |-> {}, sure |-> {}]

Rows == {a \in Accounts : row[a] # NoIdentity}

-----------------------------------------------------------------------------
(* The end of a call, or of one entry of an import.                        *)

(* Auxiliary: what the calls may still be sure of after rows and prints    *)
(* change.                                                                 *)
Watched(cs, rows, prints) ==
  [i \in 1..MaxCalls |->
    [cs[i] EXCEPT !.sure = {a \in @ : rows[a] = row[a] /\ prints[a] \in {NoIdentity, rows[a]}}]]

(* The next entry of an import has its token checked; a call ends.         *)
NextEntry(c) ==
  IF c.kind # "import" \/ c.todo = <<>> THEN NoCall
  ELSE [NoCall EXCEPT !.kind = "import", !.identity = Head(c.todo), !.todo = Tail(c.todo)]

Moved(i, c, rows, prints) == calls' = Watched([calls EXCEPT ![i] = c], rows, prints)

(* Auxiliary: a new duplicate is excused when the call could not know.     *)
Excused(a, c, identity) ==
  IF \E b \in Rows \ (c.sure \cup {a}) : row[b] = identity THEN excused \cup {a} ELSE excused \ {a}

(* addAccount and the snapshot of the check, with the fingerprint it saw,  *)
(* for all but a patch.                                                    *)
AddAccount(i, c, prints, seen) ==
  LET a    == made + 1
      rows == [row EXCEPT ![a] = c.identity]
      ps   == [prints EXCEPT ![a] = seen]
  IN  /\ made' = a /\ row' = rows /\ print' = ps
      /\ links' = IF c.kind = "link" THEN [links EXCEPT ![c.link] = Completed(@, a)] ELSE links
      /\ madeBy' = IF c.kind = "link" THEN [madeBy EXCEPT ![a] = c.link] ELSE madeBy
      /\ excused' = Excused(a, c, c.identity)
      /\ Moved(i, NextEntry(c), rows, ps)

(* updateAccount finds no row after a delete; the snapshot is kept anyway. *)
PatchAccount(i, c, prints, seen) ==
  LET a    == c.target
      rows == IF row[a] = NoIdentity THEN row ELSE [row EXCEPT ![a] = c.identity]
      ps   == [prints EXCEPT ![a] = seen]
  IN  /\ row' = rows /\ print' = ps
      /\ excused' = Excused(a, c, c.identity)
      /\ Moved(i, NoCall, rows, ps)
      /\ UNCHANGED <<made, links, madeBy>>

Adopt(i, c, prints, seen) ==
  CASE c.kind = "patch"    -> PatchAccount(i, c, prints, seen)
    [] c.kind = "validate" -> /\ print' = prints
                              /\ Moved(i, NoCall, row, prints)
                              /\ UNCHANGED <<links, row, made, madeBy, excused>>
    [] OTHER               -> AddAccount(i, c, prints, seen)

(* Mutant: the rejection is not told to the link.                          *)
RejectUntold(i, c, prints) ==
  /\ print' = prints
  /\ Moved(i, NextEntry(c), row, prints)
  /\ UNCHANGED <<links, row, made, madeBy, excused>>

(* An unhealthy token or a duplicate: a link waits for another capture.    *)
Reject(i, c, prints) ==
  /\ print' = prints
  /\ links' = IF c.kind = "link" THEN [links EXCEPT ![c.link] = Failed(@)] ELSE links
  /\ Moved(i, NextEntry(c), row, prints)
  /\ UNCHANGED <<row, made, madeBy, excused>>

-----------------------------------------------------------------------------
(* Mutant: only fingerprints known already are compared.                   *)
StopsAtKnown(rest, prints, identity) ==
  {o \in rest : prints[o.account] = identity}

(* The one listed first: the store lists accounts as they were created.    *)
Oldest(listed) == CHOOSE o \in listed : \A p \in listed : o.account <= p.account

(* findDuplicateProviderAccount: over the accounts listed, up to the first *)
(* that is a duplicate or whose fingerprint must be asked for.             *)
Stops(rest, prints, identity) ==
  {o \in rest : prints[o.account] \in {NoIdentity, identity}}

Compare(i, c, rest, prints) ==
  LET stops == Stops(rest, prints, c.identity)
      next  == Oldest(stops).account
  IN  IF stops = {} THEN Adopt(i, c, prints, c.identity)
      ELSE IF prints[next] = c.identity THEN Reject(i, c, prints)
      ELSE /\ print' = prints
           /\ Moved(i, [c EXCEPT !.others = {o \in rest : o.account >= next}], row, prints)
           /\ UNCHANGED <<links, row, made, madeBy, excused>>

Listed(c) == {[account |-> a, identity |-> row[a]] : a \in Rows \ {c.target}}

(* The health of the new token.  A provider that answers without an        *)
(* identity is believed: there is nothing to compare.                      *)
TokenChecked(i, answer) ==
  LET c == calls[i]
  IN  /\ c.kind # "none" /\ c.others = {}
      /\ CASE answer = "unhealthy" -> Reject(i, c, print)
           [] answer = "anonymous" -> Adopt(i, c, print, NoIdentity)
           [] answer = "valid"     ->
                Compare(i, [c EXCEPT !.sure = {a \in Rows : print[a] \in {NoIdentity, row[a]}}],
                        Listed(c), print)
      /\ UNCHANGED <<now, started, reading, events>>

(* The health of an account listed earlier, with the credentials it had    *)
(* then: recorded, also for an account deleted meanwhile.                  *)
OtherChecked(i, known) ==
  LET other  == Oldest(calls[i].others)
      seen   == IF known THEN other.identity ELSE NoIdentity
      prints == [print EXCEPT ![other.account] = seen]
      c      == [calls[i] EXCEPT !.others = {},
                                 !.sure = IF known THEN @ ELSE @ \ {other.account}]
  IN  /\ calls[i].others # {}
      /\ IF seen = c.identity THEN Reject(i, c, prints)
         ELSE Compare(i, c, calls[i].others \ {other}, prints)
      /\ UNCHANGED <<now, started, reading, events>>

Answered(i) ==
  \/ \E answer \in {"valid", "anonymous", "unhealthy"} : TokenChecked(i, answer)
  \/ \E known \in BOOLEAN : OtherChecked(i, known)

-----------------------------------------------------------------------------
(* Calls arrive.  Each account they may add counts as an event.            *)
Act(n) == events + n <= MaxEvents /\ events' = events + n

Begin(i, c) ==
  /\ calls[i] = NoCall /\ \A j \in 1..(i - 1) : calls[j] # NoCall
  /\ calls' = [calls EXCEPT ![i] = c]
  /\ UNCHANGED <<now, started, row, print, made, reading, madeBy, excused>>

(* completeDeepSeekLink: a connector sends the token it captured.  The     *)
(* other answers of claim change nothing.                                  *)
Capture(i, l, identity) ==
  /\ Act(1)
  /\ ClaimKind(links[l], now) = "ready"
  /\ links' = [links EXCEPT ![l] = Claimed(@)]
  /\ Begin(i, [NoCall EXCEPT !.kind = "link", !.link = l, !.identity = identity])

CreateAccount(i, identity) ==
  /\ Act(1)
  /\ Begin(i, [NoCall EXCEPT !.kind = "create", !.identity = identity])
  /\ UNCHANGED links

ValidateCredentials(i, identity) ==
  /\ Act(1)
  /\ Begin(i, [NoCall EXCEPT !.kind = "validate", !.identity = identity])
  /\ UNCHANGED links

PatchCredentials(i, a, identity) ==
  /\ Act(1) /\ a \in Rows
  /\ Begin(i, [NoCall EXCEPT !.kind = "patch", !.target = a, !.identity = identity])
  /\ UNCHANGED links

ImportAccounts(i, bundle) ==
  /\ Act(Len(bundle))
  /\ Begin(i, [NoCall EXCEPT !.kind = "import", !.identity = Head(bundle), !.todo = Tail(bundle)])
  /\ UNCHANGED links

-----------------------------------------------------------------------------
(* Handlers without an await, the other writers of the registry, time.     *)

StartLink(l) ==
  /\ l = started + 1
  /\ started' = l
  /\ links' = Created(links, l, now)
  /\ UNCHANGED <<now, row, print, made, calls, reading, madeBy, excused, events>>

CancelLink(l) ==
  /\ Cancellable(links[l]) /\ links[l].status # "cancelled"
  /\ links' = [links EXCEPT ![l] = Cancelled(@)]
  /\ UNCHANGED <<now, started, row, print, made, calls, reading, madeBy, excused, events>>

(* A row or a snapshot changes at once.                                    *)
Write(rows, prints) ==
  /\ row' = rows /\ print' = prints
  /\ calls' = Watched(calls, rows, prints)
  /\ UNCHANGED <<now, links, started, made, madeBy, excused>>

DeleteAccount(a) ==
  /\ Act(1) /\ a \in Rows
  /\ Write([row EXCEPT ![a] = NoIdentity], [print EXCEPT ![a] = NoIdentity])
  /\ UNCHANGED reading

(* The monitor or POST accounts/:id/test reads an account and calls the    *)
(* provider; the answer may come without an identity.                      *)
CheckStarts(a) ==
  /\ Act(1) /\ a \in Rows /\ reading[a] = NoIdentity
  /\ reading' = [reading EXCEPT ![a] = row[a]]
  /\ UNCHANGED <<now, links, started, row, print, made, calls, madeBy, excused>>

CheckEnds(a, known) ==
  /\ reading[a] # NoIdentity
  /\ reading' = [reading EXCEPT ![a] = NoIdentity]
  /\ Write(row, [print EXCEPT ![a] = IF known THEN reading[a] ELSE NoIdentity])
  /\ UNCHANGED events

(* onAccountSuspended: a snapshot without a fingerprint.                   *)
TrafficFindsHold(a) ==
  /\ Act(1) /\ a \in Rows /\ print[a] # NoIdentity
  /\ Write(row, [print EXCEPT ![a] = NoIdentity])
  /\ UNCHANGED reading

(* Only the rows survive a restart.                                        *)
Restart ==
  /\ Act(1)
  /\ links' = [l \in Links |-> NoLink]
  /\ print' = [a \in Accounts |-> NoIdentity]
  /\ reading' = [a \in Accounts |-> NoIdentity]
  /\ calls' = [i \in 1..MaxCalls |-> NoCall]
  /\ UNCHANGED <<now, started, row, made, madeBy, excused>>

Tick ==
  /\ now < MaxTime
  /\ now' = now + 1
  /\ UNCHANGED <<links, started, row, print, made, calls, reading, madeBy, excused, events>>

-----------------------------------------------------------------------------
Init ==
  /\ now = 0 /\ events = 0 /\ made = FirstCount /\ started = 0
  /\ links = [l \in Links |-> NoLink]
  /\ row \in [Accounts -> Prints]
  /\ {row[a] : a \in 1..FirstCount} = FirstIdentities
  /\ \A a \in Accounts : row[a] # NoIdentity <=> a <= FirstCount
  /\ print = [a \in Accounts |-> NoIdentity]
  /\ reading = [a \in Accounts |-> NoIdentity]
  /\ calls = [i \in 1..MaxCalls |-> NoCall]
  /\ madeBy = [a \in Accounts |-> 0]
  /\ excused = {}

Next ==
  \/ \E i \in 1..MaxCalls :
       \/ Answered(i)
       \/ \E identity \in Identities :
            \/ \E l \in Links : Capture(i, l, identity)
            \/ CreateAccount(i, identity) \/ ValidateCredentials(i, identity)
            \/ \E a \in Accounts : PatchCredentials(i, a, identity)
       \/ \E bundle \in [1..BundleSize -> Identities] : ImportAccounts(i, bundle)
  \/ \E l \in Links : StartLink(l) \/ CancelLink(l)
  \/ \E a \in Accounts :
       \/ DeleteAccount(a) \/ CheckStarts(a) \/ TrafficFindsHold(a)
       \/ \E known \in BOOLEAN : CheckEnds(a, known)
  \/ Restart
  \/ Tick

Spec == Init /\ [][Next]_vars

(* A health check ends within its ten seconds.                             *)
FairSpec == Spec /\ \A i \in 1..MaxCalls : WF_vars(Answered(i))

-----------------------------------------------------------------------------
(* Two accounts of one DeepSeek identity exist only if the call that added *)
(* the second could not know: the provider gave no identity, a snapshot    *)
(* was that of older credentials, or the first came in while it ran.  A    *)
(* registry emptied by a restart is no excuse (admin.ts:239-256).          *)
IdentitiesUnique ==
  \A a, b \in Rows : a # b /\ row[a] = row[b] => a \in excused \/ b \in excused

(* A link adds one account at most, however often and from wherever its    *)
(* tokens are sent, and a completed link names that account                *)
(* (deepseek-link-session.ts:104-158, admin.ts:510-610).                   *)
OneAccountPerLink ==
  /\ \A a, b \in Accounts : madeBy[a] = madeBy[b] /\ madeBy[a] # 0 => a = b
  /\ \A l \in Links : links[l].status = "complete" => madeBy[links[l].account] = l

(* No exit of a completion leaves its link validating, which would refuse  *)
(* every later capture (admin.ts:521-602).                                 *)
LinkSettles ==
  \A l \in Links : links[l].status = "validating" ~> links[l].status # "validating"
=============================================================================
