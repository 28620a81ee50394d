------------------------------- MODULE Router -------------------------------
(***************************************************************************)
(* The ProviderRoutingEngine of src/server/gateway/router.ts: it routes    *)
(* each chat request to an account, through the account's ConcurrencyGate, *)
(* its circuit breaker and its usage window, fails over to other accounts, *)
(* and learns from the outcome.  The store's account rows it shares with   *)
(* the health checks and the admin routes, which write them too.           *)
(*                                                                         *)
(* One action is the code from one await to the next.  Time is left out:   *)
(* a cooldown or a usage event may end at any moment.  The order in which  *)
(* candidates are tried (round-robin, least-used, oldest) is left open.    *)
(* Accounts have distinct provider identities.                             *)
(***************************************************************************)
EXTENDS Integers, Sequences, SequencesExt, FiniteSets, FiniteSetsExt

CONSTANTS
  Accounts,            \* the DeepSeek accounts in the store at the start
  NoAccount,           \* no account
  Requests,            \* callers of forward(), one request after another
  AccountConcurrency,  \* runtimeConfig.accountConcurrency
  QueueMaxDepth,       \* runtimeConfig.queueMaxDepth
  AccountReserve,      \* runtimeConfig.backgroundAccountReserve
  UsageReserve,        \* runtimeConfig.backgroundUsageReserve
  DailyLimit,          \* account.dailyLimit of every account, 0 for none
  Kinds,               \* the failures the provider answers with
  MaxInterventions     \* bound: health checks and admin writes

AllKinds ==
  {"invalid_media_input", "provider_expert_busy", "provider_rate_limited",
   "provider_account_suspended", "provider_authentication_failed",
   "provider_unavailable", "provider_rejected_request"}

ASSUME RouterAssumption ==
  /\ NoAccount \notin Accounts
  /\ AccountConcurrency \in Nat \ {0} /\ QueueMaxDepth \in Nat
  /\ AccountReserve \in Nat /\ UsageReserve \in Nat
  /\ DailyLimit \in Nat /\ MaxInterventions \in Nat
  /\ Kinds \subseteq AllKinds

VARIABLES
  status,     \* account.status in the store
  used,       \* events of each account in its usage window
  failures,   \* circuit.failures of each account, 3 for 3 or more
  open,       \* the accounts with circuit.openedUntil in the future
  gate,       \* the account gates: permit holders and waiting requests
  pc,         \* the await each request is at
  at,         \* the account a request waits for or has a permit of
  attempted,  \* attemptedAccounts of each request
  background, \* the requests with background priority
  streaming,  \* the requests with stream set
  aborted,    \* the requests whose signal is aborted
  checks,     \* the health checks under way
  interventions  \* bound: counts health checks and admin writes

requestVars == <<pc, at, attempted, background, streaming, aborted>>
accountVars == <<status, failures, open>>
vars == <<status, used, failures, open, gate, pc, at, attempted, background,
          streaming, aborted, checks, interventions>>

Status == {"active", "inactive", "error", "deleted"}

(* "arrived": executeChat awaits the gateway's own gate.                   *)
(* "granted": the gate resolved its promise, forward() has yet to run.     *)
(* "serving": forward() returned a RoutedResult that is not yet released.  *)
Phase == {"idle", "arrived", "waiting", "granted", "forwarding", "priming", "serving"}

Check == [account : Accounts, by : {"monitor", "admin"}, saw : Status]

TypeOK ==
  /\ status \in [Accounts -> Status]
  /\ used \in [Accounts -> 0..DailyLimit]
  /\ failures \in [Accounts -> 0..3]
  /\ open \subseteq Accounts
  /\ \A a \in Accounts :
       /\ gate[a].holders \subseteq Requests
       /\ Cardinality(gate[a].holders) <= AccountConcurrency
       /\ gate[a].queue \in Seq(Requests)
       /\ Len(gate[a].queue) <= QueueMaxDepth
  /\ pc \in [Requests -> Phase]
  /\ at \in [Requests -> Accounts \cup {NoAccount}]
  /\ attempted \in [Requests -> SUBSET Accounts]
  /\ background \subseteq Requests
  /\ streaming \subseteq Requests
  /\ aborted \subseteq Requests
  /\ checks \subseteq Check
  /\ interventions \in 0..MaxInterventions

Init ==
  /\ status = [a \in Accounts |-> "active"]
  /\ used = [a \in Accounts |-> 0]
  /\ failures = [a \in Accounts |-> 0]
  /\ open = {}
  /\ gate = [a \in Accounts |-> [holders |-> {}, queue |-> <<>>]]
  /\ pc = [r \in Requests |-> "idle"]
  /\ at = [r \in Requests |-> NoAccount]
  /\ attempted = [r \in Requests |-> {}]
  /\ background = {} /\ streaming = {} /\ aborted = {}
  /\ checks = {} /\ interventions = 0

-----------------------------------------------------------------------------
(* Usage window and eligibility.                                           *)

UnderLimit(a) == DailyLimit = 0 \/ used[a] < DailyLimit

(* getCandidates, for the statuses st and the open circuits op.            *)
Eligible(a, st, op) == st[a] = "active" /\ UnderLimit(a) /\ a \notin op

(* consumeUsageWindow; an account without a limit is not counted.          *)
Consume(a) == used' = [used EXCEPT ![a] = IF DailyLimit = 0 THEN @ ELSE @ + 1]

-----------------------------------------------------------------------------
(* The account gates (ConcurrencyGate).  g is a gate, gs are all of them.  *)

FreePermit(g) == Cardinality(g.holders) < AccountConcurrency /\ g.queue = <<>>

(* The waiter a released permit goes to: the oldest foreground one, or the *)
(* oldest.                                                                 *)
FirstWaiter(q) ==
  LET foreground == {i \in 1..Len(q) : q[i] \notin background}
  IN  IF foreground = {} THEN 1 ELSE Min(foreground)

(* Account a's gate when r returns its permit.                             *)
Returned(r, a) ==
  LET g == gate[a]
      i == FirstWaiter(g.queue)
  IN  IF g.queue = <<>> THEN [g EXCEPT !.holders = @ \ {r}]
      ELSE [holders |-> (g.holders \ {r}) \cup {g.queue[i]},
            queue   |-> RemoveAt(g.queue, i)]

GatesNotHandedOn(r) == [gate EXCEPT ![at[r]].holders = @ \ {r}]

GatesWithout(r) == [gate EXCEPT ![at[r]] = Returned(r, at[r])]

(* The phases when r returns its permit: its successor's promise resolves. *)
PhasesWithout(r) ==
  [q \in Requests |->
     IF pc[q] = "waiting" /\ q \in Returned(r, at[r]).holders THEN "granted" ELSE pc[q]]

Place(q, r) == CHOOSE i \in 1..Len(q) : q[i] = r

(* r stops waiting.                                                        *)
GatesLeft(r) == [gate EXCEPT ![at[r]].queue = RemoveAt(@, Place(@, r))]

-----------------------------------------------------------------------------
(* forward(), with gates gs, phases ps and attemptedAccounts tried.        *)

(* The caller has its answer, or has released it.                          *)
Done(r, gs, ps) ==
  /\ gate' = gs
  /\ pc' = [ps EXCEPT ![r] = "idle"]
  /\ at' = [at EXCEPT ![r] = NoAccount]
  /\ attempted' = [attempted EXCEPT ![r] = {}]
  /\ background' = background \ {r}
  /\ streaming' = streaming \ {r}
  /\ aborted' = aborted \ {r}
  /\ UNCHANGED used

DispatchForgettingAttempts(r, a, gs, ps, tried) ==
  /\ gate' = [gs EXCEPT ![a].holders = @ \cup {r}]
  /\ pc' = [ps EXCEPT ![r] = "forwarding"]
  /\ at' = [at EXCEPT ![r] = a]
  /\ attempted' = [attempted EXCEPT ![r] = {a}]
  /\ Consume(a)
  /\ UNCHANGED <<background, streaming, aborted>>

(* A permit of a: consume the window and call the provider.                *)
Dispatch(r, a, gs, ps, tried) ==
  /\ gate' = [gs EXCEPT ![a].holders = @ \cup {r}]
  /\ pc' = [ps EXCEPT ![r] = "forwarding"]
  /\ at' = [at EXCEPT ![r] = a]
  /\ attempted' = [attempted EXCEPT ![r] = tried \cup {a}]
  /\ Consume(a)
  /\ UNCHANGED <<background, streaming, aborted>>

(* gate.acquire() where every candidate is busy: the shortest queue, or    *)
(* undefined when the queue is full or the request is cancelled.           *)
Queue(r, cands, gs, ps, tried) ==
  \E a \in cands :
    /\ \A b \in cands : Len(gs[a].queue) <= Len(gs[b].queue)
    /\ \/ /\ r \in aborted \/ Len(gs[a].queue) >= QueueMaxDepth
          /\ Done(r, gs, ps)
       \/ /\ r \notin aborted /\ Len(gs[a].queue) < QueueMaxDepth
          /\ gate' = [gs EXCEPT ![a].queue = Append(@, r)]
          /\ pc' = [ps EXCEPT ![r] = "waiting"]
          /\ at' = [at EXCEPT ![r] = a]
          /\ attempted' = [attempted EXCEPT ![r] = tried]
          /\ UNCHANGED <<used, background, streaming, aborted>>

ReserveCandidate(r, cands, gs, ps, tried) ==
  LET free == {a \in cands : FreePermit(gs[a])}
  IN  IF free # {} THEN \E a \in free : Dispatch(r, a, gs, ps, tried)
      ELSE Queue(r, cands, gs, ps, tried)

SparesAllButOne(idle) == Cardinality(idle) >= AccountReserve

(* An idle account may be taken for background work.                       *)
SparesReserve(idle) == Cardinality(idle) > AccountReserve

(* reserveBackgroundCandidate: an account already at work first, an idle   *)
(* one only beyond the reserve, else an error at once.                     *)
ReserveBackground(r, cands, gs, ps, tried) ==
  LET allowed == {a \in cands : DailyLimit = 0 \/ used[a] < DailyLimit - UsageReserve}
      idle    == {a \in cands : gs[a].holders = {}}
      shared  == {a \in allowed \ idle : FreePermit(gs[a])}
      fresh   == IF SparesReserve(idle) THEN allowed \cap idle ELSE {}
      choice  == IF shared # {} THEN shared ELSE fresh
  IN  IF choice # {} THEN \E a \in choice : Dispatch(r, a, gs, ps, tried)
      ELSE Done(r, gs, ps)

(* The loop from its head to the next await or to the answer.              *)
Route(r, gs, ps, tried) ==
  LET cands == {a \in Accounts : Eligible(a, status', open')} \ tried
  IN  IF cands = {} THEN Done(r, gs, ps)
      ELSE IF r \in background /\ AccountReserve + UsageReserve > 0
           THEN ReserveBackground(r, cands, gs, ps, tried)
           ELSE ReserveCandidate(r, cands, gs, ps, tried)

(* executeChat admits a request.                                           *)
Arrive(r, isBackground, isStream) ==
  /\ pc[r] = "idle"
  /\ pc' = [pc EXCEPT ![r] = "arrived"]
  /\ background' = IF isBackground THEN background \cup {r} ELSE background
  /\ streaming' = IF isStream THEN streaming \cup {r} ELSE streaming
  /\ UNCHANGED <<accountVars, used, gate, at, attempted, aborted, checks, interventions>>

Start(r) ==
  /\ pc[r] = "arrived"
  /\ UNCHANGED <<accountVars, checks, interventions>>
  /\ Route(r, gate, pc, {})

(* The client goes away: a waiter leaves the queue in the abort listener,  *)
(* any other request notices later.                                        *)
Abort(r) ==
  /\ pc[r] # "idle" /\ r \notin aborted
  /\ \/ pc[r] = "waiting" /\ Done(r, GatesLeft(r), pc)
     \/ /\ pc[r] # "waiting"
        /\ aborted' = aborted \cup {r}
        /\ UNCHANGED <<used, gate, pc, at, attempted, background, streaming>>
  /\ UNCHANGED <<accountVars, checks, interventions>>

(* The queue timeout: account_queue_timeout.                               *)
QueueTimeout(r) ==
  /\ pc[r] = "waiting"
  /\ Done(r, GatesLeft(r), pc)
  /\ UNCHANGED <<accountVars, checks, interventions>>

ResumeUnchecked(r) ==
  /\ pc[r] = "granted"
  /\ Dispatch(r, at[r], gate, pc, attempted[r])
  /\ UNCHANGED <<accountVars, checks, interventions>>

(* reserveCandidate after its await: the account is looked at again.       *)
Resume(r) ==
  /\ pc[r] = "granted"
  /\ \/ Eligible(at[r], status, open) /\ Dispatch(r, at[r], gate, pc, attempted[r])
     \/ ~Eligible(at[r], status, open) /\ Done(r, GatesWithout(r), PhasesWithout(r))
  /\ UNCHANGED <<accountVars, checks, interventions>>

-----------------------------------------------------------------------------
(* Learning from outcomes.                                                 *)

(* A row that was deleted is not updated.                                  *)
SetStatus(a, s) ==
  status' = [status EXCEPT ![a] = IF @ = "deleted" THEN @ ELSE s]

(* recordSuccess and markAccountHealthy.                                   *)
Heal(a) == failures' = [failures EXCEPT ![a] = 0] /\ open' = open \ {a}

Opens(kind) ==
  kind \in {"provider_account_suspended", "provider_expert_busy", "provider_rate_limited"}

Threshold == 3

(* recordFailure: it opens the circuit at once for throttling, otherwise   *)
(* with the third failure in a row; if not, the circuit ends up closed.    *)
RecordFailure(a, kind) ==
  LET n == Min({failures[a] + 1, 3})
  IN  /\ failures' = [failures EXCEPT ![a] = n]
      /\ open' = IF Opens(kind) \/ n >= Threshold THEN open \cup {a} ELSE open \ {a}

(* handleAccountFailure.                                                   *)
HandleFailure(a, kind) ==
  /\ RecordFailure(a, kind)
  /\ IF kind \in {"provider_account_suspended", "provider_authentication_failed"}
     THEN SetStatus(a, "error") ELSE UNCHANGED status

FailsOver(kind) ==
  kind \in {"provider_rate_limited", "provider_account_suspended",
            "provider_authentication_failed", "provider_unavailable"}

(* forwardChatCompletion answers with a failure.                           *)
ForwardFails(r, kind) ==
  LET a  == at[r]
      gs == GatesWithout(r)
      ps == PhasesWithout(r)
      untried == {b \in Accounts : Eligible(b, status', open')} \ attempted[r]
  IN  /\ pc[r] = "forwarding"
      /\ \/ /\ kind = "invalid_media_input"
            /\ UNCHANGED accountVars
            /\ Done(r, gs, ps)
         \/ /\ kind = "provider_expert_busy"
            /\ RecordFailure(a, kind) /\ UNCHANGED status
            /\ IF Cardinality(attempted[r]) < 2 /\ untried # {}
               THEN Route(r, gs, ps, attempted[r]) ELSE Done(r, gs, ps)
         \/ /\ kind \notin {"invalid_media_input", "provider_expert_busy"}
            /\ HandleFailure(a, kind)
            /\ IF FailsOver(kind) THEN Route(r, gs, ps, attempted[r]) ELSE Done(r, gs, ps)
      /\ UNCHANGED <<checks, interventions>>

(* It answers with a body, or with a stream whose first chunk is awaited.  *)
ForwardSucceeds(r) ==
  /\ pc[r] = "forwarding"
  /\ pc' = [pc EXCEPT ![r] = IF r \in streaming THEN "priming" ELSE "serving"]
  /\ UNCHANGED <<accountVars, used, gate, at, attempted, background, streaming,
                 aborted, checks, interventions>>

StreamPrimed(r) ==
  /\ pc[r] = "priming"
  /\ pc' = [pc EXCEPT ![r] = "serving"]
  /\ UNCHANGED <<accountVars, used, gate, at, attempted, background, streaming,
                 aborted, checks, interventions>>

PrimeFailsKeepingPermit(r) ==
  /\ pc[r] = "priming"
  /\ RecordFailure(at[r], "provider_timeout") /\ UNCHANGED status
  /\ Route(r, gate, pc, attempted[r])
  /\ UNCHANGED <<checks, interventions>>

(* The first-byte timeout, an error or an empty stream: fail over.         *)
PrimeFails(r) ==
  /\ pc[r] = "priming"
  /\ RecordFailure(at[r], "provider_timeout") /\ UNCHANGED status
  /\ Route(r, GatesWithout(r), PhasesWithout(r), attempted[r])
  /\ UNCHANGED <<checks, interventions>>

(* RoutedResult.release(true): the account is healthy and active again.    *)
FinishWell(r) ==
  /\ pc[r] = "serving"
  /\ Heal(at[r]) /\ SetStatus(at[r], "active")
  /\ Done(r, GatesWithout(r), PhasesWithout(r))
  /\ UNCHANGED <<checks, interventions>>

(* RoutedResult.release(false): the stream broke off or carried an error.  *)
FinishBadly(r, kind) ==
  /\ pc[r] = "serving" /\ r \in streaming
  /\ kind \notin {"invalid_media_input", "provider_rejected_request"}
  /\ \/ kind = "provider_expert_busy" /\ UNCHANGED accountVars
     \/ kind # "provider_expert_busy" /\ HandleFailure(at[r], kind)
  /\ Done(r, GatesWithout(r), PhasesWithout(r))
  /\ UNCHANGED <<checks, interventions>>

-----------------------------------------------------------------------------
(* Time, the health checks and the admin routes.                           *)

CooldownEnds(a) ==
  /\ a \in open
  /\ open' = open \ {a}
  /\ UNCHANGED <<status, used, failures, gate, requestVars, checks, interventions>>

UsageExpires(a) ==
  /\ used[a] > 0
  /\ used' = [used EXCEPT ![a] = @ - 1]
  /\ UNCHANGED <<accountVars, gate, requestVars, checks, interventions>>

Intervene == interventions < MaxInterventions /\ interventions' = interventions + 1

(* A health check reads the account and calls the provider.                *)
CheckStarts(a, by) ==
  /\ Intervene
  /\ status[a] # "deleted"
  /\ by = "monitor" => status[a] # "inactive"
  /\ checks' = checks \cup {[account |-> a, by |-> by, saw |-> status[a]]}
  /\ UNCHANGED <<accountVars, used, gate, requestVars>>

CheckHealthy(c) ==
  /\ c \in checks
  /\ SetStatus(c.account, IF c.saw = "inactive" THEN "inactive" ELSE "active")
  /\ Heal(c.account)
  /\ checks' = checks \ {c}
  /\ UNCHANGED <<used, gate, requestVars, interventions>>

(* Bad credentials or a suspension.                                        *)
CheckUnhealthy(c) ==
  /\ c \in checks
  /\ SetStatus(c.account, "error")
  /\ checks' = checks \ {c}
  /\ UNCHANGED <<used, failures, open, gate, requestVars, interventions>>

(* Throttling or a network error says nothing: the monitor leaves the row  *)
(* alone, the admin test writes back the status it read.                   *)
CheckInconclusive(c) ==
  /\ c \in checks
  /\ IF c.by = "admin" THEN SetStatus(c.account, c.saw) ELSE UNCHANGED status
  /\ checks' = checks \ {c}
  /\ UNCHANGED <<used, failures, open, gate, requestVars, interventions>>

(* PATCH and DELETE /admin/api/accounts/:id.                               *)
AdminWrites(a, s) ==
  /\ Intervene
  /\ status[a] # "deleted"
  /\ s \in {"active", "inactive", "deleted"}
  /\ SetStatus(a, s)
  /\ UNCHANGED <<used, failures, open, gate, requestVars, checks>>

-----------------------------------------------------------------------------
Provider(r) ==
  \/ ForwardSucceeds(r) \/ StreamPrimed(r) \/ PrimeFails(r) \/ FinishWell(r)
  \/ \E kind \in Kinds : ForwardFails(r, kind) \/ FinishBadly(r, kind)

Next ==
  \/ \E r \in Requests :
       \/ \E isBackground, isStream \in BOOLEAN : Arrive(r, isBackground, isStream)
       \/ Start(r) \/ Abort(r) \/ QueueTimeout(r) \/ Resume(r) \/ Provider(r)
  \/ \E a \in Accounts :
       \/ CooldownEnds(a) \/ UsageExpires(a)
       \/ \E by \in {"monitor", "admin"} : CheckStarts(a, by)
       \/ \E s \in {"active", "inactive", "deleted"} : AdminWrites(a, s)
  \/ \E c \in checks : CheckHealthy(c) \/ CheckUnhealthy(c) \/ CheckInconclusive(c)

Spec == Init /\ [][Next]_vars

(* Every wait of a request is bounded: the global gate's and the account   *)
(* gate's by the queue timeout, an upstream call by the request timeout,   *)
(* a stream by the first-byte and idle timeouts, an unread body by the     *)
(* client connection's own timeout.                                        *)
FairSpec ==
  /\ Spec
  /\ \A r \in Requests :
       /\ WF_vars(Start(r)) /\ WF_vars(QueueTimeout(r))
       /\ WF_vars(Resume(r)) /\ WF_vars(Provider(r))

-----------------------------------------------------------------------------
(* Properties.                                                             *)

(* A request has a permit of the account it works with and of no other,    *)
(* and is in that account's queue while it waits; an answered request has  *)
(* neither, whichever of the loop's exits it left by                       *)
(* (router.ts:109-138, 186-208, 218-221, 464-476).                         *)
PermitsFollowRequests ==
  \A a \in Accounts :
    /\ gate[a].holders = {r \in Requests : at[r] = a /\ pc[r] \notin {"idle", "arrived", "waiting"}}
    /\ \A r \in Requests :
         (at[r] = a /\ pc[r] = "waiting") <=> (\E i \in 1..Len(gate[a].queue) : gate[a].queue[i] = r)

(* A request is sent only to an account that is active, within its window, *)
(* not cooling down and not tried before by the request, even when it was  *)
(* picked before the wait for its permit (router.ts:105-109, 471-477).     *)
SentToEligibleAccount ==
  [][\A r \in Requests :
       attempted'[r] \subseteq attempted[r] \/
       \E a \in Accounts \ attempted[r] :
         attempted'[r] = attempted[r] \cup {a} /\ Eligible(a, status, open)]_vars

(* An account comes into the hands of background work alone in two ways:   *)
(* it was idle and as many other usable accounts stay idle as the reserve  *)
(* asks for, or foreground work shared it and went away.  No permit passed *)
(* on in a queue, no failover and no account that cools down or is         *)
(* disabled meanwhile opens a third, with any number of permits for each   *)
(* account (router.ts:443-449, 497-519).                                   *)
BackgroundOnly(a) == gate[a].holders # {} /\ gate[a].holders \subseteq background

Idle == {a \in Accounts : gate[a].holders = {} /\ Eligible(a, status, open)}

ReserveKept ==
  [][\A a \in Accounts :
       AccountReserve > 0 /\ BackgroundOnly(a)' /\ ~BackgroundOnly(a) =>
         \/ gate'[a].holders \subseteq gate[a].holders
         \/ gate[a].holders = {} /\ Cardinality(Idle') >= AccountReserve]_vars

Pool(a) == INSTANCE PermitPool WITH
  Callers <- Requests, Limit <- AccountConcurrency,
  holders <- gate[a].holders, waiting <- {gate[a].queue[i] : i \in 1..Len(gate[a].queue)}

(* Seen through the router, with failovers that give one account's permit  *)
(* back and take another's in one step, every account's gate still is a    *)
(* permit pool (router.ts:109-134, 436-478).                               *)
EveryGateIsAPool ==
  /\ \A a \in Accounts : Pool(a)!Init
  /\ [][\A a \in Accounts : Pool(a)!Next \/ UNCHANGED Pool(a)!vars]_vars

(* Every request is answered: failover ends, and nobody waits for ever     *)
(* (router.ts:103-107, 180, 467).                                          *)
EveryRequestAnswered == \A r \in Requests : pc[r] # "idle" ~> pc[r] = "idle"
=============================================================================
