----------------------------- MODULE ApiAccess ------------------------------
(***************************************************************************)
(* What lets a client in and how often: the API keys of the store with     *)
(* their scopes, networks and models, the guard of /v1 (requireApiScope),  *)
(* the sliding window of the minute, the daily quota and the usage window  *)
(* of the account a request is sent to, with the administrator's key       *)
(* routes and the restarts of the gateway.                                 *)
(*                                                                         *)
(* Every handler is synchronous between its first read and its last write, *)
(* so each is one action.  What a restart keeps and what it forgets is the *)
(* point: rows survive, the minute windows do not, and the environment     *)
(* may bring another bootstrap key and another usage window.               *)
(*                                                                         *)
(* Time is counted in ticks; a minute has Minute of them, a day Day.  One  *)
(* account is modelled.  An address is its width and its value (the        *)
(* spellings parseIp understands are left out, the widths are small): an   *)
(* IPv4 address a client writes as IPv6 has the wide form.                 *)
(***************************************************************************)
EXTENDS Integers, FiniteSets, FiniteSetsExt, Functions

CONSTANTS
  Environment,   \* ENVIRONMENT_API_KEY_ID, the id of the bootstrap key
  ClientKeys,    \* ids of keys an administrator creates
  Secrets,       \* values of CHAT2API_BOOTSTRAP_API_KEY
  Minute,        \* windowMs of the rate limiter
  Day,           \* ticks of a UTC day
  Rates,         \* requests per minute an administrator may write
  Quotas,        \* daily quotas he may write
  Grace,         \* grace periods of a rotation
  Lifetimes,     \* ticks a key may be given to live, but for ever
  Policies,      \* what a key may open: [scopes, networks, models]
  Addresses,     \* where requests come from: [bits, value]
  Models,        \* models clients ask for
  UsageWindows,  \* values of CHAT2API_ACCOUNT_USAGE_WINDOW_MS
  DailyLimit,    \* the account's limit per usage window, 0 for none
  BootRate,      \* config.rateLimitRpm
  BootQuota,     \* config.dailyQuota
  MaxTime,       \* bound on the clock
  MaxRequests,   \* bound on requests the counters see
  MaxChanges     \* bound on key routes and restarts together

Never == 2 * (MaxTime + Day)    \* later than any date that is reached

(* The number of values of k bits: 1n << k.                                *)
PowerOfTwo[k \in Nat] == IF k = 0 THEN 1 ELSE 2 * PowerOfTwo[k - 1]

(* parseIp: a value is within its width.                                   *)
ParsedIp(place) == place.bits \in Nat /\ place.value \in 0..(PowerOfTwo[place.bits] - 1)

ASSUME AccessAssumption ==
  /\ Environment \notin ClientKeys /\ Secrets \cap ClientKeys = {}
  /\ Minute \in Nat \ {0} /\ Day \in Nat \ {0}
  /\ Rates \subseteq Nat /\ Quotas \subseteq Nat
  /\ "malformed" \notin Models /\ "none" \notin Models
  /\ Grace \subseteq Nat /\ Lifetimes \subseteq Nat
  /\ \A address \in Addresses : ParsedIp(address)
  /\ \A policy \in Policies : /\ DOMAIN policy = {"scopes", "networks", "models"}
                              /\ \A rule \in policy.networks : ParsedIp(rule)
  /\ UsageWindows \subseteq 1..Day /\ DailyLimit \in Nat
  /\ {MaxTime, MaxRequests, MaxChanges} \subseteq Nat /\ {BootRate, BootQuota} \subseteq Nat \ {0}

VARIABLES
  now,       \* Date.now()
  keys,      \* table api_keys: id -> row
  minutes,   \* SlidingWindowRateLimiter.windows: <<id, scope>> -> time -> requests
  days,      \* table api_key_daily_usage: id -> day -> requests
  events,    \* table account_usage_events: time -> attempts
  window,    \* config.accountUsageWindowMs of this boot
  inFlight,  \* chat requests let in and not yet sent to the account
  answer,    \* what the last request was told
  blocked,   \* history: secrets disabled, deleted or replaced
  ends,      \* history: when a secret was last said to end, 0 if it never was made
  granted,   \* history: what it was last said to open
  passed,    \* history: <<id, scope>> -> time -> requests of this boot the minute let pass
  admitted,  \* history: id -> day -> chat requests let in
  attempts,  \* history: time -> attempts sent to the account
  requests,  \* bound: requests so far
  changes    \* bound: key routes and restarts so far

accessVars == <<now, keys, minutes, days, events, window, inFlight, answer,
          blocked, ends, granted, passed, admitted, attempts, requests, changes>>

history == <<blocked, ends, granted, passed, admitted, attempts>>

Ids    == ClientKeys \cup {Environment}
Scopes == {"chat", "models"}
Times  == 0..MaxTime
Days   == 0..(MaxTime \div Day)

Today == now \div Day    \* currentDate

Bodies == Models \cup {"malformed"}    \* of a chat request

Everything == [scopes |-> Scopes, networks |-> {}, models |-> {}]

NoAnswer == [secret |-> Environment, id |-> Environment, scope |-> "chat", told |-> "nothing",
             address |-> [bits |-> 0, value |-> 0], body |-> "none"]

NoCounts == [t \in Times |-> 0]

(* What was counted after a time: each by its time and its number.         *)
Counted(counts, cutoff) == UNION {{t} \X (1..counts[t]) : t \in {time \in Times : time > cutoff}}

CountSince(counts, cutoff) == Cardinality(Counted(counts, cutoff))

Row(secret, policy, rate, quota, expires) ==
  [secret |-> secret, enabled |-> TRUE, policy |-> policy, rate |-> rate, quota |-> quota,
   expires |-> expires, replacedBy |-> Environment]

Put(table, id, row) == [i \in DOMAIN table \cup {id} |-> IF i = id THEN row ELSE table[i]]

Called == requests < MaxRequests /\ requests' = requests + 1 /\ UNCHANGED changes

Changed == changes < MaxChanges /\ changes' = changes + 1 /\ UNCHANGED requests

-----------------------------------------------------------------------------

(* Mutant: a row that exists keeps its secret.                             *)
SeededOnce(table, secret) ==
  IF Environment \in DOMAIN table THEN table
  ELSE Put(table, Environment, Row(secret, Everything, BootRate, BootQuota, Never))

(* seedBootstrapApiKey, before it listens: the reserved row is overwritten *)
(* and with it whatever its secret was.                                    *)
Seeded(table, secret) ==
  Put(table, Environment, Row(secret, Everything, BootRate, BootQuota, Never))

(* findApiKey.                                                             *)
Found(secret) ==
  {id \in DOMAIN keys : keys[id].secret = secret /\ keys[id].enabled /\ keys[id].expires > now}

(* What is left of an address once the bits after the prefix are cleared.  *)
Network(place, prefix) ==
  LET host == PowerOfTwo[place.bits - prefix] IN (place.value \div host) * host

(* isIpAllowed: no list, or one of its rules.                              *)
IsIpAllowed(address, networks) ==
  \/ networks = {}
  \/ \E rule \in networks :
       rule.bits = address.bits /\ Network(address, rule.prefix) = Network(rule, rule.prefix)

(* The key the guard goes on with.                                         *)
Entered(secret, scope, address) ==
  {id \in Found(secret) : /\ scope \in keys[id].policy.scopes
                          /\ IsIpAllowed(address, keys[id].policy.networks)}

AssertModelAllowed(id, model) ==
  LET allowlist == keys[id].policy.models IN allowlist = {} \/ model \in allowlist

(* Mutant: windows that start anew with every minute of the clock.         *)
RecentFixed(id, scope) ==
  [t \in Times |-> IF t \div Minute = now \div Minute THEN minutes[id, scope][t] ELSE 0]

(* The timestamps the limiter still counts.                                *)
Recent(id, scope) ==
  [t \in Times |-> IF t > now - Minute THEN minutes[id, scope][t] ELSE 0]

Usage(id) == days[id][Today]

(* What the chat route says before it asks for a permit.                   *)
ChatAnswer(id, body) ==
  CASE body = "malformed" -> "invalid_request"
    [] body \in Models /\ ~AssertModelAllowed(id, body) -> "model_not_allowed"
    [] OTHER -> "let in"

(* requireApiScope and what the chat route checks before it asks for a     *)
(* permit.  A request the day refuses has used up its place in the minute, *)
(* one that is malformed or asks for another model its place in the day.   *)
Guard(secret, id, scope, address, body) ==
  LET recent == Recent(id, scope)
      slow   == CountSince(recent, -1) < keys[id].rate
      left   == scope = "models" \/ Usage(id) < keys[id].quota
      told   == CASE ~slow -> "rate_limit_exceeded"
                  [] slow /\ ~left -> "daily_quota_exceeded"
                  [] OTHER -> ChatAnswer(id, body)
      charge == IF slow /\ left /\ scope = "chat" THEN 1 ELSE 0
  IN  /\ answer' = [secret |-> secret, id |-> id, scope |-> scope, told |-> told,
                    address |-> address, body |-> body]
      /\ minutes' = [minutes EXCEPT ![<<id, scope>>] =
                       IF slow THEN [recent EXCEPT ![now] = @ + 1] ELSE recent]
      /\ passed' = IF slow THEN [passed EXCEPT ![<<id, scope>>][now] = @ + 1] ELSE passed
      /\ days' = [days EXCEPT ![id][Today] = @ + charge]
      /\ admitted' = [admitted EXCEPT ![id][Today] = @ + charge]
      /\ inFlight' = inFlight + IF told = "let in" THEN charge ELSE 0
      /\ UNCHANGED <<now, keys, events, window, blocked, ends, granted, attempts>>

Request(secret, scope, address, body) ==
  \/ /\ Called
     /\ \E id \in Entered(secret, scope, address) : Guard(secret, id, scope, address, body)
  \/ /\ Entered(secret, scope, address) = {}
     /\ answer' = [NoAnswer EXCEPT !.secret = secret, !.scope = scope,
                                   !.told = "unauthorized", !.address = address]
     /\ UNCHANGED <<now, keys, minutes, days, events, window, inFlight, history, requests, changes>>

-----------------------------------------------------------------------------

(* Mutant: the rows of this boot's window only.                            *)
KeptForWindow(rows) == [t \in Times |-> IF t <= now - window THEN 0 ELSE rows[t]]

(* The rows an attempt leaves: those of a whole day, the longest window a  *)
(* later boot may ask about.                                               *)
Kept(rows) == [t \in Times |-> IF t <= now - Max({window, Day}) THEN 0 ELSE rows[t]]

(* consumeAccountUsageWindow, when the router sends a request.             *)
ConsumeAccountUsageWindow ==
  /\ inFlight > 0
  /\ inFlight' = inFlight - 1
  /\ answer' = NoAnswer
  /\ IF DailyLimit > 0 /\ CountSince(events, now - window) >= DailyLimit
     THEN UNCHANGED <<events, attempts>>
     ELSE /\ events' = Kept([events EXCEPT ![now] = @ + 1])
          /\ attempts' = [attempts EXCEPT ![now] = @ + 1]
  /\ UNCHANGED <<now, keys, minutes, days, window, blocked, ends, granted, passed, admitted,
                 requests, changes>>

-----------------------------------------------------------------------------

(* An administrator's request: the environment's key is out of its reach.  *)
AdminWrites(id) ==
  /\ Changed
  /\ id \in DOMAIN keys \ {Environment}
  /\ answer' = NoAnswer
  /\ UNCHANGED <<now, minutes, events, window, inFlight, passed, admitted, attempts>>

(* Dates a policy may give: more than a minute ahead.                      *)
Dates == {now + life : life \in {l \in Lifetimes : l > Minute}} \cup {Never}

(* What the schemas let an administrator write.                            *)
Acceptable(policy, rate, quota) ==
  /\ policy.scopes # {}
  /\ \A rule \in policy.networks : rule.prefix \in 0..rule.bits
  /\ rate >= 1 /\ quota >= 1

Fresh == ClientKeys \ (DOMAIN keys \cup blocked)    \* what randomUUID may give

CreateApiKey(id, policy, rate, quota, date) ==
  /\ Changed
  /\ id \in Fresh
  /\ Acceptable(policy, rate, quota)
  /\ keys' = Put(keys, id, Row(id, policy, rate, quota, date))
  /\ ends' = [ends EXCEPT ![id] = date]
  /\ granted' = [granted EXCEPT ![id] = policy]
  /\ answer' = NoAnswer
  /\ UNCHANGED <<now, minutes, days, events, window, inFlight, blocked, passed, admitted, attempts>>

SetEnabled(id, enabled) ==
  /\ AdminWrites(id)
  /\ keys' = [keys EXCEPT ![id].enabled = enabled]
  /\ blocked' = IF enabled THEN blocked \ {id} ELSE blocked \cup {id}
  /\ UNCHANGED <<days, ends, granted>>

SetExpiry(id, date) ==
  /\ AdminWrites(id)
  /\ keys' = [keys EXCEPT ![id].expires = date]
  /\ ends' = [ends EXCEPT ![id] = date]
  /\ UNCHANGED <<days, blocked, granted>>

(* A key keeps the scopes it was made with.                                *)
Narrowed(old, policy) == [policy EXCEPT !.scopes = old.scopes]

SetLimits(id, policy, rate, quota) ==
  /\ AdminWrites(id)
  /\ Acceptable(Narrowed(keys[id].policy, policy), rate, quota)
  /\ keys' = [keys EXCEPT ![id] = [@ EXCEPT !.policy = Narrowed(keys[id].policy, policy),
                                           !.rate = rate, !.quota = quota]]
  /\ granted' = [granted EXCEPT ![id] = Narrowed(@, policy)]
  /\ UNCHANGED <<days, blocked, ends>>

(* The date a rotated key is left with.                                    *)
LastDay(id, grace) == Min({keys[id].expires, now + grace})

(* rotateApiKey: the replacement inherits the policy, not the usage.       *)
Rotated(id, new, grace, date) ==
  Put([keys EXCEPT ![id] = [@ EXCEPT !.expires = LastDay(id, grace), !.replacedBy = new]],
      new, Row(new, keys[id].policy, keys[id].rate, keys[id].quota, date))

RotateApiKey(id, new, grace, date) ==
  /\ AdminWrites(id)
  /\ new \in Fresh
  /\ keys' = Rotated(id, new, grace, date)
  /\ ends' = [ends EXCEPT ![new] = date, ![id] = Min({@, now + grace})]
  /\ granted' = [granted EXCEPT ![new] = granted[id]]
  /\ UNCHANGED <<days, blocked>>

(* deleteApiKey: its usage goes with it (ON DELETE CASCADE).               *)
DeleteApiKey(id) ==
  /\ AdminWrites(id)
  /\ keys' = Restrict(keys, DOMAIN keys \ {id})
  /\ days' = [days EXCEPT ![id] = [d \in Days |-> 0]]
  /\ blocked' = blocked \cup {id}
  /\ UNCHANGED <<ends, granted>>

Tick ==
  /\ now < MaxTime
  /\ now' = now + 1
  /\ answer' = NoAnswer
  /\ UNCHANGED <<keys, minutes, days, events, window, inFlight, history, requests, changes>>

(* The process ends and starts again, with the environment it then has.    *)
Restart(secret, w) ==
  /\ Changed
  /\ keys' = Seeded(keys, secret)
  /\ window' = w
  /\ minutes' = [slot \in Ids \X Scopes |-> NoCounts]
  /\ passed' = [slot \in Ids \X Scopes |-> NoCounts]
  /\ inFlight' = 0
  /\ blocked' = (blocked \ {secret}) \cup (Secrets \ {secret})
  /\ answer' = NoAnswer
  /\ UNCHANGED <<now, days, events, ends, granted, admitted, attempts>>

AccessInit ==
  /\ now = 0
  /\ \E secret \in Secrets, id \in ClientKeys, date \in Lifetimes \cup {Never} :
       /\ keys = Seeded([i \in {id} |-> Row(id, Everything, BootRate, BootQuota, date)], secret)
       /\ ends = [s \in Secrets \cup ClientKeys |->
                    CASE s = id -> date [] s \in Secrets -> Never [] OTHER -> 0]
       /\ blocked = Secrets \ {secret}
  /\ granted = [s \in Secrets \cup ClientKeys |-> Everything]
  /\ window \in UsageWindows
  /\ minutes = [slot \in Ids \X Scopes |-> NoCounts]
  /\ passed = [slot \in Ids \X Scopes |-> NoCounts]
  /\ days = [id \in Ids |-> [d \in Days |-> 0]]
  /\ admitted = [id \in Ids |-> [d \in Days |-> 0]]
  /\ \E sent \in 0..Max({DailyLimit - 1, 0}) :    \* attempts of the boot before this one
       events = [NoCounts EXCEPT ![0] = sent] /\ attempts = [NoCounts EXCEPT ![0] = sent]
  /\ inFlight = 0
  /\ answer = NoAnswer
  /\ requests = 0 /\ changes = 0

AccessNext ==
  \/ Tick
  \/ ConsumeAccountUsageWindow
  \/ \E secret \in Secrets \cup ClientKeys, address \in Addresses :
       \/ Request(secret, "models", address, "none")
       \/ \E body \in Bodies : Request(secret, "chat", address, body)
  \/ \E id \in ClientKeys : DeleteApiKey(id)
  \/ \E id \in ClientKeys, enabled \in BOOLEAN : SetEnabled(id, enabled)
  \/ \E id \in ClientKeys, date \in Dates : SetExpiry(id, date)
  \/ \E id \in ClientKeys, policy \in Policies, rate \in Rates, quota \in Quotas :
       \/ SetLimits(id, policy, rate, quota)
       \/ \E date \in Dates : CreateApiKey(id, policy, rate, quota, date)
  \/ \E id, new \in ClientKeys, grace \in Grace, date \in Dates : RotateApiKey(id, new, grace, date)
  \/ \E secret \in Secrets, w \in UsageWindows : Restart(secret, w)

AccessSpec == AccessInit /\ [][AccessNext]_accessVars

-----------------------------------------------------------------------------

(* Whatever the policy changes, restarts and refusals before it, the       *)
(* answer to a request is the one its key's whole history calls for: it is *)
(* let in only below its rate in the last minute of this boot and, for     *)
(* chat, below its quota of the UTC day over all boots, and it is refused  *)
(* only when one of the two is used up (rate-limiter.ts, store.ts          *)
(* consumeApiKeyDailyQuota).                                               *)
InLastMinute(id, scope) == CountSince(passed[id, scope], now - Minute)

LimitsFollowHistory ==
  [][LET a    == answer'
         fast == InLastMinute(a.id, a.scope) >= keys[a.id].rate
         out  == a.scope = "chat" /\ admitted[a.id][Today] >= keys[a.id].quota
     IN  /\ a.told \in {"let in", "invalid_request", "model_not_allowed"} => ~fast /\ ~out
         /\ a.told = "rate_limit_exceeded" => fast
         /\ a.told = "daily_quota_exceeded" => out]_<<answer, requests>>

(* No attempt is sent to the account beyond its limit in the usage window  *)
(* of this boot, also when the boot before it ran with a shorter window    *)
(* and kept its rows by that one (store.ts consumeAccountUsageWindow).     *)
UsageWindowKept ==
  [][DailyLimit > 0 => CountSince(attempts, now - window) < DailyLimit]_attempts

(* An address is of a network when both are of one kind and agree on the   *)
(* leading bits.                                                           *)
Bit(place, i) == (place.value \div PowerOfTwo[i]) % 2

Inside(address, rule) ==
  /\ address.bits = rule.bits
  /\ \A i \in (rule.bits - rule.prefix)..(rule.bits - 1) : Bit(address, i) = Bit(rule, i)

(* A secret opens what the administrator last said of it, and from where,  *)
(* and nothing once it was disabled, deleted, replaced by a restart or its *)
(* last announced end has passed; a rotation hands on the whole policy and *)
(* only ever shortens the life of the old key (docs/operations.md,         *)
(* Rotation).  Nobody else is turned away as unauthorized.                 *)
EntryFollowsPolicy ==
  [][LET a    == answer'
         may  == granted[a.secret]
         open == /\ a.secret \notin blocked /\ now < ends[a.secret]
                 /\ a.scope \in may.scopes
                 /\ may.networks = {} \/ \E rule \in may.networks : Inside(a.address, rule)
     IN  a.told # "nothing" =>
           /\ a.told # "unauthorized" <=> open
           /\ a.told = "let in" /\ a.scope = "chat" /\ may.models # {} => a.body \in may.models]_<<answer, requests>>
=============================================================================
