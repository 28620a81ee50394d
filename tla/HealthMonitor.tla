--------------------------- MODULE HealthMonitor ----------------------------
(***************************************************************************)
(* The account health monitor                                              *)
(* (src/server/providers/account-health-monitor.ts) with the registry it   *)
(* fills, the hooks app.ts gives it, and the other writers of an account's *)
(* status: the admin routes and the failures of traffic.                   *)
(*                                                                         *)
(* A run of checks reads the account rows, then awaits the provider once   *)
(* for each and writes after every answer.  Runs of all kinds interleave.  *)
(* Time is in ticks; one tick is the second the code adds to a date.       *)
(***************************************************************************)
EXTENDS Integers

CONSTANTS
  Accounts,     \* the accounts that may have a row
  Interval,     \* accountHealthIntervalMs; 0 disables the periodic run
  Fallback,     \* the 15 minutes used without an interval
  TimerLimit,   \* the longest delay setTimeout can keep (2^31 - 1 ms)
  Mutes,        \* how far ahead the provider's mute_until may be
  MaxTime,      \* bound: the clock stops there and later dates are due
  MaxRuns,      \* bound: runs in flight
  MaxEvents,    \* bound: acts of administrators, requests and the provider
  FirstRows,    \* bound: the statuses the rows start with
  FirstAnswers  \* bound: what the provider says at first

ASSUME MonitorAssumption ==
  /\ Interval \in Nat /\ Fallback \in Nat /\ TimerLimit \in Nat
  /\ Mutes \subseteq Nat \ {0}
  /\ FirstRows \subseteq {"active", "inactive", "error"}
  /\ FirstAnswers \subseteq {"ok", "dead", "muted"}
  /\ MaxTime \in Nat /\ MaxRuns \in Nat \ {0} /\ MaxEvents \in Nat

VARIABLES
  now,
  row,       \* the status column of each account row, "none" without a row
  health,    \* AccountHealthRegistry.snapshots
  timer,     \* scheduledChecks
  periodic,  \* when the periodic run is due, Never while it runs or is off
  runs,      \* the runs of checks in flight
  open,      \* the accounts whose circuit is open in the router
  serving,   \* the accounts with a request in flight
  provider,  \* what the provider would answer about each account's token
  stopped,   \* the process is closing
  events     \* acts so far

vars == <<now, row, health, timer, periodic, runs, open, serving, provider,
          stopped, events>>

Never == -1
Statuses == {"none", "active", "inactive", "error"}

(* A registry entry; by is auxiliary: which code recorded it.              *)
Snapshot(status, retryAt, by) == [status |-> status, retryAt |-> retryAt, by |-> by]
NoSnapshot == Snapshot("none", Never, "none")

NoTimer == [runAt |-> Never, firesAt |-> Never]
NoRun   == [kind |-> "none", todo |-> {}, of |-> {}, was |-> <<>>]

-----------------------------------------------------------------------------
(* Timers                                                                  *)

Capped(t) == IF t > MaxTime THEN MaxTime ELSE t

FallbackDelay == IF Interval > 0 THEN Interval ELSE Fallback

RunAt(retryAt) ==
  IF retryAt = Never THEN now + FallbackDelay
                     ELSE (IF retryAt > now THEN retryAt ELSE now) + 1

(* setTimeout: a delay beyond its 31 bits becomes one millisecond.         *)
After(delay) == IF delay > TimerLimit THEN now ELSE Capped(now + delay)

(* scheduleAccount, given the account's timer: the earlier date stays.     *)
Scheduled(current, retryAt) ==
  IF stopped \/ (current # NoTimer /\ current.runAt <= RunAt(retryAt))
  THEN current
  ELSE [runAt |-> RunAt(retryAt), firesAt |-> After(RunAt(retryAt) - now)]

(* runCheck, once its run is over: schedule every suspended snapshot.      *)
AllScheduled(h) ==
  [a \in Accounts |-> IF h[a].status = "suspended"
                      THEN Scheduled(timer[a], h[a].retryAt) ELSE timer[a]]

(* Mutant: a timed run that does not schedule the next one.                *)
TimersAfterPeriodic(kind, of, h) ==
  IF kind \in {"full", "periodic"} THEN AllScheduled(h) ELSE timer

(* What a finished run of a kind over the accounts of does to the timers.  *)
TimersAfter(kind, of, h) ==
  CASE kind \in {"full", "periodic"} -> AllScheduled(h)
    [] kind = "timer"                -> [a \in Accounts |-> IF a \in of THEN AllScheduled(h)[a]
                                                                         ELSE timer[a]]
    [] OTHER                         -> timer

(* Mutant: the chain of periodic runs does not look at stopped.            *)
RearmedAlways == IF Interval = 0 THEN Never ELSE Capped(now + Interval)

Rearmed == IF stopped \/ Interval = 0 THEN Never ELSE Capped(now + Interval)

PeriodicAfter(kind) == IF kind = "periodic" THEN Rearmed ELSE periodic

-----------------------------------------------------------------------------
(* Runs                                                                    *)

Held(a) == health[a].status = "suspended" /\ health[a].retryAt > now

(* The accounts a run checks: not the inactive ones nor, in a periodic     *)
(* run, those whose hold is still running.  The code checks them one after *)
(* the other by the age of their rows; the order is left open here.        *)
Selected(kind, of) ==
  {a \in of : /\ row[a] \notin {"none", "inactive"}
              /\ kind = "periodic" => ~Held(a)}

Free(i) == runs[i] = NoRun /\ \A j \in 1..(i - 1) : runs[j] # NoRun

(* A run starts; with no account to check it is over at once.              *)
Launch(i, kind, of, t, p) ==
  /\ Free(i)
  /\ IF Selected(kind, of) = {}
     THEN /\ runs' = runs
          /\ timer' = [a \in Accounts |->
                        IF a \in of /\ health[a].status = "suspended"
                        THEN Scheduled(t[a], health[a].retryAt) ELSE t[a]]
          /\ periodic' = IF kind = "periodic" THEN Rearmed ELSE p
     ELSE /\ runs' = [runs EXCEPT ![i] = [kind |-> kind, todo |-> Selected(kind, of),
                                          of |-> of, was |-> row]]
          /\ timer' = t /\ periodic' = p

PeriodicFires(i) ==
  /\ periodic # Never /\ periodic <= now
  /\ Launch(i, "periodic", Accounts, timer, Never)
  /\ UNCHANGED <<now, row, health, open, serving, provider, stopped, events>>

TimerFires(i, a) ==
  /\ timer[a] # NoTimer /\ timer[a].firesAt <= now
  /\ Launch(i, "timer", {a}, [timer EXCEPT ![a] = NoTimer], periodic)
  /\ UNCHANGED <<now, row, health, open, serving, provider, stopped, events>>

(* updateAccount: nothing for an account that is gone.                     *)
SetStatus(a, status) ==
  row' = IF row[a] = "none" THEN row ELSE [row EXCEPT ![a] = status]

(* The run is answered about a: on to the next account, or the end.        *)
Advance(i, a, h) ==
  LET run  == runs[i]
      rest == run.todo \ {a}
  IN  IF rest = {}
      THEN /\ runs' = [runs EXCEPT ![i] = NoRun]
           /\ timer' = TimersAfter(run.kind, run.of, h)
           /\ periodic' = PeriodicAfter(run.kind)
      ELSE /\ runs' = [runs EXCEPT ![i].todo = rest]
           /\ UNCHANGED <<timer, periodic>>

(* Mutant: onHealthy is not called, the circuit stays open.                *)
VerdictWithoutHealing(a, status) ==
  /\ CASE status = "healthy" -> SetStatus(a, "active")
       [] status \in {"authentication_error", "suspended"} -> SetStatus(a, "error")
       [] OTHER -> UNCHANGED row
  /\ UNCHANGED open

(* What runAccountHealthChecks does with an answer.                        *)
Verdict(a, status) ==
  CASE status = "healthy" ->
         /\ SetStatus(a, "active")
         /\ open' = open \ {a}
    [] status \in {"authentication_error", "suspended"} ->
         /\ SetStatus(a, "error")
         /\ UNCHANGED open
    [] OTHER -> UNCHANGED <<row, open>>

(* POST accounts/:id/test with an answer.  was is the row it read.         *)
TestVerdict(a, status, was) ==
  /\ SetStatus(a, CASE status = "healthy" -> IF was = "inactive" THEN "inactive" ELSE "active"
                    [] status \in {"authentication_error", "suspended"} -> "error"
                    [] OTHER -> was)
  /\ open' = IF status = "healthy" THEN open \ {a} ELSE open

(* The provider's answer about a token: the truth or a failed call.        *)
Truth(a) == CASE provider[a] = "ok"    -> "healthy"
              [] provider[a] = "dead"  -> "authentication_error"
              [] provider[a] = "muted" -> "suspended"

Answers(a, status, retryAt) ==
  /\ status \in {Truth(a), "unavailable"}
  /\ retryAt \in {Never} \cup (IF status = "suspended" THEN {now + m : m \in Mutes} ELSE {})
  /\ events' = IF status = "unavailable" THEN events + 1 ELSE events
  /\ events' <= MaxEvents

MonitorAnswered(i, a, status, retryAt) ==
  LET h == [health EXCEPT ![a] = Snapshot(status, retryAt, "monitor")]
  IN  /\ runs[i].kind \in {"full", "periodic", "timer"}
      /\ Answers(a, status, retryAt)
      /\ health' = h
      /\ IF stopped /\ status # "unavailable"
         THEN /\ runs' = [runs EXCEPT ![i] = NoRun]      \* the store is closed
              /\ UNCHANGED <<row, open, timer, periodic>>
         ELSE /\ Verdict(a, status)
              /\ Advance(i, a, h)
      /\ UNCHANGED <<now, serving, provider, stopped>>

TestAnswered(i, a, status, retryAt) ==
  LET h == [health EXCEPT ![a] = Snapshot(status, retryAt, "admin")]
  IN  /\ runs[i].kind = "test"
      /\ Answers(a, status, retryAt)
      /\ health' = h
      /\ TestVerdict(a, status, runs[i].was[a])
      /\ Advance(i, a, h)
      /\ UNCHANGED <<now, serving, provider, stopped>>

(* PATCH with credentials: the candidate token is checked, and stored when *)
(* it is healthy.  The row's status stays as it is.                        *)
PatchAnswered(i, a, good) ==
  LET h == IF good THEN [health EXCEPT ![a] = Snapshot("healthy", Never, "admin")] ELSE health
  IN  /\ runs[i].kind = "patch"
      /\ health' = h
      /\ provider' = IF good /\ row[a] # "none" THEN [provider EXCEPT ![a] = "ok"] ELSE provider
      /\ Advance(i, a, h)
      /\ UNCHANGED <<now, row, open, serving, stopped, events>>

Answered(i) ==
  \E a \in runs[i].todo :
    \/ \E status \in {"healthy", "authentication_error", "suspended", "unavailable"},
          retryAt \in {Never} \cup {now + m : m \in Mutes} :
         MonitorAnswered(i, a, status, retryAt) \/ TestAnswered(i, a, status, retryAt)
    \/ \E good \in BOOLEAN : PatchAnswered(i, a, good)

-----------------------------------------------------------------------------
(* The others                                                              *)

Act == /\ ~stopped /\ events < MaxEvents
       /\ events' = events + 1

StartTest(i, a, kind) ==
  /\ Act /\ Free(i) /\ row[a] # "none"
  /\ runs' = [runs EXCEPT ![i] = [kind |-> kind, todo |-> {a}, of |-> {a}, was |-> row]]
  /\ UNCHANGED <<now, row, health, timer, periodic, open, serving, provider, stopped>>

PatchStatus(a, status) ==
  /\ Act /\ row[a] # "none" /\ row[a] # status
  /\ SetStatus(a, status)
  /\ UNCHANGED <<now, health, timer, periodic, runs, open, serving, provider, stopped>>

DeleteAccount(a) ==
  /\ Act /\ row[a] # "none"
  /\ row' = [row EXCEPT ![a] = "none"]
  /\ health' = [health EXCEPT ![a] = NoSnapshot]
  /\ UNCHANGED <<now, timer, periodic, runs, open, serving, provider, stopped>>

RequestStarts(a) ==
  /\ Act /\ row[a] = "active" /\ a \notin open /\ a \notin serving
  /\ serving' = serving \cup {a}
  /\ UNCHANGED <<now, row, health, timer, periodic, runs, open, provider, stopped>>

(* release(true): recordSuccess closes the circuit and the row is written  *)
(* active, whatever an administrator made of it meanwhile.                 *)
RequestSucceeds(a) ==
  /\ a \in serving
  /\ serving' = serving \ {a} /\ open' = open \ {a}
  /\ SetStatus(a, "active")
  /\ UNCHANGED <<now, health, timer, periodic, runs, provider, stopped, events>>

(* handleAccountFailure for a suspended account: the row, and the hook     *)
(* onAccountSuspended with the registry and a scheduled check.             *)
RequestFindsHold(a, retryAt) ==
  /\ a \in serving /\ provider[a] = "muted"
  /\ serving' = serving \ {a} /\ open' = open \cup {a}
  /\ SetStatus(a, "error")
  /\ health' = [health EXCEPT ![a] = Snapshot("suspended", retryAt, "traffic")]
  /\ timer' = [timer EXCEPT ![a] = Scheduled(@, retryAt)]
  /\ UNCHANGED <<now, periodic, runs, provider, stopped, events>>

(* The same for a rejected token; any other failure may open the circuit.  *)
RequestFails(a) ==
  /\ a \in serving
  /\ serving' = serving \ {a} /\ open' = open \cup {a}
  /\ IF provider[a] = "dead" THEN SetStatus(a, "error") ELSE UNCHANGED row
  /\ UNCHANGED <<now, health, timer, periodic, runs, provider, stopped, events>>

CooldownEnds(a) ==
  /\ a \in open
  /\ open' = open \ {a}
  /\ UNCHANGED <<now, row, health, timer, periodic, runs, serving, provider, stopped, events>>

ProviderChanges(a, state) ==
  /\ Act /\ provider[a] # state
  /\ provider' = [provider EXCEPT ![a] = state]
  /\ UNCHANGED <<now, row, health, timer, periodic, runs, open, serving, stopped>>

(* onClose, once the requests in flight are over.                          *)
Stop ==
  /\ ~stopped /\ serving = {}
  /\ \A i \in 1..MaxRuns : runs[i].kind \notin {"test", "patch"}
  /\ stopped' = TRUE
  /\ timer' = [a \in Accounts |-> NoTimer] /\ periodic' = Never
  /\ health' = [a \in Accounts |-> NoSnapshot]
  /\ UNCHANGED <<now, row, runs, open, serving, provider, events>>

Tick ==
  /\ now < MaxTime
  /\ now' = now + 1
  /\ UNCHANGED <<row, health, timer, periodic, runs, open, serving, provider, stopped, events>>

-----------------------------------------------------------------------------
(* The process starts with the rows of the last one and checks them all.   *)
Init ==
  /\ now = 0 /\ events = 0 /\ stopped = FALSE
  /\ row \in [Accounts -> FirstRows]
  /\ provider \in [Accounts -> FirstAnswers]
  /\ health = [a \in Accounts |-> NoSnapshot]
  /\ timer = [a \in Accounts |-> NoTimer]
  /\ periodic = Rearmed
  /\ open = {} /\ serving = {}
  /\ runs = [i \in 1..MaxRuns |->
              IF i = 1 /\ Selected("full", Accounts) # {}
              THEN [kind |-> "full", todo |-> Selected("full", Accounts),
                    of |-> Accounts, was |-> row]
              ELSE NoRun]

Next ==
  \/ \E i \in 1..MaxRuns :
       \/ PeriodicFires(i)
       \/ Answered(i)
       \/ \E a \in Accounts :
            TimerFires(i, a) \/ \E kind \in {"test", "patch"} : StartTest(i, a, kind)
  \/ \E a \in Accounts :
       \/ \E status \in {"active", "inactive"} : PatchStatus(a, status)
       \/ DeleteAccount(a)
       \/ RequestStarts(a) \/ RequestSucceeds(a) \/ RequestFails(a)
       \/ \E retryAt \in {Never} \cup {now + m : m \in Mutes} : RequestFindsHold(a, retryAt)
       \/ CooldownEnds(a)
       \/ \E state \in {"ok", "dead", "muted"} : ProviderChanges(a, state)
  \/ Stop
  \/ Tick

Spec == Init /\ [][Next]_vars

(* Timers fire, and a check's HTTP call ends within its ten seconds.  The  *)
(* fairness of timers is strong only because MaxRuns, which is a bound of  *)
(* the model, may make a run wait.                                         *)
FairSpec ==
  /\ Spec
  /\ WF_vars(Tick)
  /\ SF_vars(\E i \in 1..MaxRuns : PeriodicFires(i))
  /\ \A i \in 1..MaxRuns : WF_vars(Answered(i))
  /\ \A a \in Accounts : SF_vars(\E i \in 1..MaxRuns : TimerFires(i, a))

-----------------------------------------------------------------------------
(* A hold that the monitor or a request found is followed up: as long as   *)
(* the account exists, a timer is set or a run is under way that sets it,  *)
(* whichever timer was kept, replaced or used up in between.               *)
FollowsUp(i, a) ==
  \/ runs[i].kind \in {"full", "periodic"}
  \/ runs[i].kind = "timer" /\ a \in runs[i].of

HoldFollowedUp ==
  \A a \in Accounts :
    /\ ~stopped /\ row[a] # "none"
    /\ health[a].status = "suspended" /\ health[a].by # "admin"
    => timer[a] # NoTimer \/ \E i \in 1..MaxRuns : FollowsUp(i, a)

(* After stop() no timer is set again and no run that is still in flight   *)
(* writes an account row.                                                  *)
StopIsFinal ==
  [][stopped => /\ row' = row /\ periodic' = Never
                /\ timer' = [a \in Accounts |-> NoTimer]]_vars

(* An account that the provider accepts again and that nobody disabled     *)
(* returns to service: its row becomes active and its circuit closes,      *)
(* even when no cooldown ever ends by itself.                              *)
HoldsEnd ==
  \A a \in Accounts :
    <>[](provider[a] = "ok" /\ row[a] \in {"active", "error"} /\ ~stopped)
      => <>[](row[a] = "active" /\ a \notin open)
=============================================================================
