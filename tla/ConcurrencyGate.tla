-------------------------- MODULE ConcurrencyGate ---------------------------
(***************************************************************************)
(* The ConcurrencyGate class of src/server/gateway/concurrency.ts: a       *)
(* counting gate with a foreground and a background FIFO queue.  The       *)
(* gateway builds one for the whole process and one per provider account.  *)
(*                                                                         *)
(* JavaScript runs one handler at a time: tryAcquire, acquire up to the    *)
(* promise it returns, a timer, an abort listener and a release callback   *)
(* (with the drain it ends in) are each one step.  A caller is one chat    *)
(* request after another; each request has one AbortSignal.                *)
(***************************************************************************)
EXTENDS Integers, Sequences, SequencesExt, FiniteSets

CONSTANTS
  Callers,   \* the callers of the gate
  Limit,     \* constructor argument limit
  MaxQueue   \* constructor argument maxQueue

ASSUME GateAssumption == Limit \in Nat \ {0} /\ MaxQueue \in Nat

VARIABLES
  active,    \* this.active
  queue,     \* this.foreground and this.background, oldest waiter first
  phase,     \* where each caller is with its permit
  aborted    \* the callers whose AbortSignal is aborted

vars == <<active, queue, phase, aborted>>

Priority == {"foreground", "background"}

(* "released": the caller still has a release callback it already called.  *)
Phase == {"idle", "queued", "holding", "released"}

TypeOK ==
  /\ active \in 0..Limit
  /\ queue \in [Priority -> Seq(Callers)]
  /\ phase \in [Callers -> Phase]
  /\ aborted \subseteq Callers

Init ==
  /\ active = 0
  /\ queue = [p \in Priority |-> <<>>]
  /\ phase = [c \in Callers |-> "idle"]
  /\ aborted = {}

Holders == {c \in Callers : phase[c] = "holding"}
Queued  == {c \in Callers : phase[c] = "queued"}

getQueued == Len(queue["foreground"]) + Len(queue["background"])

-----------------------------------------------------------------------------
(* Acquiring a permit.                                                     *)

AvailableIncludingLimit == active <= Limit /\ getQueued = 0

(* tryAcquire succeeds.                                                    *)
Available == active < Limit /\ getQueued = 0

EnqueueableEvenAborted(c) == getQueued < MaxQueue

(* acquire may queue the caller: its signal is live and there is room.     *)
Enqueueable(c) == c \notin aborted /\ getQueued < MaxQueue

PushFirst(q, c) == <<c>> \o q

Push(q, c) == Append(q, c)

(* acquire(): a permit at once, or undefined at once, or a place at the    *)
(* end of the queue of the caller's priority.  A refused caller is idle.   *)
Acquire(c, p) ==
  /\ phase[c] = "idle"
  /\ \/ /\ Available
        /\ active' = active + 1
        /\ phase' = [phase EXCEPT ![c] = "holding"]
        /\ UNCHANGED <<queue, aborted>>
     \/ /\ ~Available /\ Enqueueable(c)
        /\ queue' = [queue EXCEPT ![p] = Push(@, c)]
        /\ phase' = [phase EXCEPT ![c] = "queued"]
        /\ UNCHANGED <<active, aborted>>
     \/ /\ ~Available /\ ~Enqueueable(c)
        /\ UNCHANGED vars

(* tryAcquire() as the router calls it: a permit at once or nothing.       *)
TryAcquire(c) ==
  /\ phase[c] = "idle" /\ Available
  /\ active' = active + 1
  /\ phase' = [phase EXCEPT ![c] = "holding"]
  /\ UNCHANGED <<queue, aborted>>

-----------------------------------------------------------------------------
(* Settling a waiter without a permit.                                     *)

SettleForegroundOnly(c) ==
  /\ phase[c] = "queued"
  /\ \E i \in 1..Len(queue["foreground"]) :
       /\ queue["foreground"][i] = c
       /\ queue' = [queue EXCEPT !["foreground"] = RemoveAt(@, i)]
  /\ phase' = [phase EXCEPT ![c] = "idle"]

(* settleUnavailable: remove the waiter from its queue and resolve its     *)
(* promise with undefined.                                                 *)
SettleUnavailable(c) ==
  /\ phase[c] = "queued"
  /\ \E p \in Priority : \E i \in 1..Len(queue[p]) :
       /\ queue[p][i] = c
       /\ queue' = [queue EXCEPT ![p] = RemoveAt(@, i)]
  /\ phase' = [phase EXCEPT ![c] = "idle"]

Timeout(c) ==
  /\ SettleUnavailable(c)
  /\ UNCHANGED <<active, aborted>>

(* The waiter is answered but keeps its place in the queue.                *)
AbortLeavingWaiter(c) ==
  /\ c \notin aborted
  /\ aborted' = aborted \cup {c}
  /\ phase' = [phase EXCEPT ![c] = IF @ = "queued" THEN "idle" ELSE @]
  /\ UNCHANGED <<active, queue>>

(* The request's AbortSignal fires; the listener of a queued waiter runs   *)
(* in the same dispatch.  A caller that holds a permit keeps it.           *)
Abort(c) ==
  /\ c \notin aborted
  /\ aborted' = aborted \cup {c}
  /\ \/ SettleUnavailable(c)
     \/ phase[c] # "queued" /\ UNCHANGED <<queue, phase>>
  /\ UNCHANGED active

(* The caller's next request brings a fresh signal and forgets the release *)
(* callback of the last one.                                               *)
NextRequest(c) ==
  /\ phase[c] \in {"idle", "released"}
  /\ c \in aborted \/ phase[c] = "released"
  /\ phase' = [phase EXCEPT ![c] = "idle"]
  /\ aborted' = aborted \ {c}
  /\ UNCHANGED <<active, queue>>

-----------------------------------------------------------------------------
(* Releasing a permit.                                                     *)

BackgroundFirst == <<"background", "foreground">>

(* The order in which drain looks at the queues.                           *)
Order == <<"foreground", "background">>

Waiting == queue[Order[1]] \o queue[Order[2]]

(* The waiters granted when drain has shifted the first n of Waiting: the  *)
(* aborted ones are dropped.                                               *)
Granted(n) == {i \in 1..n : Waiting[i] \notin aborted}

(* How many waiters drain shifts when free permits are available: it stops *)
(* with the last free permit or with the last waiter.                      *)
Shifted(free) ==
  CHOOSE n \in 0..Len(Waiting) :
    /\ n = Len(Waiting) \/ Cardinality(Granted(n)) = free
    /\ \A m \in 0..(n - 1) : Cardinality(Granted(m)) < free

(* drain(), entered with the counter at count and the callers in ph.       *)
Drain(count, ph) ==
  LET n   == Shifted(Limit - count)
      got == {Waiting[i] : i \in Granted(n)}
      out == {Waiting[i] : i \in (1..n) \ Granted(n)}
      fst == queue[Order[1]]
      snd == queue[Order[2]]
  IN  /\ active' = count + Cardinality(Granted(n))
      /\ queue' = [queue EXCEPT
                     ![Order[1]] = SubSeq(fst, n + 1, Len(fst)),
                     ![Order[2]] = IF n <= Len(fst) THEN snd
                                   ELSE SubSeq(snd, n - Len(fst) + 1, Len(snd))]
      /\ phase' = [c \in Callers |-> IF c \in got THEN "holding"
                                     ELSE IF c \in out THEN "idle" ELSE ph[c]]

NoDrain(count, ph) == active' = count /\ phase' = ph /\ UNCHANGED queue

Decremented == IF active = 0 THEN 0 ELSE active - 1

Freed(c) == [phase EXCEPT ![c] = "released"]

(* The callback returns a permit every time it is called.                  *)
ReleaseEveryCall(c) ==
  /\ phase[c] \in {"holding", "released"}
  /\ Drain(Decremented, Freed(c))
  /\ UNCHANGED aborted

ReleaseWithoutDrain(c) ==
  /\ phase[c] = "holding"
  /\ NoDrain(Decremented, Freed(c))
  /\ UNCHANGED aborted

(* The release callback: the first call returns the permit and drains the  *)
(* queues, a later call returns at once.                                   *)
Release(c) ==
  /\ phase[c] \in {"holding", "released"}
  /\ \/ phase[c] = "released" /\ UNCHANGED vars
     \/ /\ phase[c] = "holding"
        /\ Drain(Decremented, Freed(c))
        /\ UNCHANGED aborted

-----------------------------------------------------------------------------
Next ==
  \E c \in Callers :
    \/ \E p \in Priority : Acquire(c, p)
    \/ TryAcquire(c)
    \/ Timeout(c)
    \/ Abort(c)
    \/ Release(c)
    \/ NextRequest(c)

Spec == Init /\ [][Next]_vars

(* Two kinds of fairness, each the premise of one liveness property: every *)
(* holder eventually calls its release callback (the route's finalizers    *)
(* do), nothing being said of timers;                                      *)
HoldersRelease == \A c \in Callers : WF_vars(phase[c] = "holding" /\ Release(c))

(* and the waiters' timers fire, nothing being said of the holders.        *)
TimersFire == \A c \in Callers : WF_vars(Timeout(c))

-----------------------------------------------------------------------------
(* Properties.                                                             *)

(* The counter is the number of callers with an unreturned permit, and it  *)
(* never passes the limit: no release, timeout, abort or second call of a  *)
(* release callback leaks a permit or invents one (concurrency.ts:28-32,   *)
(* 88-92, 103-104).                                                        *)
PermitsAccounted == active = Cardinality(Holders) /\ active <= Limit

(* A caller waits only while every permit is out: a freed permit is never  *)
(* parked while someone waits (concurrency.ts:29, 90, 94-106).             *)
NoIdlePermit == getQueued > 0 => active = Limit

(* A caller is in exactly one place of one queue while its promise is      *)
(* pending and in none once it is settled, no waiter has an aborted signal *)
(* and the bound on both queues together holds, whatever the order of      *)
(* timeouts, aborts and grants (concurrency.ts:37, 46-51, 108-114).        *)
EntriesPending ==
  \A p \in Priority : \A i \in 1..Len(queue[p]) :
    phase[queue[p][i]] = "queued" /\ queue[p][i] \notin aborted

EntriesDistinct ==
  \A p, r \in Priority : \A i \in 1..Len(queue[p]), j \in 1..Len(queue[r]) :
    queue[p][i] = queue[r][j] => p = r /\ i = j

PendingEntered ==
  \A c \in Callers : phase[c] = "queued" =>
    \E p \in Priority : \E i \in 1..Len(queue[p]) : queue[p][i] = c

QueuesExact ==
  getQueued <= MaxQueue /\ EntriesPending /\ EntriesDistinct /\ PendingEntered

Ahead(c, d, p) == \E i, j \in 1..Len(queue[p]) :
  i < j /\ queue[p][i] = c /\ queue[p][j] = d

InQueue(c, p) == \E i \in 1..Len(queue[p]) : queue[p][i] = c

(* No caller gets a permit past one that waits ahead of it: an older       *)
(* waiter of its own class, any foreground waiter when it is background,   *)
(* or any waiter at all when it was not queued (concurrency.ts:29, 96).    *)
Overtakes(d) ==
  /\ d \notin Holders /\ d \in Holders'
  /\ \E c \in Callers :
       /\ phase[c] = "queued" /\ phase'[c] = "queued"
       /\ \/ phase[d] # "queued"
          \/ \E p \in Priority : Ahead(c, d, p)
          \/ InQueue(c, "foreground") /\ InQueue(d, "background")

NoOvertaking == [][\A d \in Callers : ~Overtakes(d)]_vars

(* A foreground waiter is settled as long as the holders give their        *)
(* permits back, with no help from its timer.                              *)
ForegroundServed ==
  HoldersRelease =>
    \A c \in Callers : InQueue(c, "foreground") ~> ~InQueue(c, "foreground")

(* Every waiter is settled as long as timers fire, even when no permit is  *)
(* ever returned.                                                          *)
EveryWaiterSettles ==
  TimersFire => \A c \in Callers : phase[c] = "queued" ~> phase[c] # "queued"

Permits == INSTANCE PermitPool WITH holders <- Holders, waiting <- Queued

(* The gate implements the permit pool (concurrency.ts as a whole).        *)
ImplementsPermitPool == Permits!Spec
=============================================================================
