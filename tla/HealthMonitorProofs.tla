------------------------ MODULE HealthMonitorProofs -------------------------
(***************************************************************************)
(* Proofs about HealthMonitor for every set of accounts, every interval,   *)
(* every delay a timer can keep, and any number of runs in flight.         *)
(***************************************************************************)
EXTENDS HealthMonitor, TLAPS

Kinds == {"none", "full", "periodic", "timer", "test", "patch"}

Snapshots ==
  [status  : {"none", "healthy", "authentication_error", "suspended", "unavailable"},
   retryAt : Int,
   by      : {"none", "monitor", "admin", "traffic"}]

Timers == [runAt : Int, firesAt : Int]

Runs ==
  [kind : Kinds, todo : SUBSET Accounts, of : SUBSET Accounts,
   was : {<<>>} \cup [Accounts -> Statuses]]

Types ==
  /\ now \in Nat /\ stopped \in BOOLEAN
  /\ row \in [Accounts -> Statuses]
  /\ health \in [Accounts -> Snapshots]
  /\ timer \in [Accounts -> Timers]
  /\ runs \in [1..MaxRuns -> Runs]

(* A run answers for accounts it was started for.                          *)
RunsBounded == \A i \in 1..MaxRuns : runs[i].todo \subseteq runs[i].of

(* A check of the administrator has read the row it may write back.        *)
TestsSawRows ==
  \A i \in 1..MaxRuns : runs[i].kind = "test" => runs[i].was \in [Accounts -> Statuses]

(* Nothing that would write or schedule is left when the process stops.    *)
Quiet ==
  stopped =>
    /\ periodic = Never /\ serving = {}
    /\ \A a \in Accounts : timer[a] = NoTimer
    /\ \A i \in 1..MaxRuns : runs[i].kind \notin {"test", "patch"}

(* The inductive invariant.                                                *)
IInv == Types /\ RunsBounded /\ TestsSawRows /\ Quiet /\ HoldFollowedUp

-----------------------------------------------------------------------------
(* Timers.                                                                 *)

LEMMA ScheduledFacts ==
  ASSUME Types, NEW retryAt \in Int, NEW current \in Timers
  PROVE  /\ Scheduled(current, retryAt) \in Timers
         /\ ~stopped \/ current # NoTimer => Scheduled(current, retryAt) # NoTimer
         /\ stopped => Scheduled(current, retryAt) = current
  <1>1. RunAt(retryAt) \in Nat
    BY MonitorAssumption DEF Types, RunAt, FallbackDelay
  <1>2. \A delay \in Int : After(delay) \in Int
    BY MonitorAssumption DEF Types, After, Capped
  <1>3. RunAt(retryAt) - now \in Int
    BY <1>1 DEF Types
  <1> DEFINE fresh == [runAt |-> RunAt(retryAt), firesAt |-> After(RunAt(retryAt) - now)]
  <1>4. fresh \in Timers
    BY <1>1, <1>2, <1>3 DEF Timers
  <1>5. fresh # NoTimer
    <2>1. fresh.runAt # Never
      BY <1>1 DEF Never
    <2> QED BY <2>1 DEF NoTimer
  <1> HIDE DEF fresh
  <1>6. \/ Scheduled(current, retryAt) = current /\ (stopped \/ current # NoTimer)
        \/ Scheduled(current, retryAt) = fresh /\ ~stopped
    BY DEF Scheduled, fresh
  <1> QED BY <1>4, <1>5, <1>6

LEMMA AllScheduledFacts ==
  ASSUME Types, NEW h \in [Accounts -> Snapshots], NEW a \in Accounts
  PROVE  /\ AllScheduled(h)[a] \in Timers
         /\ timer[a] # NoTimer => AllScheduled(h)[a] # NoTimer
         /\ ~stopped /\ h[a].status = "suspended" => AllScheduled(h)[a] # NoTimer
         /\ stopped => AllScheduled(h)[a] = timer[a]
  <1>1. timer[a] \in Timers /\ h[a].retryAt \in Int
    BY DEF Types, Snapshots
  <1>2. AllScheduled(h)[a] = IF h[a].status = "suspended"
                             THEN Scheduled(timer[a], h[a].retryAt) ELSE timer[a]
    BY DEF AllScheduled
  <1> QED BY <1>1, <1>2, ScheduledFacts

(* A finished run leaves a timer for every hold it should follow up.       *)
LEMMA TimersAfterFacts ==
  ASSUME Types, NEW h \in [Accounts -> Snapshots], NEW kind \in Kinds, NEW of
  PROVE  /\ TimersAfter(kind, of, h) \in [Accounts -> Timers]
         /\ \A a \in Accounts :
              /\ timer[a] # NoTimer => TimersAfter(kind, of, h)[a] # NoTimer
              /\ stopped => TimersAfter(kind, of, h)[a] = timer[a]
              /\ /\ ~stopped /\ h[a].status = "suspended"
                 /\ kind \in {"full", "periodic"} \/ (kind = "timer" /\ a \in of)
                 => TimersAfter(kind, of, h)[a] # NoTimer
  <1> DEFINE t == TimersAfter(kind, of, h)
  <1>1. \A a \in Accounts : timer[a] \in Timers
    BY DEF Types
  <1>2. CASE kind \in {"full", "periodic"}
    <2>1. t = AllScheduled(h)
      BY <1>2 DEF TimersAfter
    <2>2. t = [a \in Accounts |-> t[a]]
      BY <2>1 DEF AllScheduled
    <2> QED BY <1>2, <2>1, <2>2, AllScheduledFacts
  <1>3. CASE kind = "timer"
    <2>1. t = [a \in Accounts |-> IF a \in of THEN AllScheduled(h)[a] ELSE timer[a]]
      BY <1>3 DEF TimersAfter
    <2> HIDE DEF t
    <2> QED BY <1>1, <1>3, <2>1, AllScheduledFacts DEF t
  <1>4. CASE kind \notin {"full", "periodic", "timer"}
    <2>1. t = timer
      BY <1>4 DEF TimersAfter
    <2> QED BY <1>4, <2>1 DEF Types
  <1> QED BY <1>2, <1>3, <1>4

-----------------------------------------------------------------------------
(* Steps.                                                                  *)

LEMMA MonitorInit == Init => IInv
  <1> SUFFICES ASSUME Init PROVE IInv
    OBVIOUS
  <1> USE DEF Init
  <1>1. row \in [Accounts -> Statuses]
    BY MonitorAssumption DEF Statuses
  <1>2. health \in [Accounts -> Snapshots] /\ timer \in [Accounts -> Timers]
    BY DEF NoSnapshot, Snapshot, Snapshots, NoTimer, Timers, Never
  <1>3. Selected("full", Accounts) \subseteq Accounts
    BY DEF Selected
  <1>4. /\ NoRun \in Runs
        /\ [kind |-> "full", todo |-> Selected("full", Accounts),
            of |-> Accounts, was |-> row] \in Runs
    BY <1>1, <1>3 DEF Runs, NoRun, Kinds
  <1>5. runs \in [1..MaxRuns -> Runs]
    BY <1>4
  <1>6. RunsBounded
    BY <1>3 DEF RunsBounded, NoRun
  <1>7. HoldFollowedUp
    BY DEF HoldFollowedUp, NoSnapshot, Snapshot
  <1>8. TestsSawRows
    BY DEF TestsSawRows, NoRun
  <1> QED BY <1>1, <1>2, <1>5, <1>6, <1>7, <1>8 DEF IInv, Types, Quiet

(* What follows up a hold at a is kept by the steps that touch neither     *)
(* timers nor runs.                                                        *)
LEMMA OthersKeep ==
  ASSUME IInv, UNCHANGED <<timer, runs, stopped>>, periodic' = periodic,
         now' \in Nat, row' \in [Accounts -> Statuses], health' \in [Accounts -> Snapshots],
         stopped => serving' = {},
         \A a \in Accounts :
           \/ health'[a] = health[a] /\ (row[a] = "none" => row'[a] = "none")
           \/ health'[a] = NoSnapshot
  PROVE  IInv'
  <1>1. Types' /\ RunsBounded' /\ TestsSawRows' /\ Quiet'
    BY DEF IInv, Types, RunsBounded, TestsSawRows, Quiet
  <1>2. HoldFollowedUp'
    BY DEF IInv, HoldFollowedUp, FollowsUp, NoSnapshot, Snapshot
  <1> QED BY <1>1, <1>2 DEF IInv

LEMMA SetStatusFacts ==
  ASSUME Types, NEW a \in Accounts, NEW status \in Statuses, SetStatus(a, status)
  PROVE  /\ row' \in [Accounts -> Statuses]
         /\ \A b \in Accounts : row[b] = "none" => row'[b] = "none"
  BY DEF Types, SetStatus

LEMMA LaunchKeeps ==
  ASSUME IInv, ~stopped, UNCHANGED <<now, row, health, serving, stopped>>,
         NEW i \in 1..MaxRuns, NEW kind \in {"periodic", "timer"},
         NEW of \in SUBSET Accounts, NEW t \in [Accounts -> Timers], NEW p,
         \A a \in Accounts : t[a] = timer[a] \/ a \in of,
         kind = "periodic" => t = timer,
         Launch(i, kind, of, t, p)
  PROVE  IInv'
  <1>1. CASE Selected(kind, of) = {}
    <2>1. /\ runs' = runs
          /\ timer' = [a \in Accounts |->
                        IF a \in of /\ health[a].status = "suspended"
                        THEN Scheduled(t[a], health[a].retryAt) ELSE t[a]]
      BY <1>1 DEF Launch
    <2>2. \A a \in Accounts : health[a].retryAt \in Int /\ t[a] \in Timers
      BY DEF IInv, Types, Snapshots
    <2>3. \A a \in Accounts : /\ Scheduled(t[a], health[a].retryAt) \in Timers
                              /\ Scheduled(t[a], health[a].retryAt) # NoTimer
      BY <2>2, ScheduledFacts DEF IInv
    <2>4. timer' \in [Accounts -> Timers]
      BY <2>1, <2>2, <2>3
    <2>5. \A a \in Accounts : health[a].status = "suspended" /\ timer[a] # NoTimer
                                => timer'[a] # NoTimer
      BY <2>1, <2>3
    <2>6. \A a \in of : health[a].status = "suspended" => timer'[a] # NoTimer
      BY <2>1, <2>3
    <2>7. Types' /\ RunsBounded' /\ TestsSawRows' /\ Quiet'
      BY <2>1, <2>4 DEF IInv, Types, RunsBounded, TestsSawRows, Quiet
    <2>8. HoldFollowedUp'
      BY <2>1, <2>5, <2>6 DEF IInv, HoldFollowedUp, FollowsUp
    <2> QED BY <2>7, <2>8 DEF IInv
  <1>2. CASE Selected(kind, of) # {}
    <2> DEFINE run == [kind |-> kind, todo |-> Selected(kind, of), of |-> of, was |-> row]
    <2>1. timer' = t /\ runs' = [runs EXCEPT ![i] = run] /\ runs[i] = NoRun
      BY <1>2 DEF Launch, Free
    <2>2. Selected(kind, of) \subseteq of
      BY DEF Selected
    <2>3. run \in Runs /\ run.todo \subseteq run.of /\ run.kind = kind /\ run.of = of
      BY <2>2 DEF Runs, Kinds, IInv, Types
    <2> HIDE DEF run
    <2>4. /\ runs' \in [1..MaxRuns -> Runs]
          /\ \A j \in 1..MaxRuns : runs'[j] = IF j = i THEN run ELSE runs[j]
      BY <2>1, <2>3 DEF IInv, Types
    <2>5. Types' /\ RunsBounded' /\ TestsSawRows' /\ Quiet'
      BY <2>1, <2>3, <2>4 DEF IInv, Types, RunsBounded, TestsSawRows, Quiet
    <2>6. runs[i].kind = "none"
      BY <2>1 DEF NoRun
    <2>7. \A a \in Accounts, j \in 1..MaxRuns : FollowsUp(j, a) => FollowsUp(j, a)'
      BY <2>4, <2>6 DEF FollowsUp
    <2>8. \A a \in Accounts : kind = "periodic" \/ a \in of => FollowsUp(i, a)'
      BY <2>3, <2>4 DEF FollowsUp
    <2>9. HoldFollowedUp'
      BY <2>1, <2>7, <2>8 DEF IInv, HoldFollowedUp
    <2> QED BY <2>5, <2>9 DEF IInv
  <1> QED BY <1>1, <1>2

(* A run goes on after an answer about a, which h has recorded.            *)
LEMMA AdvanceKeeps ==
  ASSUME IInv, NEW i \in 1..MaxRuns, NEW a \in runs[i].todo,
         NEW h \in [Accounts -> Snapshots], health' = h,
         \A b \in Accounts : b # a => h[b] = health[b],
         h[a] = health[a] \/ h[a].by = "admin" \/ runs[i].kind \in {"full", "periodic", "timer"},
         Advance(i, a, h),
         now' = now, UNCHANGED <<stopped, serving>>,
         row' \in [Accounts -> Statuses],
         \A b \in Accounts : row[b] = "none" => row'[b] = "none"
  PROVE  IInv'
  <1> DEFINE run == runs[i]
  <1>0. run \in Runs /\ a \in run.of /\ a \in Accounts
    BY DEF IInv, Types, RunsBounded, Runs
  <1>a. run.kind \in Kinds
    BY <1>0 DEF Runs
  <1>1. CASE run.todo \ {a} = {}
    <2>1. /\ runs' = [runs EXCEPT ![i] = NoRun]
          /\ timer' = TimersAfter(run.kind, run.of, h)
          /\ periodic' = PeriodicAfter(run.kind)
      BY <1>1 DEF Advance
    <2>2. /\ timer' \in [Accounts -> Timers]
          /\ \A b \in Accounts :
               /\ timer[b] # NoTimer => timer'[b] # NoTimer
               /\ stopped => timer'[b] = timer[b]
               /\ ~stopped /\ h[b].status = "suspended" /\ FollowsUp(i, b) => timer'[b] # NoTimer
      BY <1>a, <2>1, TimersAfterFacts DEF IInv, FollowsUp
    <2>3. /\ runs' \in [1..MaxRuns -> Runs]
          /\ \A j \in 1..MaxRuns : runs'[j] = IF j = i THEN NoRun ELSE runs[j]
      BY <2>1 DEF IInv, Types, Runs, NoRun, Kinds
    <2>4. stopped => periodic' = Never
      BY <2>1 DEF IInv, Quiet, PeriodicAfter, Rearmed
    <2>5. Types' /\ RunsBounded' /\ TestsSawRows' /\ Quiet'
      BY <2>2, <2>3, <2>4 DEF IInv, Types, RunsBounded, TestsSawRows, Quiet, NoRun
    <2>6. \A b \in Accounts, j \in 1..MaxRuns : j # i /\ FollowsUp(j, b) => FollowsUp(j, b)'
      BY <2>3 DEF FollowsUp
    <2>7. HoldFollowedUp'
      <3> SUFFICES ASSUME NEW b \in Accounts, ~stopped, row'[b] # "none",
                          h[b].status = "suspended", h[b].by # "admin"
                   PROVE  timer'[b] # NoTimer \/ \E j \in 1..MaxRuns : FollowsUp(j, b)'
        BY DEF HoldFollowedUp
      <3>1. CASE b = a /\ run.kind \in {"full", "periodic", "timer"}
        BY <1>0, <2>2, <3>1 DEF FollowsUp
      <3>2. CASE h[b] = health[b]
        BY <2>2, <2>6, <3>2 DEF IInv, HoldFollowedUp
      <3> QED BY <3>1, <3>2
    <2> QED BY <2>5, <2>7 DEF IInv
  <1>2. CASE run.todo \ {a} # {}
    <2>1. /\ runs' = [runs EXCEPT ![i].todo = run.todo \ {a}]
          /\ UNCHANGED <<timer, periodic>>
      BY <1>2 DEF Advance
    <2>2. /\ runs' \in [1..MaxRuns -> Runs]
          /\ \A j \in 1..MaxRuns : /\ runs'[j].kind = runs[j].kind
                                   /\ runs'[j].of = runs[j].of
                                   /\ runs'[j].todo \subseteq runs[j].todo
      BY <1>0, <2>1 DEF IInv, Types, Runs
    <2>3. Types' /\ RunsBounded' /\ TestsSawRows' /\ Quiet'
      BY <2>1, <2>2 DEF IInv, Types, RunsBounded, TestsSawRows, Quiet
    <2>4. \A b \in Accounts, j \in 1..MaxRuns : FollowsUp(j, b) => FollowsUp(j, b)'
      BY <2>2 DEF FollowsUp
    <2>5. HoldFollowedUp'
      <3> SUFFICES ASSUME NEW b \in Accounts, ~stopped, row'[b] # "none",
                          h[b].status = "suspended", h[b].by # "admin"
                   PROVE  timer'[b] # NoTimer \/ \E j \in 1..MaxRuns : FollowsUp(j, b)'
        BY DEF HoldFollowedUp
      <3>1. CASE b = a /\ run.kind \in {"full", "periodic", "timer"}
        BY <1>0, <2>4, <3>1 DEF FollowsUp
      <3>2. CASE h[b] = health[b]
        BY <2>1, <2>4, <3>2 DEF IInv, HoldFollowedUp
      <3> QED BY <3>1, <3>2
    <2> QED BY <2>3, <2>5 DEF IInv
  <1> QED BY <1>1, <1>2

LEMMA PeriodicKeeps ==
  ASSUME IInv, NEW i \in 1..MaxRuns, PeriodicFires(i)
  PROVE  IInv'
  <1>1. ~stopped
    BY DEF PeriodicFires, IInv, Quiet
  <1>2. timer \in [Accounts -> Timers] /\ Accounts \in SUBSET Accounts
    BY DEF IInv, Types
  <1> QED BY <1>1, <1>2, LaunchKeeps DEF PeriodicFires

LEMMA TimerKeeps ==
  ASSUME IInv, NEW i \in 1..MaxRuns, NEW a \in Accounts, TimerFires(i, a)
  PROVE  IInv'
  <1> DEFINE t == [timer EXCEPT ![a] = NoTimer]
  <1>1. ~stopped
    BY DEF TimerFires, IInv, Quiet
  <1>2. t \in [Accounts -> Timers] /\ \A b \in Accounts : t[b] = timer[b] \/ b \in {a}
    BY DEF IInv, Types, Timers, NoTimer, Never
  <1>3. Launch(i, "timer", {a}, t, periodic) /\ UNCHANGED <<now, row, health, serving, stopped>>
    BY DEF TimerFires
  <1> HIDE DEF t
  <1> QED BY <1>1, <1>2, <1>3, LaunchKeeps

Retries == {Never} \cup {now + m : m \in Mutes}

AnswerStatus == {"healthy", "authentication_error", "suspended", "unavailable"}

LEMMA RetriesAreDates == ASSUME Types PROVE Retries \subseteq Int
  BY MonitorAssumption DEF Types, Retries, Never

LEMMA MonitorAnsweredKeeps ==
  ASSUME IInv, NEW i \in 1..MaxRuns, NEW a \in runs[i].todo,
         NEW status \in AnswerStatus, NEW retryAt \in Retries,
         MonitorAnswered(i, a, status, retryAt)
  PROVE  IInv'
  <1> DEFINE h == [health EXCEPT ![a] = Snapshot(status, retryAt, "monitor")]
  <1>1. a \in Accounts
    BY DEF IInv, Types, Runs
  <1>2. /\ h \in [Accounts -> Snapshots] /\ health' = h
        /\ \A b \in Accounts : b # a => h[b] = health[b]
    BY <1>1, RetriesAreDates DEF IInv, Types, Snapshots, Snapshot, AnswerStatus, MonitorAnswered
  <1>3. /\ runs[i].kind \in {"full", "periodic", "timer"}
        /\ now' = now /\ UNCHANGED <<stopped, serving>>
    BY DEF MonitorAnswered
  <1>4. CASE /\ stopped /\ runs' = [runs EXCEPT ![i] = NoRun]
             /\ UNCHANGED <<row, open, timer, periodic>>
    <2>1. /\ runs' \in [1..MaxRuns -> Runs]
          /\ \A j \in 1..MaxRuns : runs'[j] = IF j = i THEN NoRun ELSE runs[j]
      BY <1>4 DEF IInv, Types, Runs, NoRun, Kinds
    <2> HIDE DEF h
    <2>2. Types' /\ RunsBounded' /\ TestsSawRows' /\ Quiet'
      BY <1>2, <1>3, <1>4, <2>1 DEF IInv, Types, RunsBounded, TestsSawRows, Quiet, NoRun
    <2> QED BY <1>3, <1>4, <2>2 DEF IInv, HoldFollowedUp
  <1>5. CASE Verdict(a, status) /\ Advance(i, a, h)
    <2>1. /\ row' \in [Accounts -> Statuses]
          /\ \A b \in Accounts : row[b] = "none" => row'[b] = "none"
      <3>1. \/ UNCHANGED row \/ SetStatus(a, "active") \/ SetStatus(a, "error")
        BY <1>5 DEF Verdict, AnswerStatus
      <3> QED BY <1>1, <3>1, SetStatusFacts DEF IInv, Types, Statuses
    <2> HIDE DEF h
    <2> QED BY <1>2, <1>3, <1>5, <2>1, AdvanceKeeps
  <1> HIDE DEF h
  <1> QED BY <1>4, <1>5 DEF MonitorAnswered, h

LEMMA TestAnsweredKeeps ==
  ASSUME IInv, NEW i \in 1..MaxRuns, NEW a \in runs[i].todo,
         NEW status \in AnswerStatus, NEW retryAt \in Retries,
         TestAnswered(i, a, status, retryAt)
  PROVE  IInv'
  <1> DEFINE h == [health EXCEPT ![a] = Snapshot(status, retryAt, "admin")]
  <1>1. a \in Accounts
    BY DEF IInv, Types, Runs
  <1>2. /\ h \in [Accounts -> Snapshots] /\ health' = h /\ h[a].by = "admin"
        /\ \A b \in Accounts : b # a => h[b] = health[b]
    BY <1>1, RetriesAreDates DEF IInv, Types, Snapshots, Snapshot, AnswerStatus, TestAnswered
  <1> HIDE DEF h
  <1>3. row' \in [Accounts -> Statuses] /\ \A b \in Accounts : row[b] = "none" => row'[b] = "none"
    <2>1. PICK s : SetStatus(a, s) /\ (s \in Statuses \/ s = runs[i].was[a])
      BY DEF TestAnswered, TestVerdict, Statuses
    <2>2. row' = IF row[a] = "none" THEN row ELSE [row EXCEPT ![a] = s]
      BY <2>1 DEF SetStatus
    <2>3. s \in Statuses
      BY <1>1, <2>1 DEF IInv, TestsSawRows, TestAnswered
    <2> QED BY <1>1, <2>1, <2>3, SetStatusFacts DEF IInv
  <1> QED BY <1>2, <1>3, AdvanceKeeps DEF TestAnswered, h

LEMMA PatchAnsweredKeeps ==
  ASSUME IInv, NEW i \in 1..MaxRuns, NEW a \in runs[i].todo, NEW good \in BOOLEAN,
         PatchAnswered(i, a, good)
  PROVE  IInv'
  <1> DEFINE h == IF good THEN [health EXCEPT ![a] = Snapshot("healthy", Never, "admin")] ELSE health
  <1>1. a \in Accounts
    BY DEF IInv, Types, Runs
  <1>2. /\ h \in [Accounts -> Snapshots] /\ health' = h
        /\ h[a] = health[a] \/ h[a].by = "admin"
        /\ \A b \in Accounts : b # a => h[b] = health[b]
    BY <1>1 DEF IInv, Types, Snapshots, Snapshot, Never, PatchAnswered
  <1> HIDE DEF h
  <1> QED BY <1>2, AdvanceKeeps DEF PatchAnswered, h, IInv, Types

LEMMA StartTestKeeps ==
  ASSUME IInv, NEW i \in 1..MaxRuns, NEW a \in Accounts, NEW kind \in {"test", "patch"},
         StartTest(i, a, kind)
  PROVE  IInv'
  <1> DEFINE run == [kind |-> kind, todo |-> {a}, of |-> {a}, was |-> row]
  <1>1. /\ runs' = [runs EXCEPT ![i] = run] /\ runs[i] = NoRun /\ ~stopped
        /\ UNCHANGED <<now, row, health, timer, periodic, serving, stopped>>
    BY DEF StartTest, Free, Act
  <1>2. run \in Runs /\ run.todo \subseteq run.of /\ run.was \in [Accounts -> Statuses]
    BY DEF Runs, Kinds, IInv, Types
  <1> HIDE DEF run
  <1>3. /\ runs' \in [1..MaxRuns -> Runs]
        /\ \A j \in 1..MaxRuns : runs'[j] = IF j = i THEN run ELSE runs[j]
    BY <1>1, <1>2 DEF IInv, Types
  <1>4. Types' /\ RunsBounded' /\ TestsSawRows' /\ Quiet'
    BY <1>1, <1>2, <1>3 DEF IInv, Types, RunsBounded, TestsSawRows, Quiet
  <1>5. runs[i].kind = "none"
    BY <1>1 DEF NoRun
  <1>6. \A b \in Accounts, j \in 1..MaxRuns : FollowsUp(j, b) => FollowsUp(j, b)'
    BY <1>3, <1>5 DEF FollowsUp
  <1>7. HoldFollowedUp'
    BY <1>1, <1>6 DEF IInv, HoldFollowedUp
  <1> QED BY <1>4, <1>7 DEF IInv

LEMMA RequestFindsHoldKeeps ==
  ASSUME IInv, NEW a \in Accounts, NEW retryAt \in Retries, RequestFindsHold(a, retryAt)
  PROVE  IInv'
  <1>1. ~stopped
    BY DEF RequestFindsHold, IInv, Quiet
  <1>2. retryAt \in Int /\ timer[a] \in Timers
    BY RetriesAreDates DEF IInv, Types
  <1>3. /\ Scheduled(timer[a], retryAt) \in Timers
        /\ Scheduled(timer[a], retryAt) # NoTimer
    BY <1>1, <1>2, ScheduledFacts DEF IInv
  <1>4. /\ timer' \in [Accounts -> Timers]
        /\ \A b \in Accounts : timer'[b] = IF b = a THEN Scheduled(timer[a], retryAt) ELSE timer[b]
    BY <1>3 DEF RequestFindsHold, IInv, Types
  <1>5. /\ health' \in [Accounts -> Snapshots]
        /\ \A b \in Accounts : b # a => health'[b] = health[b]
    BY <1>2 DEF RequestFindsHold, IInv, Types, Snapshots, Snapshot
  <1>6. /\ row' \in [Accounts -> Statuses]
        /\ \A b \in Accounts : row[b] = "none" => row'[b] = "none"
    BY SetStatusFacts DEF RequestFindsHold, IInv, Statuses
  <1>7. UNCHANGED <<now, periodic, runs, stopped>>
    BY DEF RequestFindsHold
  <1>8. Types' /\ RunsBounded' /\ TestsSawRows' /\ Quiet'
    BY <1>1, <1>4, <1>5, <1>6, <1>7 DEF IInv, Types, RunsBounded, TestsSawRows, Quiet
  <1>9. HoldFollowedUp'
    BY <1>3, <1>4, <1>5, <1>6, <1>7 DEF IInv, HoldFollowedUp, FollowsUp
  <1> QED BY <1>8, <1>9 DEF IInv

LEMMA StopKeeps == ASSUME IInv, Stop PROVE IInv'
  <1>1. health' \in [Accounts -> Snapshots] /\ timer' \in [Accounts -> Timers]
    BY DEF Stop, NoSnapshot, Snapshot, Snapshots, NoTimer, Timers, Never
  <1>2. Types' /\ RunsBounded' /\ TestsSawRows' /\ Quiet'
    BY <1>1 DEF Stop, IInv, Types, RunsBounded, TestsSawRows, Quiet
  <1> QED BY <1>2 DEF Stop, IInv, HoldFollowedUp

LEMMA MonitorStep == IInv /\ [Next]_vars => IInv'
  <1> SUFFICES ASSUME IInv, [Next]_vars PROVE IInv'
    OBVIOUS
  <1>0. Types
    BY DEF IInv
  <1>1. ASSUME NEW i \in 1..MaxRuns, Answered(i) PROVE IInv'
    BY <1>1, MonitorAnsweredKeeps, TestAnsweredKeeps, PatchAnsweredKeeps
       DEF Answered, Retries, AnswerStatus
  <1>2. ASSUME NEW a \in Accounts, NEW status \in {"active", "inactive"}, PatchStatus(a, status)
        PROVE  IInv'
    <2>1. /\ row' \in [Accounts -> Statuses]
          /\ \A b \in Accounts : row[b] = "none" => row'[b] = "none"
      BY <1>0, <1>2, SetStatusFacts DEF PatchStatus, Statuses
    <2> QED BY <1>0, <1>2, <2>1, OthersKeep DEF PatchStatus, Act, Types
  <1>3. ASSUME NEW a \in Accounts, DeleteAccount(a) PROVE IInv'
    <2>1. row' \in [Accounts -> Statuses] /\ \A b \in Accounts : row[b] = "none" => row'[b] = "none"
      BY <1>0, <1>3 DEF DeleteAccount, Types, Statuses
    <2>2. /\ health' \in [Accounts -> Snapshots]
          /\ \A b \in Accounts : health'[b] = health[b] \/ health'[b] = NoSnapshot
      BY <1>0, <1>3 DEF DeleteAccount, Types, Snapshots, NoSnapshot, Snapshot, Never
    <2> QED BY <1>0, <1>3, <2>1, <2>2, OthersKeep DEF DeleteAccount, Act, Types
  <1>4. ASSUME NEW a \in Accounts,
               RequestStarts(a) \/ CooldownEnds(a)
               \/ \E state \in {"ok", "dead", "muted"} : ProviderChanges(a, state)
        PROVE  IInv'
    BY <1>0, <1>4, OthersKeep DEF RequestStarts, CooldownEnds, ProviderChanges,
       Act, Types, IInv, Quiet
  <1>5. ASSUME NEW a \in Accounts, RequestSucceeds(a) \/ RequestFails(a) PROVE IInv'
    <2>1. /\ row' \in [Accounts -> Statuses]
          /\ \A b \in Accounts : row[b] = "none" => row'[b] = "none"
      BY <1>0, <1>5, SetStatusFacts DEF RequestSucceeds, RequestFails, Statuses, Types
    <2> QED BY <1>0, <1>5, <2>1, OthersKeep DEF RequestSucceeds, RequestFails, Types, IInv, Quiet
  <1>6. CASE Tick \/ UNCHANGED vars
    BY <1>0, <1>6, OthersKeep DEF Tick, vars, Types, IInv, Quiet
  <1> QED BY <1>1, <1>2, <1>3, <1>4, <1>5, <1>6, PeriodicKeeps, TimerKeeps, StartTestKeeps,
             RequestFindsHoldKeeps, StopKeeps DEF Next, Retries

(* The invariant, for every set of accounts, interval and timer limit.     *)
THEOREM MonitorInvariant == Spec => []IInv
  BY MonitorInit, MonitorStep, PTL DEF Spec

(* A recorded hold always has a timer or a run that will set one, however  *)
(* runs overtake each other (account-health-monitor.ts:60-131).            *)
THEOREM MonitorFollowsHoldsUp == Spec => []HoldFollowedUp
  BY MonitorInvariant, PTL DEF IInv

-----------------------------------------------------------------------------
(* After the stop.                                                         *)

LEMMA QuietAnswered ==
  ASSUME IInv, stopped, NEW i \in 1..MaxRuns, Answered(i)
  PROVE  UNCHANGED <<row, timer, periodic>>
  <1>1. PICK a \in runs[i].todo, status \in AnswerStatus, retryAt \in Retries :
          MonitorAnswered(i, a, status, retryAt)
    BY DEF Answered, TestAnswered, PatchAnswered, IInv, Quiet, AnswerStatus, Retries
  <1> DEFINE h == [health EXCEPT ![a] = Snapshot(status, retryAt, "monitor")]
             kind == runs[i].kind
  <1>2. a \in Accounts
    BY DEF IInv, Types, Runs
  <1>3. h \in [Accounts -> Snapshots]
    BY <1>2, RetriesAreDates DEF IInv, Types, Snapshots, Snapshot, AnswerStatus
  <1>4. kind \in {"full", "periodic", "timer"}
    BY <1>1 DEF MonitorAnswered
  <1> HIDE DEF h
  <1>5. CASE Verdict(a, status) /\ Advance(i, a, h) /\ status = "unavailable"
    <2>1. row' = row
      BY <1>5 DEF Verdict
    <2>2. CASE UNCHANGED <<timer, periodic>>
      BY <2>1, <2>2
    <2>3. CASE timer' = TimersAfter(kind, runs[i].of, h) /\ periodic' = PeriodicAfter(kind)
      <3>1. periodic' = periodic
        BY <2>3 DEF PeriodicAfter, Rearmed, IInv, Quiet
      <3>2. /\ timer' \in [Accounts -> Timers]
            /\ \A b \in Accounts : timer'[b] = timer[b]
        BY <1>3, <1>4, <2>3, TimersAfterFacts DEF IInv, Kinds
      <3>3. timer' = timer
        BY <3>2 DEF IInv, Types
      <3> QED BY <2>1, <3>1, <3>3
    <2> QED BY <1>5, <2>2, <2>3 DEF Advance
  <1>6. CASE UNCHANGED <<row, open, timer, periodic>>
    BY <1>6
  <1> QED BY <1>1, <1>5, <1>6 DEF MonitorAnswered, h

(* Whatever was in flight when the process stopped sets no timer and       *)
(* writes no row afterwards (account-health-monitor.ts:105-131,            *)
(* app.ts onClose).                                                        *)
THEOREM MonitorStopIsFinal == Spec => StopIsFinal
  <1>1. IInv /\ [Next]_vars =>
          [stopped => /\ row' = row /\ periodic' = Never
                      /\ timer' = [a \in Accounts |-> NoTimer]]_vars
    <2> SUFFICES ASSUME IInv, Next, stopped
                 PROVE  /\ row' = row /\ periodic' = Never
                        /\ timer' = [a \in Accounts |-> NoTimer]
      OBVIOUS
    <2>1. periodic = Never /\ timer = [a \in Accounts |-> NoTimer] /\ serving = {}
      BY DEF IInv, Quiet, Types
    <2>2. UNCHANGED <<row, timer, periodic>>
      BY <2>1, QuietAnswered
         DEF Next, PeriodicFires, TimerFires, StartTest, PatchStatus, DeleteAccount,
             RequestStarts, RequestSucceeds, RequestFails, RequestFindsHold, CooldownEnds,
             ProviderChanges, Stop, Tick, Act
    <2> QED BY <2>1, <2>2
  <1> QED BY <1>1, MonitorInvariant, PTL DEF Spec, StopIsFinal
=============================================================================
