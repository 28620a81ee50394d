------------------------ MODULE HostOperationsProofs ------------------------
(***************************************************************************)
(* Proofs about HostOperations for every retention, every age limit and    *)
(* every bound: what the backups under their final names are, what a       *)
(* deployment may rely on, and what an operator is told.                   *)
(***************************************************************************)
EXTENDS HostOperations, SequenceTheorems, WellFoundedInduction, TLAPS

-----------------------------------------------------------------------------
(* The inductive invariant.                                                *)

Databases == [schema : Nat, writes : Nat]

Files == [stamp : Nat, whole : BOOLEAN, schema : Nat, writes : Nat]

Taken  == {"copying", "copied", "comparing", "publishing", "published", "pruning"}
Kept   == {"published", "pruning"}
Judged == {"failed", "healthy"}

BackupRun == [at : {"idle", "begun"} \cup Taken, stamp : Nat, copy : Databases]
CheckRun  == [at : {"idle", "probing", "aging"} \cup Judged, previous : Judged \cup {None}]
Release   == [at : {"idle", "building", "backup", "posting", "waiting", "checking"},
              old : Nat, new : Nat, writes : Nat, skipped : BOOLEAN]

TypeOK ==
  /\ clock \in Nat
  /\ app \in [id : Nat, phase : {"booting", "ready", "stopped"}]
  /\ db \in Databases
  /\ coolify \in BOOLEAN
  /\ backup \in [Runners -> BackupRun] /\ backupLock \in Runners \cup {None}
  /\ staging \subseteq Files /\ finals \subseteq Files
  /\ lastSuccess \in Nat \cup {Never}
  /\ check \in [Runners -> CheckRun] /\ checkLock \in Runners \cup {None}
  /\ status \in Judged \cup {None}
  /\ history \in Seq(Judged \cup Tellings \cup {"reboot"})
  /\ release \in Release

(* A database that was written to has its tables.                          *)
Sound(d) == d.schema >= 1 \/ d.writes = 0

Migrations == Sound(db) /\ (Serving => db.schema >= Schema)

(* A run under way has the lock, so that the other one is idle, and its    *)
(* own file is younger than the retention.                                 *)
Locked(r) ==
  backup[r].at # "idle" =>
    /\ backupLock = r
    /\ clock <= backup[r].stamp + Retention

Own(r) == File(backup[r].stamp, backup[r].copy, TRUE)

(* What a run has copied, and where it is.                                 *)
Copies(r) ==
  /\ Sound(backup[r].copy)
  /\ backup[r].at = "publishing" => Matches(r)
  /\ backup[r].at \in Kept => Own(r) \in finals
  /\ backup[r].at = "pruning" => lastSuccess = backup[r].stamp

(* Nothing is read from a file after it got its final name: what holds of  *)
(* it held of the copy before.                                             *)
Runs ==
  /\ \A r \in Runners : Locked(r) /\ Copies(r)
  /\ BackupsStand

(* What the release may count on when it goes from its backup to the       *)
(* deployment: a file with its writes, and no run that would replace the   *)
(* file by an older one.                                                   *)
Covered ==
  /\ \E f \in finals : f.whole /\ f.writes >= release.writes
  /\ \A r \in Runners : backup[r].at \in Taken => backup[r].copy.writes >= release.writes

Releases ==
  /\ release.at # "idle" => release.writes <= db.writes
  /\ backup["release"].at # "idle" => release.at = "backup"
  /\ check["release"].at # "idle" => release.at = "checking"
  /\ backup["release"].at \in Taken => backup["release"].copy.writes >= release.writes
  /\ release.at = "posting" /\ ~release.skipped => Covered

(* The last verdict before position n of the history was a failure.        *)
FailedBefore(n) == Before(n) # {} /\ history[Max(Before(n))] = "failed"

(* The status file is the last verdict of the history, and a check in its  *)
(* telling holds the news about it.                                        *)
Checking(r) ==
  /\ check[r].at # "idle" => checkLock = r
  /\ check[r].at \in {"probing", "aging"} => check[r].previous = status
  /\ check[r].at \in Judged =>
       /\ Len(history) > 0 /\ history[Len(history)] = check[r].at
       /\ (check[r].previous = "failed") <=> FailedBefore(Len(history))

Verdicts ==
  /\ \A r \in Runners : Checking(r)
  /\ (status = "failed") <=> FailedBefore(Len(history) + 1)

(* A change that is neither told nor lost is the news of a running check.  *)
Pending(n) == n = Len(history) /\ \E r \in Runners : check[r].at \in Judged

Alerts ==
  \A n \in 1..Len(history) :
    /\ Recorded(n) =>
         /\ Tried(n) => Changed(n) /\ history[n + 1] \in {Word(history[n]), "unheard"}
         /\ Changed(n) => Tried(n) \/ Lost(n) \/ Pending(n)
    /\ history[n] \in Tellings => n > 1 /\ Recorded(n - 1)

IInv == TypeOK /\ Migrations /\ Runs /\ Releases /\ Verdicts /\ Alerts

-----------------------------------------------------------------------------
(* The greatest element of a set, and histories that grow.                 *)

(* A nonempty set of positions has a greatest one.                         *)
LEMMA MaxIsMember ==
  ASSUME NEW N \in Nat, NEW S \in SUBSET (1..N), S # {}
  PROVE  Max(S) \in S /\ \A y \in S : y <= Max(S)
  <1> DEFINE R == {ss \in Nat \X Nat : ss[1] < ss[2]}
             T == {N - x : x \in S}
  <1>1. IsWellFoundedOn(R, Nat)
    BY NatLessThanWellFounded DEF OpToRel
  <1>2. T \in SUBSET Nat /\ T # {}
    <2>1. \A x \in S : x \in 1..N /\ N - x \in Nat
      OBVIOUS
    <2> QED BY <2>1
  <1>3. PICK t \in T : \A u \in T : ~ (<<u, t>> \in R)
    BY <1>1, <1>2, WFMin
  <1>4. PICK x \in S : t = N - x
    BY <1>3
  <1>5. \A y \in S : x >= y
    <2> TAKE y \in S
    <2>1. N - y \in Nat /\ t \in Nat /\ N - y \in T
      BY <1>2, <1>3
    <2>2. ~ (N - y < t)
      BY <2>1, <1>3
    <2> QED BY <2>1, <2>2, <1>4
  <1>6. Max(S) \in S /\ \A y \in S : Max(S) >= y
    BY <1>5 DEF Max
  <1> QED BY <1>6

Events == Judged \cup Tellings \cup {"reboot"}

(* An entry is recorded by what it is; what was recorded before a position *)
(* of the old history stays.                                               *)
LEMMA HistoryGrows ==
  ASSUME history \in Seq(Events), NEW v \in Events, history' = Append(history, v)
  PROVE  /\ Len(history') = Len(history) + 1 /\ Len(history) \in Nat
         /\ history'[Len(history) + 1] = v
         /\ \A n \in 1..Len(history) : history'[n] = history[n]
         /\ \A n \in 1..Len(history) : Recorded(n)' = Recorded(n)
         /\ \A n \in 1..(Len(history) + 1) : FailedBefore(n)' = FailedBefore(n)
         /\ \A n \in 1..Len(history) : Changed(n)' = Changed(n)
         /\ \A n \in 1..Len(history) : n < Len(history) =>
              Tried(n)' = Tried(n) /\ Lost(n)' = Lost(n)
  <1> DEFINE L == Len(history)
  <1>1. Len(history') = L + 1 /\ L \in Nat /\ history'[L + 1] = v
    OBVIOUS
  <1>2. \A n \in 1..L : history'[n] = history[n]
    OBVIOUS
  <1>3. \A n \in 1..L : Recorded(n)' = Recorded(n)
    BY <1>2 DEF Recorded
  <1>4. ASSUME NEW n \in 1..(L + 1)
        PROVE  FailedBefore(n)' = FailedBefore(n)
    <2>1. Before(n)' = Before(n) /\ Before(n) \in SUBSET (1..L)
      BY <1>1, <1>3 DEF Before
    <2>2. Before(n) # {} => Max(Before(n)) \in 1..L
      BY <2>1, <1>1, MaxIsMember
    <2>3. Before(n) # {} => history'[Max(Before(n))] = history[Max(Before(n))]
      BY <2>2, <1>2
    <2> QED BY <2>1, <2>3 DEF FailedBefore
  <1>5. ASSUME NEW n \in 1..L
        PROVE  Changed(n)' = Changed(n)
    <2>1. FailedBefore(n)' = FailedBefore(n)
      BY <1>4, <1>1
    <2>2. history'[n] = history[n]
      BY <1>2
    <2> QED BY <2>1, <2>2 DEF Changed, FailedBefore
  <1>6. \A n \in 1..L : n < L => Tried(n)' = Tried(n) /\ Lost(n)' = Lost(n)
    BY <1>1, <1>2 DEF Tried, Lost
  <1> QED BY <1>1, <1>2, <1>3, <1>4, <1>5, <1>6

(* The last verdict before the end of the history is the one recorded      *)
(* last: a new verdict, or the one before what is not a verdict.           *)
LEMMA LastVerdict ==
  ASSUME history \in Seq(Events), NEW v \in Events, history' = Append(history, v)
  PROVE  FailedBefore(Len(history) + 1)'
           = IF v \in Judged THEN v = "failed" ELSE FailedBefore(Len(history) + 1)
  <1>0. PICK k \in Nat : k = Len(history) + 1
    OBVIOUS
  <1>1. k = Len(history') /\ k - 1 = Len(history) /\ k \in 1..k
    BY <1>0, HistoryGrows
  <1>2. Before(k + 1)' = {m \in 1..k : Recorded(m)'}
    BY <1>1 DEF Before
  <1>3. Before(k)' = {m \in 1..(k - 1) : Recorded(m)'}
    BY <1>1 DEF Before
  <1>4. Recorded(k)' <=> v \in Judged
    BY <1>0, HistoryGrows DEF Recorded, Judged
  <1>5. CASE v \in Judged
    <2> DEFINE new == Before(k + 1)'
    <2>1. k \in new /\ new \in SUBSET (1..k)
      BY <1>1, <1>2, <1>4, <1>5
    <2>2. Max(new) = k
      <3>1. Max(new) \in new /\ \A y \in new : y <= Max(new)
        BY <2>1, MaxIsMember
      <3>2. Max(new) \in 1..k /\ k <= Max(new)
        BY <3>1, <2>1
      <3> QED BY <3>2
    <2>3. history'[Max(new)] = v
      BY <2>2, <1>0, HistoryGrows
    <2>4. new # {}
      BY <2>1
    <2>5. FailedBefore(k + 1)' = (v = "failed")
      BY <2>3, <2>4 DEF FailedBefore
    <2> QED BY <2>5, <1>1, <1>5
  <1>6. CASE v \notin Judged
    <2>1. Before(k + 1)' = Before(k)'
      BY <1>1, <1>2, <1>3, <1>4, <1>6
    <2>2. FailedBefore(k + 1)' = FailedBefore(k)'
      BY <2>1 DEF FailedBefore
    <2>3. FailedBefore(k)' = FailedBefore(k)
      BY <1>0, HistoryGrows
    <2> QED BY <2>2, <2>3, <1>0, <1>1, <1>6
  <1> QED BY <1>5, <1>6

-----------------------------------------------------------------------------
(* What is told of the verdicts.                                           *)

(* A check that ends, or starts, without a word: only a change must be     *)
(* told.                                                                   *)
LEMMA SilenceKeepsAlerts ==
  ASSUME TypeOK, Alerts, UNCHANGED history,
         \/ \A r \in Runners : check[r].at \in Judged => check'[r].at \in Judged
         \/ ~ Changed(Len(history))
  PROVE  Alerts'
  <1>1. SUFFICES ASSUME NEW n \in 1..Len(history)
                 PROVE  /\ Recorded(n) /\ Changed(n) => Tried(n) \/ Lost(n) \/ Pending(n)'
                        /\ Recorded(n)' = Recorded(n) /\ Changed(n)' = Changed(n)
                        /\ Tried(n)' = Tried(n) /\ Lost(n)' = Lost(n)
    BY DEF Alerts, Recorded
  <1>2. Recorded(n)' = Recorded(n) /\ Changed(n)' = Changed(n)
    BY DEF Recorded, Changed, Before
  <1>3. Tried(n)' = Tried(n) /\ Lost(n)' = Lost(n)
    BY DEF Tried, Lost
  <1>4. ASSUME Recorded(n), Changed(n)
        PROVE  Tried(n) \/ Lost(n) \/ Pending(n)'
    <2>1. Tried(n) \/ Lost(n) \/ Pending(n)
      BY <1>4 DEF Alerts
    <2> QED BY <2>1, <1>4 DEF Pending
  <1> QED BY <1>2, <1>3, <1>4

(* The history grows by a verdict whose check is to tell it, when no other *)
(* news is held; by the news of its last entry; or by a reboot.            *)
LEMMA GrowthKeepsAlerts ==
  ASSUME TypeOK, Alerts, NEW v \in Events, history' = Append(history, v),
         v \in Judged =>
           /\ \A r \in Runners : check[r].at \notin Judged
           /\ \E r \in Runners : check'[r].at \in Judged,
         v \in Tellings =>
           /\ Len(history) > 0
           /\ Recorded(Len(history)) /\ Changed(Len(history))
           /\ v \in {Word(history[Len(history)]), "unheard"}
  PROVE  Alerts'
  <1> DEFINE L == Len(history)
  <1>0. history \in Seq(Events)
    BY DEF TypeOK, Events
  <1>1. Len(history') = L + 1 /\ L \in Nat /\ history'[L + 1] = v
    BY <1>0, HistoryGrows
  <1>2. SUFFICES ASSUME NEW n \in 1..(L + 1)
        PROVE  /\ Recorded(n)' =>
                    /\ Tried(n)' => Changed(n)' /\ history'[n + 1] \in {Word(history'[n]), "unheard"}
                    /\ Changed(n)' => Tried(n)' \/ Lost(n)' \/ Pending(n)'
               /\ history'[n] \in Tellings => n > 1 /\ Recorded(n - 1)'
    BY <1>1 DEF Alerts
  <1>3. CASE n < L
    <2>1. n \in 1..L /\ n + 1 \in 1..L /\ (n > 1 => n - 1 \in 1..L)
      BY <1>1, <1>3
    <2>2. Recorded(n)' = Recorded(n) /\ Changed(n)' = Changed(n)
      BY <2>1, <1>0, HistoryGrows
    <2>3. Tried(n)' = Tried(n) /\ Lost(n)' = Lost(n)
      BY <2>1, <1>3, <1>0, HistoryGrows
    <2>4. history'[n] = history[n] /\ history'[n + 1] = history[n + 1]
      BY <2>1, <1>0, HistoryGrows
    <2>5. n > 1 => Recorded(n - 1)' = Recorded(n - 1)
      BY <2>1, <1>0, HistoryGrows
    <2>6. ~ Pending(n)
      BY <1>1, <1>3 DEF Pending
    <2> QED BY <2>1, <2>2, <2>3, <2>4, <2>5, <2>6 DEF Alerts
  <1>4. CASE n = L
    <2>1. n \in 1..L /\ n < Len(history') /\ history'[n + 1] = v
      BY <1>1, <1>4
    <2>2. Recorded(n)' = Recorded(n) /\ Changed(n)' = Changed(n) /\ history'[n] = history[n]
      BY <2>1, <1>0, HistoryGrows
    <2>3. n > 1 => Recorded(n - 1)' = Recorded(n - 1)
      <3>1. n > 1 => n - 1 \in 1..L
        BY <1>1, <2>1
      <3> QED BY <3>1, <1>0, HistoryGrows
    <2>4. Tried(n)' <=> v \in Tellings
      BY <2>1 DEF Tried
    <2>5. Lost(n)' <=> v = "reboot"
      BY <2>1 DEF Lost
    <2>6. v \in Judged /\ Recorded(n) => ~ Changed(n)
      <3>1. ~ Tried(n) /\ ~ Lost(n)
        BY <1>4, <1>1 DEF Tried, Lost
      <3>2. v \in Judged => ~ Pending(n)
        BY DEF Pending
      <3> QED BY <3>1, <3>2, <2>1 DEF Alerts
    <2>7. history[n] \in Tellings => n > 1 /\ Recorded(n - 1)
      BY <2>1 DEF Alerts
    <2> QED BY <1>4, <2>1, <2>2, <2>3, <2>4, <2>5, <2>6, <2>7 DEF Events, Judged
  <1>5. CASE n = L + 1
    <2>1. history'[n] = v /\ n = Len(history') /\ (n > 1 <=> L > 0) /\ n - 1 = L
      BY <1>1, <1>5
    <2>2. ~ Tried(n)'
      BY <2>1 DEF Tried
    <2>3. Recorded(n)' => v \in Judged
      BY <2>1 DEF Recorded, Judged
    <2>4. v \in Judged => Pending(n)'
      BY <2>1 DEF Pending
    <2>5. v \in Tellings => n > 1 /\ Recorded(n - 1)'
      <3>1. ASSUME v \in Tellings
            PROVE  n > 1 /\ Recorded(n - 1)'
        <4>1. n - 1 \in 1..L /\ Recorded(n - 1)
          BY <3>1, <2>1, <1>1
        <4> QED BY <4>1, <3>1, <2>1, <1>0, HistoryGrows
      <3> QED BY <3>1
    <2> QED BY <2>1, <2>2, <2>3, <2>4, <2>5
  <1>6. n < L \/ n = L \/ n = L + 1
    BY <1>1
  <1> QED BY <1>3, <1>4, <1>5, <1>6

(* The lock keeps checks apart.                                            *)
LEMMA OthersIdle ==
  ASSUME TypeOK, Verdicts, NEW r \in Runners, check[r].at # "idle"
  PROVE  checkLock = r /\ \A q \in Runners : q # r => check[q].at = "idle"
  BY DEF Verdicts, Checking

(* A verdict is recorded in the file and in the history, and its check     *)
(* still knows the verdict before it.                                      *)
LEMMA RecordsKeeps ==
  ASSUME TypeOK, Verdicts, Alerts, NEW r \in Runners, NEW v \in Judged,
         check[r].at \in {"probing", "aging"}, Records(r, v), UNCHANGED checkLock
  PROVE  Verdicts' /\ Alerts'
  <1> USE DEF Records
  <1>0. history \in Seq(Events) /\ v \in Events /\ Len(history) \in Nat
    BY DEF TypeOK, Events
  <1>1. PICK k \in Nat : k = Len(history) + 1
    BY <1>0
  <1>2. k = Len(history') /\ k \in 1..k /\ history'[k] = v
    BY <1>0, <1>1, HistoryGrows
  <1>3. checkLock = r /\ \A q \in Runners : q # r => check[q].at = "idle"
    BY OthersIdle DEF Judged
  <1>4. check'[r] = [at |-> v, previous |-> check[r].previous]
        /\ \A q \in Runners : q # r => check'[q] = check[q]
    BY DEF TypeOK, CheckRun
  <1>5. check[r].previous = status
    BY DEF Verdicts, Checking
  <1>6. FailedBefore(k)' = FailedBefore(k)
    BY <1>0, <1>1, <1>2, HistoryGrows
  <1>7. (status = "failed") <=> FailedBefore(k)
    BY <1>1 DEF Verdicts
  <1>8. Checking(r)'
    <2>1. FailedBefore(Len(history))' <=> FailedBefore(k)'
      BY <1>2 DEF FailedBefore
    <2> QED BY <2>1, <1>2, <1>3, <1>4, <1>5, <1>6, <1>7 DEF Checking, Judged
  <1>9. \A q \in Runners : q # r => Checking(q)'
    BY <1>3, <1>4 DEF Checking, Judged
  <1>10. FailedBefore(Len(history) + 1)' <=> v = "failed"
    BY <1>0, LastVerdict
  <1>11. Verdicts'
    BY <1>8, <1>9, <1>10 DEF Verdicts
  <1>12. Alerts'
    <2>1. \A q \in Runners : check[q].at \notin Judged
      BY <1>3 DEF Judged
    <2>2. \E q \in Runners : check'[q].at \in Judged
      BY <1>4
    <2>3. v \notin Tellings
      BY DEF Judged, Tellings
    <2>4. history' = Append(history, v)
      OBVIOUS
    <2> QED BY <2>1, <2>2, <2>3, <2>4, <1>0, GrowthKeepsAlerts
  <1> QED BY <1>11, <1>12

(* A check that gets the lock reads the status; one that finds it taken    *)
(* does nothing.                                                           *)
LEMMA CheckBeginsKeeps ==
  ASSUME TypeOK, Verdicts, Alerts, NEW r \in Runners, CheckBegins(r)
  PROVE  Verdicts' /\ Alerts'
  <1> USE DEF CheckBegins
  <1>0. UNCHANGED <<status, history>>
    OBVIOUS
  <1>1. FailedBefore(Len(history))' = FailedBefore(Len(history))
        /\ FailedBefore(Len(history) + 1)' = FailedBefore(Len(history) + 1)
    BY <1>0 DEF FailedBefore, Before, Recorded
  <1>2. CASE CheckHeld(r)
    <2>1. UNCHANGED <<check, checkLock>>
      BY <1>2
    <2>2. Verdicts'
      BY <1>0, <1>1, <2>1 DEF Verdicts, Checking
    <2>3. Alerts'
      BY <1>0, <2>1, SilenceKeepsAlerts
    <2> QED BY <2>2, <2>3
  <1>3. CASE ~ CheckHeld(r)
    <2>1. \A q \in Runners : check[q].at = "idle"
      BY <1>3 DEF CheckHeld, Verdicts, Checking, None, Runners
    <2>2. checkLock' = r /\ check'[r] = [at |-> "probing", previous |-> status]
          /\ \A q \in Runners : q # r => check'[q] = check[q]
      BY <1>3 DEF TypeOK
    <2>3. Verdicts'
      BY <1>0, <1>1, <2>1, <2>2 DEF Verdicts, Checking, Judged
    <2>4. Alerts'
      BY <1>0, <2>1, SilenceKeepsAlerts DEF Judged
    <2> QED BY <2>3, <2>4
  <1> QED BY <1>2, <1>3

LEMMA ProbeKeeps ==
  ASSUME TypeOK, Verdicts, Alerts, NEW r \in Runners, Probe(r)
  PROVE  Verdicts' /\ Alerts'
  <1> USE DEF Probe
  <1>1. CASE Records(r, "failed")
    BY <1>1, RecordsKeeps DEF Judged
  <1>2. CASE check' = [check EXCEPT ![r].at = "aging"] /\ UNCHANGED <<status, history>>
    <2>1. FailedBefore(Len(history))' = FailedBefore(Len(history))
          /\ FailedBefore(Len(history) + 1)' = FailedBefore(Len(history) + 1)
      BY <1>2 DEF FailedBefore, Before, Recorded
    <2>2. check'[r] = [at |-> "aging", previous |-> check[r].previous]
          /\ \A q \in Runners : q # r => check'[q] = check[q]
      BY <1>2 DEF TypeOK, CheckRun
    <2>3. Verdicts'
      BY <1>2, <2>1, <2>2 DEF Verdicts, Checking, Judged
    <2>4. \A q \in Runners : check[q].at \in Judged => check'[q].at \in Judged
      BY <2>2 DEF Judged
    <2>5. Alerts'
      BY <1>2, <2>4, SilenceKeepsAlerts
    <2> QED BY <2>3, <2>5
  <1> QED BY <1>1, <1>2

LEMMA AgeKeeps ==
  ASSUME TypeOK, Verdicts, Alerts, NEW r \in Runners, Age(r)
  PROVE  Verdicts' /\ Alerts'
  <1>1. PICK v \in Judged : Records(r, v)
    BY DEF Age, Judged
  <1> QED BY <1>1, RecordsKeeps DEF Age

(* The end of a check.                                                     *)
LEMMA EndedCheck ==
  ASSUME TypeOK, Verdicts, NEW r \in Runners, NEW ok, check[r].at # "idle",
         CheckReturns(r, ok), UNCHANGED status,
         FailedBefore(Len(history) + 1)' = FailedBefore(Len(history) + 1)
  PROVE  Verdicts' /\ \A q \in Runners : check'[q].at = "idle"
  <1>1. \A q \in Runners : check'[q].at = "idle"
    BY OthersIdle DEF CheckReturns, NoCheck, TypeOK
  <1> QED BY <1>1 DEF Verdicts, Checking, Judged

LEMMA CheckAbortsKeeps ==
  ASSUME TypeOK, Verdicts, Alerts, NEW r \in Runners, CheckAborts(r)
  PROVE  Verdicts' /\ Alerts'
  <1> USE DEF CheckAborts
  <1>1. FailedBefore(Len(history) + 1)' = FailedBefore(Len(history) + 1)
    BY DEF FailedBefore, Before, Recorded
  <1>2. check[r].at # "idle" /\ check[r].at \notin Judged
    BY DEF Judged
  <1>3. Verdicts'
    BY <1>1, <1>2, EndedCheck
  <1>4. \A q \in Runners : check[q].at \notin Judged
    BY <1>2, OthersIdle DEF Judged
  <1>5. Alerts'
    BY <1>4, SilenceKeepsAlerts
  <1> QED BY <1>3, <1>5

LEMMA TellKeeps ==
  ASSUME TypeOK, Verdicts, Alerts, NEW r \in Runners, Tell(r)
  PROVE  Verdicts' /\ Alerts'
  <1> DEFINE L == Len(history)
  <1>0. history \in Seq(Events) /\ L \in Nat
    BY DEF TypeOK, Events
  <1>1. check[r].at \in Judged
    BY DEF Tell, Judged
  <1>2. L > 0 /\ history[L] = check[r].at
        /\ ((check[r].previous = "failed") <=> FailedBefore(L))
    BY <1>1 DEF Verdicts, Checking
  <1>3. Changed(L) <=> News(check[r].at, check[r].previous)
    BY <1>2 DEF Changed, News, FailedBefore
  <1>4. Recorded(L)
    BY <1>1, <1>2 DEF Recorded, Judged
  <1>5. CASE News(check[r].at, check[r].previous)
    <2>1. PICK word \in {Word(check[r].at), "unheard"} : history' = Append(history, word)
      BY <1>5 DEF Tell
    <2>2. word \in Events /\ word \notin Judged
      BY DEF Word, Events, Tellings, Judged
    <2>3. FailedBefore(Len(history) + 1)' = FailedBefore(Len(history) + 1)
      BY <2>1, <2>2, <1>0, LastVerdict
    <2>4. Verdicts'
      BY <2>3, <1>1, EndedCheck DEF Tell, Judged
    <2>5. Alerts'
      BY <2>1, <2>2, <1>2, <1>3, <1>4, <1>5, GrowthKeepsAlerts
    <2> QED BY <2>4, <2>5
  <1>6. CASE ~ News(check[r].at, check[r].previous)
    <2>1. UNCHANGED history
      BY <1>6 DEF Tell
    <2>2. FailedBefore(Len(history) + 1)' = FailedBefore(Len(history) + 1)
      BY <2>1 DEF FailedBefore, Before, Recorded
    <2>3. Verdicts'
      BY <2>2, <1>1, EndedCheck DEF Tell, Judged
    <2>4. Alerts'
      BY <2>1, <1>3, <1>6, SilenceKeepsAlerts
    <2> QED BY <2>3, <2>4
  <1> QED BY <1>5, <1>6

LEMMA RebootKeepsAlerts ==
  ASSUME TypeOK, Verdicts, Alerts, Reboot
  PROVE  Verdicts' /\ Alerts'
  <1>0. history \in Seq(Events) /\ "reboot" \in Events /\ "reboot" \notin Judged
    BY DEF TypeOK, Events, Judged
  <1>1. history' = Append(history, "reboot") /\ UNCHANGED status
    BY DEF Reboot
  <1>2. \A q \in Runners : check'[q].at = "idle"
    BY DEF Reboot, NoCheck
  <1>3. FailedBefore(Len(history) + 1)' = FailedBefore(Len(history) + 1)
    BY <1>0, <1>1, LastVerdict
  <1>4. Verdicts'
    BY <1>1, <1>2, <1>3 DEF Verdicts, Checking, Judged
  <1>5. Alerts'
    <2>1. "reboot" \notin Tellings
      BY DEF Tellings
    <2> QED BY <2>1, <1>0, <1>1, GrowthKeepsAlerts
  <1> QED BY <1>4, <1>5

(* Nothing else touches the checks.                                        *)
LEMMA AlertsStep ==
  ASSUME TypeOK, Verdicts, Alerts, [Next]_vars
  PROVE  Verdicts' /\ Alerts'
  <1>1. CASE UNCHANGED checks
    <2>1. FailedBefore(Len(history))' = FailedBefore(Len(history))
          /\ FailedBefore(Len(history) + 1)' = FailedBefore(Len(history) + 1)
      BY <1>1 DEF checks, FailedBefore, Before, Recorded
    <2>2. Verdicts'
      BY <1>1, <2>1 DEF checks, Verdicts, Checking
    <2>3. Alerts'
      BY <1>1, SilenceKeepsAlerts DEF checks
    <2> QED BY <2>2, <2>3
  <1>2. ASSUME NEW r \in Runners,
               CheckBegins(r) \/ Probe(r) \/ CheckAborts(r) \/ Age(r) \/ Tell(r)
        PROVE  Verdicts' /\ Alerts'
    BY <1>2, CheckBeginsKeeps, ProbeKeeps, CheckAbortsKeeps, AgeKeeps, TellKeeps
  <1>3. CASE Reboot
    BY <1>3, RebootKeepsAlerts
  <1>4. CASE UNCHANGED vars
    BY <1>4, <1>1 DEF vars
  <1>5. CASE Next
    <2>1. \/ UNCHANGED checks
          \/ \E r \in Runners :
               CheckBegins(r) \/ Probe(r) \/ CheckAborts(r) \/ Age(r) \/ Tell(r)
          \/ Reboot
      BY <1>5 DEF Next, Migrate, Listen, Write, ContainerRestarts, Deploy, BackupBegins,
         Snapshot, CopyOut, Compare, Publish, RecordSuccess, Prune, BackupBreaks,
         ReleaseBegins, Build, Post, Replaced, ReleaseFails, Tick
    <2> QED BY <2>1, <1>1, <1>2, <1>3
  <1> QED BY <1>4, <1>5

-----------------------------------------------------------------------------
(* Types.                                                                  *)

LEMMA ReleaseTypes ==
  ASSUME NEW l \in Release
  PROVE  /\ NoRelease \in Release
         /\ \A step \in {"idle", "building", "backup", "posting", "waiting", "checking"} :
              [l EXCEPT !.at = step] \in Release
         /\ [l EXCEPT !.at = "posting", !.skipped = TRUE] \in Release
         /\ \A n \in Nat : [l EXCEPT !.at = "checking", !.new = n] \in Release
  BY DEF Release, NoRelease

LEMMA RunTypes ==
  ASSUME NEW b \in [Runners -> BackupRun], NEW r \in Runners
  PROVE  /\ NoRun \in BackupRun
         /\ [b EXCEPT ![r] = NoRun] \in [Runners -> BackupRun]
         /\ \A step \in {"begun"} \cup Taken :
              [b EXCEPT ![r].at = step] \in [Runners -> BackupRun]
         /\ \A d \in Databases :
              [b EXCEPT ![r].at = "copying", ![r].copy = d] \in [Runners -> BackupRun]
  <1>1. NoRun \in BackupRun
    BY DEF NoRun, BackupRun, Databases
  <1>2. ASSUME NEW step \in {"begun"} \cup Taken
        PROVE  [b EXCEPT ![r].at = step] \in [Runners -> BackupRun]
    <2>1. [b[r] EXCEPT !.at = step] \in BackupRun
      BY DEF BackupRun
    <2> QED BY <2>1
  <1>3. ASSUME NEW d \in Databases
        PROVE  [b EXCEPT ![r].at = "copying", ![r].copy = d] \in [Runners -> BackupRun]
    <2>1. [b[r] EXCEPT !.at = "copying", !.copy = d] \in BackupRun
      BY DEF BackupRun, Taken
    <2>2. [b EXCEPT ![r].at = "copying", ![r].copy = d]
            = [b EXCEPT ![r] = [b[r] EXCEPT !.at = "copying", !.copy = d]]
      OBVIOUS
    <2> QED BY <2>1, <2>2
  <1> QED BY <1>1, <1>2, <1>3

LEMMA CheckTypes ==
  ASSUME NEW c \in [Runners -> CheckRun], NEW r \in Runners
  PROVE  /\ [c EXCEPT ![r] = NoCheck] \in [Runners -> CheckRun]
         /\ \A step \in {"aging"} \cup Judged :
              [c EXCEPT ![r].at = step] \in [Runners -> CheckRun]
         /\ \A s \in Judged \cup {None} :
              [c EXCEPT ![r] = [at |-> "probing", previous |-> s]] \in [Runners -> CheckRun]
  <1>1. NoCheck \in CheckRun
    BY DEF NoCheck, CheckRun
  <1>2. ASSUME NEW step \in {"aging"} \cup Judged
        PROVE  [c EXCEPT ![r].at = step] \in [Runners -> CheckRun]
    <2>1. [c[r] EXCEPT !.at = step] \in CheckRun
      BY DEF CheckRun
    <2> QED BY <2>1
  <1>3. \A s \in Judged \cup {None} : [at |-> "probing", previous |-> s] \in CheckRun
    BY DEF CheckRun
  <1> QED BY <1>1, <1>2, <1>3

LEMMA FileTypes ==
  ASSUME TypeOK, NEW r \in Runners, NEW whole \in BOOLEAN
  PROVE  /\ File(backup[r].stamp, backup[r].copy, whole) \in Files
         /\ backup[r] \in BackupRun /\ check[r] \in CheckRun
         /\ backup[r].stamp \in Nat /\ backup[r].copy \in Databases
         /\ Own(r) \in Files
  BY DEF TypeOK, File, Files, BackupRun, CheckRun, Databases, Own

GatewayTypes ==
  /\ clock \in Nat
  /\ app \in [id : Nat, phase : {"booting", "ready", "stopped"}]
  /\ db \in Databases
  /\ coolify \in BOOLEAN

BackupTypes ==
  /\ backup \in [Runners -> BackupRun] /\ backupLock \in Runners \cup {None}
  /\ staging \subseteq Files /\ finals \subseteq Files
  /\ lastSuccess \in Nat \cup {Never}

CheckedTypes ==
  /\ check \in [Runners -> CheckRun] /\ checkLock \in Runners \cup {None}
  /\ status \in Judged \cup {None}
  /\ history \in Seq(Events)

LEMMA TypeParts ==
  TypeOK <=> GatewayTypes /\ BackupTypes /\ CheckedTypes /\ release \in Release
  BY DEF TypeOK, GatewayTypes, BackupTypes, CheckedTypes, Events

LEMMA GatewayStepTypes ==
  ASSUME TypeOK, \/ Migrate \/ Listen \/ Write \/ ContainerRestarts \/ Deploy \/ Post \/ Tick
                 \/ Reboot
  PROVE  GatewayTypes'
  <1> USE DEF GatewayTypes
  <1>0. GatewayTypes
    BY TypeParts
  <1>1. coolify' = coolify \/ coolify' = TRUE \/ coolify' = FALSE
    BY DEF Migrate, Listen, Write, ContainerRestarts, Deploy, Post, Tick, Reboot, gateway
  <1>2. coolify' \in BOOLEAN
    BY <1>0, <1>1, Zenon
  <1>3. CASE Migrate \/ Write
    BY <1>0, <1>2, <1>3 DEF Migrate, Write, Migrated, Databases
  <1>4. CASE Listen \/ ContainerRestarts
    BY <1>0, <1>2, <1>4 DEF Listen, ContainerRestarts
  <1>5. CASE Deploy
    <2>1. app' \in [id : Nat, phase : {"booting", "ready", "stopped"}]
      <3>1. app.id + 1 \in Nat
        BY <1>0
      <3>2. \/ app' = [app EXCEPT !.phase = "stopped"]
            \/ app' = [id |-> app.id + 1, phase |-> "booting"]
            \/ app' = app
        BY <1>5 DEF Deploy
      <3> QED BY <1>0, <3>1, <3>2
    <2> QED BY <1>0, <1>2, <1>5, <2>1 DEF Deploy
  <1>6. CASE Post \/ Tick
    BY <1>0, <1>2, <1>6 DEF Post, Tick, gateway
  <1>7. CASE Reboot
    BY <1>0, <1>2, <1>7 DEF Reboot
  <1> QED BY <1>3, <1>4, <1>5, <1>6, <1>7

LEMMA BackupStepTypes ==
  ASSUME TypeOK, NEW r \in Runners,
         \/ BackupBegins(r) \/ Snapshot(r) \/ CopyOut(r) \/ Compare(r) \/ Publish(r)
         \/ RecordSuccess(r) \/ Prune(r) \/ BackupBreaks(r)
  PROVE  BackupTypes' /\ release' \in Release
  <1> USE DEF BackupTypes
  <1>0. BackupTypes /\ release \in Release /\ clock \in Nat /\ db \in Databases
    BY TypeParts DEF GatewayTypes
  <1>1. ASSUME NEW ok \in BOOLEAN, Returns(r, ok)
        PROVE  backup' \in [Runners -> BackupRun] /\ release' \in Release
    <2>1. backup' \in [Runners -> BackupRun]
      BY <1>0, <1>1, RunTypes DEF Returns
    <2>2. NoRelease \in Release /\ [release EXCEPT !.at = "posting"] \in Release
      BY <1>0, ReleaseTypes
    <2>3. release' \in Release
      BY <1>0, <1>1, <2>2 DEF Returns
    <2> QED BY <2>1, <2>3
  <1>2. CASE BackupBegins(r)
    <2>1. [NoRun EXCEPT !.at = "begun", !.stamp = clock] \in BackupRun
      BY <1>0 DEF NoRun, BackupRun, Databases
    <2>2. backup' \in [Runners -> BackupRun] /\ release' \in Release
      BY <1>0, <1>1, <1>2, <2>1, ReleaseTypes DEF BackupBegins
    <2> QED BY <1>0, <1>2, <2>2 DEF BackupBegins, disk
  <1>3. CASE Snapshot(r)
    BY <1>0, <1>3, RunTypes DEF Snapshot, disk, releases
  <1>4. CASE CopyOut(r)
    <2>1. /\ File(backup[r].stamp, backup[r].copy, TRUE) \in Files
          /\ File(backup[r].stamp, backup[r].copy, FALSE) \in Files
      BY FileTypes
    <2>2. staging' \subseteq Files
      <3>1. \E f \in Files : staging' = (staging \ Staged(backup[r].stamp)) \cup {f}
        BY <1>4, <2>1 DEF CopyOut
      <3> QED BY <1>0, <3>1
    <2>3. To(r, "copied") \in [Runners -> BackupRun] /\ To(r, "comparing") \in [Runners -> BackupRun]
      BY <1>0, RunTypes DEF To, Taken
    <2> QED BY <1>0, <1>4, <2>2, <2>3 DEF CopyOut, releases
  <1>5. CASE Compare(r)
    BY <1>0, <1>5, RunTypes DEF Compare, To, Taken, disk, releases
  <1>6. CASE Publish(r)
    <2>1. staging' \subseteq Files /\ finals' \subseteq Files
      BY <1>0, <1>6 DEF Publish, Staged
    <2> QED BY <1>0, <1>6, <2>1, RunTypes DEF Publish, To, Taken, releases
  <1>7. CASE RecordSuccess(r)
    BY <1>0, <1>7, FileTypes, RunTypes DEF RecordSuccess, To, Taken, releases
  <1>8. CASE Prune(r)
    BY <1>0, <1>1, <1>8 DEF Prune
  <1>9. CASE BackupBreaks(r)
    BY <1>0, <1>1, <1>9 DEF BackupBreaks, BackupFails
  <1> QED BY <1>2, <1>3, <1>4, <1>5, <1>6, <1>7, <1>8, <1>9

LEMMA CheckStepTypes ==
  ASSUME TypeOK, NEW r \in Runners,
         CheckBegins(r) \/ Probe(r) \/ CheckAborts(r) \/ Age(r) \/ Tell(r)
  PROVE  CheckedTypes' /\ release' \in Release
  <1> USE DEF CheckedTypes
  <1>0. CheckedTypes /\ release \in Release
    BY TypeParts
  <1>1. \A v \in Judged : Records(r, v) =>
          /\ status' \in Judged /\ history' \in Seq(Events)
          /\ check' \in [Runners -> CheckRun]
    BY <1>0, CheckTypes DEF Records, Events
  <1>2. ASSUME NEW ok \in BOOLEAN, CheckReturns(r, ok)
        PROVE  check' \in [Runners -> CheckRun] /\ checkLock' = None /\ release' \in Release
    <2>1. check' \in [Runners -> CheckRun]
      BY <1>0, <1>2, CheckTypes DEF CheckReturns
    <2>2. NoRelease \in Release
      BY <1>0, ReleaseTypes
    <2> QED BY <1>0, <1>2, <2>1, <2>2 DEF CheckReturns, releases
  <1>3. CASE CheckBegins(r)
    <2>1. NoRelease \in Release
      BY <1>0, ReleaseTypes
    <2>2. [check EXCEPT ![r] = [at |-> "probing", previous |-> status]] \in [Runners -> CheckRun]
      BY <1>0, CheckTypes
    <2>3. release' \in Release /\ check' \in [Runners -> CheckRun]
      BY <1>0, <1>3, <2>1, <2>2 DEF CheckBegins, releases
    <2> QED BY <1>0, <1>3, <2>3 DEF CheckBegins
  <1>4. CASE Probe(r)
    <2>1. [check EXCEPT ![r].at = "aging"] \in [Runners -> CheckRun]
      BY <1>0, CheckTypes
    <2> QED BY <1>0, <1>1, <1>4, <2>1 DEF Probe, releases, Judged
  <1>5. CASE CheckAborts(r)
    BY <1>0, <1>2, <1>5 DEF CheckAborts
  <1>6. CASE Age(r)
    BY <1>0, <1>1, <1>6 DEF Age, releases, Judged
  <1>7. CASE Tell(r)
    <2>1. history' \in Seq(Events)
      BY <1>0, <1>7 DEF Tell, Word, Events, Tellings
    <2> QED BY <1>0, <1>2, <1>7, <2>1 DEF Tell
  <1> QED BY <1>3, <1>4, <1>5, <1>6, <1>7

LEMMA ReleaseStepTypes ==
  ASSUME TypeOK, ReleaseBegins \/ Build \/ Post \/ Replaced \/ ReleaseFails
  PROVE  release' \in Release
  <1>0. release \in Release /\ app.id \in Nat /\ db.writes \in Nat
    BY DEF TypeOK, Databases
  <1>1. CASE ReleaseBegins
    BY <1>0, <1>1 DEF ReleaseBegins, Release, NoRelease
  <1>2. CASE Build \/ Post \/ Replaced \/ ReleaseFails
    BY <1>0, <1>2, ReleaseTypes DEF Build, AfterBuild, Post, Replaced, ReleaseFails
  <1> QED BY <1>1, <1>2

LEMMA RebootTypes ==
  ASSUME TypeOK, Reboot
  PROVE  BackupTypes' /\ CheckedTypes' /\ release' \in Release
  <1>0. BackupTypes /\ CheckedTypes /\ release \in Release
    BY TypeParts
  <1>1. backup' \in [Runners -> BackupRun] /\ check' \in [Runners -> CheckRun]
    BY DEF Reboot, NoRun, BackupRun, Databases, NoCheck, CheckRun
  <1>2. history' \in Seq(Events)
    BY <1>0 DEF Reboot, CheckedTypes, Events
  <1> QED BY <1>0, <1>1, <1>2, ReleaseTypes
          DEF Reboot, BackupTypes, CheckedTypes, disk

LEMMA TypeStep == ASSUME TypeOK, [Next]_vars PROVE TypeOK'
  <1>0. GatewayTypes /\ BackupTypes /\ CheckedTypes /\ release \in Release
    BY TypeParts
  <1> SUFFICES GatewayTypes' /\ BackupTypes' /\ CheckedTypes' /\ release' \in Release
    BY DEF TypeOK, GatewayTypes, BackupTypes, CheckedTypes, Events
  <1>1. UNCHANGED <<clock, gateway>> => GatewayTypes'
    BY <1>0 DEF gateway, GatewayTypes
  <1>2. UNCHANGED backups => BackupTypes'
    BY <1>0 DEF backups, disk, BackupTypes
  <1>3. UNCHANGED checks => CheckedTypes'
    BY <1>0 DEF checks, CheckedTypes
  <1>4. UNCHANGED releases => release' \in Release
    BY <1>0 DEF releases
  <1>5. CASE Migrate \/ Listen \/ Write \/ ContainerRestarts \/ Deploy \/ Tick
    <2>1. UNCHANGED <<backups, checks, releases>>
      BY <1>5 DEF Migrate, Listen, Write, ContainerRestarts, Deploy, Tick
    <2> QED BY <1>2, <1>3, <1>4, <1>5, <2>1, GatewayStepTypes
  <1>6. ASSUME NEW r \in Runners,
               \/ BackupBegins(r) \/ Snapshot(r) \/ CopyOut(r) \/ Compare(r) \/ Publish(r)
               \/ RecordSuccess(r) \/ Prune(r) \/ BackupBreaks(r)
        PROVE  GatewayTypes' /\ BackupTypes' /\ CheckedTypes' /\ release' \in Release
    <2>1. UNCHANGED <<clock, gateway, checks>>
      BY <1>6 DEF BackupBegins, Snapshot, CopyOut, Compare, Publish, RecordSuccess, Prune,
                  BackupBreaks
    <2> QED BY <1>1, <1>3, <1>6, <2>1, BackupStepTypes
  <1>7. ASSUME NEW r \in Runners,
               CheckBegins(r) \/ Probe(r) \/ CheckAborts(r) \/ Age(r) \/ Tell(r)
        PROVE  GatewayTypes' /\ BackupTypes' /\ CheckedTypes' /\ release' \in Release
    <2>1. UNCHANGED <<clock, gateway, backups>>
      BY <1>7 DEF CheckBegins, Probe, CheckAborts, Age, Tell
    <2> QED BY <1>1, <1>2, <1>7, <2>1, CheckStepTypes
  <1>8. CASE ReleaseBegins \/ Build \/ Post \/ Replaced \/ ReleaseFails
    <2>1. UNCHANGED <<backups, checks>>
      BY <1>8 DEF ReleaseBegins, Build, Post, Replaced, ReleaseFails
    <2>2. GatewayTypes'
      <3>1. CASE Post
        BY <3>1, GatewayStepTypes
      <3>2. CASE ReleaseBegins \/ Build \/ Replaced \/ ReleaseFails
        BY <3>2, <1>1 DEF ReleaseBegins, Build, Replaced, ReleaseFails
      <3> QED BY <1>8, <3>1, <3>2
    <2> QED BY <1>2, <1>3, <1>8, <2>1, <2>2, ReleaseStepTypes
  <1>9. CASE Reboot
    BY <1>9, GatewayStepTypes, RebootTypes
  <1>10. CASE UNCHANGED vars
    BY <1>1, <1>2, <1>3, <1>4, <1>10 DEF vars
  <1> QED BY <1>5, <1>6, <1>7, <1>8, <1>9, <1>10 DEF Next

-----------------------------------------------------------------------------
(* The database, and the backups taken of it.                              *)

(* Migrations come before the first write of a boot, and stay.             *)
LEMMA MigrationsStep ==
  ASSUME TypeOK, Migrations, [Next]_vars
  PROVE  Migrations'
  <1> USE DEF Migrations, Sound, Serving, Schema
  <1>0. db \in Databases /\ db.schema \in Nat /\ db.writes \in Nat
        /\ app \in [id : Nat, phase : {"booting", "ready", "stopped"}]
    BY DEF TypeOK, Databases
  <1>1. CASE UNCHANGED <<app, db>>
    BY <1>1
  <1>2. CASE Migrate
    <2>1. db' = [schema |-> db.schema + 1, writes |-> db.writes] /\ UNCHANGED app
      BY <1>0, <1>2 DEF Migrate, Migrated, Databases
    <2> QED BY <1>0, <1>2, <2>1 DEF Migrate
  <1>3. CASE Listen
    BY <1>0, <1>3 DEF Listen
  <1>4. CASE Write
    <2>1. db' = [schema |-> db.schema, writes |-> db.writes + 1] /\ UNCHANGED app
      BY <1>0, <1>4 DEF Write, Databases
    <2> QED BY <1>0, <1>4, <2>1 DEF Write
  <1>5. CASE ContainerRestarts
    BY <1>0, <1>5 DEF ContainerRestarts
  <1>6. CASE Deploy
    <2>1. \/ app' = [app EXCEPT !.phase = "stopped"]
          \/ app' = [id |-> app.id + 1, phase |-> "booting"]
          \/ app' = app
      BY <1>6 DEF Deploy
    <2>2. app' = app \/ app'.phase # "ready"
      BY <1>0, <2>1
    <2> QED BY <1>6, <2>2 DEF Deploy
  <1>7. CASE Reboot
    <2>1. UNCHANGED db /\ (app' = app \/ app'.phase = "booting")
      BY <1>0, <1>7 DEF Reboot
    <2> QED BY <2>1
  <1>8. \/ UNCHANGED <<app, db>> \/ Migrate \/ Listen \/ Write \/ ContainerRestarts \/ Deploy
        \/ Reboot
    BY DEF Next, vars, gateway, BackupBegins, Snapshot, CopyOut, Compare, Publish, RecordSuccess,
       Prune, BackupBreaks, CheckBegins, Probe, CheckAborts, Age, Tell, ReleaseBegins, Build,
       Post, Replaced, ReleaseFails, Tick
  <1> QED BY <1>1, <1>2, <1>3, <1>4, <1>5, <1>6, <1>7, <1>8

Stands(f) == f.whole /\ Sound(f)

LEMMA WhatStands ==
  ASSUME TypeOK
  PROVE  BackupsStand <=>
           /\ \A f \in finals : Stands(f)
           /\ lastSuccess # Never => \E f \in finals : f.stamp = lastSuccess
  BY DEF BackupsStand, Stands, Sound, Verifies

LEMMA OwnStands ==
  ASSUME TypeOK, Runs, NEW r \in Runners
  PROVE  Stands(Own(r)) /\ Own(r).stamp = backup[r].stamp
  BY DEF Runs, Copies, Own, File, Stands, Sound

LEMMA OtherRunIdle ==
  ASSUME TypeOK, Runs, NEW r \in Runners, backup[r].at # "idle"
  PROVE  /\ backupLock = r /\ clock <= backup[r].stamp + Retention
         /\ \A q \in Runners : q # r => backup[q].at = "idle"
  BY DEF Runs, Locked

(* What is left to show when r takes a step: the rest stays idle.          *)
LEMMA RunMoves ==
  ASSUME TypeOK, Runs, TypeOK', NEW r \in Runners,
         \A q \in Runners : q # r => backup[q].at = "idle" /\ backup'[q] = backup[q],
         Locked(r)', Copies(r)',
         \A f \in finals' : Stands(f),
         lastSuccess' # Never => \E f \in finals' : f.stamp = lastSuccess'
  PROVE  Runs'
  <1>1. ASSUME NEW q \in Runners, q # r
        PROVE  Locked(q)' /\ Copies(q)'
    <2>1. backup'[q].at = "idle" /\ backup'[q] = backup[q]
      BY <1>1
    <2>2. Sound(backup[q].copy)
      BY DEF Runs, Copies
    <2>3. Sound(backup'[q].copy)
      BY <2>1, <2>2
    <2> QED BY <2>1, <2>3 DEF Locked, Copies, Kept, Sound
  <1>2. BackupsStand'
    BY DEF BackupsStand, Stands, Sound, Verifies
  <1> QED BY <1>1, <1>2 DEF Runs

LEMMA Moved ==
  ASSUME TypeOK, NEW r \in Runners, NEW step, backup' = To(r, step)
  PROVE  /\ backup'[r].at = step
         /\ backup'[r].stamp = backup[r].stamp /\ backup'[r].copy = backup[r].copy
         /\ \A q \in Runners : q # r => backup'[q] = backup[q]
  BY DEF TypeOK, BackupRun, To

LEMMA BackupBeginsRuns ==
  ASSUME TypeOK, TypeOK', Runs, NEW r \in Runners, BackupBegins(r)
  PROVE  Runs'
  <1>1. UNCHANGED <<clock, staging, finals, lastSuccess>>
    BY DEF BackupBegins, disk
  <1>2. CASE UNCHANGED <<backup, backupLock>>
    BY <1>1, <1>2 DEF Runs, Locked, Copies, Own, Matches, Staged, BackupsStand
  <1>3. backup[r] = NoRun /\ backup[r].at = "idle"
    BY DEF BackupBegins, NoRun
  <1>4. CASE ~ Held(r) /\ ~ UNCHANGED <<backup, backupLock>>
    <2>1. \A q \in Runners : backup[q].at = "idle"
      BY <1>4 DEF Held, Runs, Locked, Runners, None
    <2>2. CASE app.phase = "stopped"
      <3>1. backup' = backup
        BY <1>3, <1>4, <2>2 DEF BackupBegins, Returns, TypeOK
      <3> QED BY <1>1, <3>1, <2>1 DEF Runs, Locked, Copies, Kept, BackupsStand
    <2>3. CASE app.phase # "stopped"
      <3>1. /\ backup'[r] = [NoRun EXCEPT !.at = "begun", !.stamp = clock]
            /\ backupLock' = r
            /\ \A q \in Runners : q # r => backup'[q] = backup[q]
        BY <1>4, <2>3 DEF BackupBegins, TypeOK
      <3>2. backup'[r].at = "begun" /\ backup'[r].stamp = clock /\ backup'[r].copy.writes = 0
        BY <3>1 DEF NoRun
      <3>3. Locked(r)'
        BY <1>1, <3>1, <3>2, HostAssumption DEF Locked, TypeOK
      <3>4. Copies(r)'
        BY <3>2 DEF Copies, Sound, Kept
      <3> QED BY <1>1, <2>1, <3>1, <3>3, <3>4, RunMoves, WhatStands DEF Runs
    <2> QED BY <2>2, <2>3
  <1> QED BY <1>2, <1>4 DEF BackupBegins

LEMMA SnapshotRuns ==
  ASSUME TypeOK, TypeOK', Migrations, Runs, NEW r \in Runners, Snapshot(r)
  PROVE  Runs'
  <1>1. UNCHANGED <<clock, backupLock, staging, finals, lastSuccess>>
    BY DEF Snapshot, disk
  <1>2. /\ backup'[r].at = "copying" /\ backup'[r].copy = db
        /\ backup'[r].stamp = backup[r].stamp
        /\ \A q \in Runners : q # r => backup'[q] = backup[q]
    BY DEF Snapshot, TypeOK, BackupRun
  <1>3. Locked(r)'
    BY <1>1, <1>2, OtherRunIdle DEF Locked, Snapshot
  <1>4. Copies(r)'
    BY <1>2 DEF Copies, Sound, Migrations, Kept
  <1>5. \A q \in Runners : q # r => backup[q].at = "idle"
    BY OtherRunIdle DEF Snapshot
  <1> QED BY <1>1, <1>2, <1>3, <1>4, <1>5, RunMoves, WhatStands DEF Runs

LEMMA CopyOutRuns ==
  ASSUME TypeOK, TypeOK', Runs, NEW r \in Runners, CopyOut(r)
  PROVE  Runs'
  <1>1. UNCHANGED <<clock, backupLock, finals, lastSuccess>>
    BY DEF CopyOut
  <1>2. PICK step \in {"copied", "comparing"} : backup' = To(r, step)
    BY DEF CopyOut
  <1>3. backup[r].at # "idle"
    BY DEF CopyOut
  <1>4. Locked(r)'
    BY <1>1, <1>2, <1>3, Moved, OtherRunIdle DEF Locked
  <1>5. Copies(r)'
    <2>1. Sound(backup[r].copy)
      BY DEF Runs, Copies
    <2>2. Sound(backup'[r].copy)
      BY <2>1, <1>2, Moved
    <2>3. backup'[r].at \in {"copied", "comparing"}
      BY <1>2, Moved
    <2> QED BY <2>2, <2>3 DEF Copies, Sound, Kept
  <1> QED BY <1>1, <1>2, <1>3, <1>4, <1>5, Moved, OtherRunIdle, RunMoves, WhatStands DEF Runs

LEMMA CompareRuns ==
  ASSUME TypeOK, TypeOK', Runs, NEW r \in Runners, Compare(r)
  PROVE  Runs'
  <1>1. UNCHANGED <<clock, backupLock, staging, finals, lastSuccess>>
    BY DEF Compare, disk
  <1>2. backup' = To(r, "publishing") /\ backup[r].at # "idle" /\ Matches(r)
    BY DEF Compare
  <1>3. Locked(r)'
    BY <1>1, <1>2, Moved, OtherRunIdle DEF Locked
  <1>4. Copies(r)'
    <2>1. Sound(backup[r].copy)
      BY DEF Runs, Copies
    <2>2. backup'[r].at = "publishing" /\ backup'[r].copy = backup[r].copy
          /\ backup'[r].stamp = backup[r].stamp
      BY <1>2, Moved
    <2>3. Matches(r)'
      BY <1>1, <1>2, <2>2 DEF Matches, Staged
    <2> QED BY <2>1, <2>2, <2>3 DEF Copies, Sound, Kept
  <1> QED BY <1>1, <1>2, <1>3, <1>4, Moved, OtherRunIdle, RunMoves, WhatStands DEF Runs

LEMMA PublishRuns ==
  ASSUME TypeOK, TypeOK', Runs, NEW r \in Runners, Publish(r)
  PROVE  Runs'
  <1>1. UNCHANGED <<clock, backupLock, lastSuccess>>
    BY DEF Publish
  <1>2. backup' = To(r, "published") /\ backup[r].at = "publishing"
    BY DEF Publish
  <1>3. finals' = {f \in finals : f.stamp # backup[r].stamp} \cup {Own(r)}
    BY DEF Publish, Runs, Copies, Matches, Own
  <1>4. Locked(r)'
    BY <1>1, <1>2, Moved, OtherRunIdle DEF Locked
  <1>5. Copies(r)'
    <2>1. Sound(backup[r].copy)
      BY DEF Runs, Copies
    <2>2. backup'[r].at = "published" /\ backup'[r].copy = backup[r].copy
          /\ backup'[r].stamp = backup[r].stamp
      BY <1>2, Moved
    <2>3. Own(r)' \in finals'
      BY <2>2, <1>3 DEF Own, File
    <2> QED BY <2>1, <2>2, <2>3 DEF Copies, Sound, Kept
  <1>6. \A f \in finals' : Stands(f)
    BY <1>3, OwnStands, WhatStands DEF Runs
  <1>7. lastSuccess' # Never => \E f \in finals' : f.stamp = lastSuccess'
    BY <1>1, <1>3, OwnStands, WhatStands DEF Runs
  <1> QED BY <1>2, <1>4, <1>5, <1>6, <1>7, Moved, OtherRunIdle, RunMoves

LEMMA RecordSuccessRuns ==
  ASSUME TypeOK, TypeOK', Runs, NEW r \in Runners, RecordSuccess(r)
  PROVE  Runs'
  <1>1. UNCHANGED <<clock, backupLock, staging, finals>> /\ lastSuccess' = backup[r].stamp
    BY DEF RecordSuccess
  <1>2. backup' = To(r, "pruning") /\ backup[r].at = "published"
    BY DEF RecordSuccess
  <1>3. Own(r) \in finals
    BY <1>2 DEF Runs, Copies, Kept
  <1>4. Locked(r)'
    BY <1>1, <1>2, Moved, OtherRunIdle DEF Locked
  <1>5. Copies(r)'
    <2>1. Sound(backup[r].copy)
      BY DEF Runs, Copies
    <2>2. backup'[r].at = "pruning" /\ backup'[r].copy = backup[r].copy
          /\ backup'[r].stamp = backup[r].stamp
      BY <1>2, Moved
    <2>3. Own(r)' \in finals'
      BY <1>1, <1>3, <2>2 DEF Own, File
    <2> QED BY <1>1, <2>1, <2>2, <2>3 DEF Copies, Sound
  <1>6. lastSuccess' # Never => \E f \in finals' : f.stamp = lastSuccess'
    BY <1>1, <1>3, OwnStands
  <1> QED BY <1>1, <1>2, <1>4, <1>5, <1>6, Moved, OtherRunIdle, RunMoves, WhatStands DEF Runs

(* A run that is over: what it leaves behind is what matters.              *)
LEMMA EndedRun ==
  ASSUME TypeOK, TypeOK', Runs, NEW r \in Runners, backup[r].at # "idle",
         backup' = [backup EXCEPT ![r] = NoRun],
         \A f \in finals' : Stands(f),
         lastSuccess' # Never => \E f \in finals' : f.stamp = lastSuccess'
  PROVE  Runs'
  <1>1. backup'[r] = NoRun /\ \A q \in Runners : q # r => backup'[q] = backup[q]
    BY DEF TypeOK
  <1>2. backup'[r].at = "idle" /\ backup'[r].copy.writes = 0
    BY <1>1 DEF NoRun
  <1>3. Locked(r)' /\ Copies(r)'
    BY <1>2 DEF Locked, Copies, Sound, Kept
  <1> QED BY <1>1, <1>3, OtherRunIdle, RunMoves

LEMMA PruneRuns ==
  ASSUME TypeOK, TypeOK', Runs, NEW r \in Runners, Prune(r)
  PROVE  Runs' /\ Own(r) \in finals'
  <1>1. /\ backup[r].at = "pruning" /\ finals' = finals \ Expired /\ UNCHANGED lastSuccess
        /\ backup' = [backup EXCEPT ![r] = NoRun]
    BY DEF Prune, Returns
  <1>2. lastSuccess = backup[r].stamp /\ Own(r) \in finals
    BY <1>1 DEF Runs, Copies, Kept
  <1>3. Own(r) \notin Expired
    <2>1. clock <= backup[r].stamp + Retention
      BY <1>1, OtherRunIdle
    <2>2. clock \in Nat /\ backup[r].stamp \in Nat /\ Retention \in Nat
      BY FileTypes, HostAssumption DEF TypeOK
    <2>3. ~ (clock - backup[r].stamp > Retention)
      BY <2>1, <2>2
    <2> QED BY <2>3, OwnStands DEF Expired
  <1>4. \A f \in finals' : Stands(f)
    BY <1>1, WhatStands DEF Runs
  <1>5. lastSuccess' # Never => \E f \in finals' : f.stamp = lastSuccess'
    BY <1>1, <1>2, <1>3, OwnStands
  <1> QED BY <1>1, <1>2, <1>3, <1>4, <1>5, EndedRun

LEMMA BackupBreaksRuns ==
  ASSUME TypeOK, TypeOK', Runs, NEW r \in Runners, BackupBreaks(r)
  PROVE  Runs'
  <1>1. /\ backup[r].at # "idle" /\ UNCHANGED <<finals, lastSuccess>>
        /\ backup' = [backup EXCEPT ![r] = NoRun]
    BY DEF BackupBreaks, BackupFails, Returns
  <1>2. \A f \in finals' : Stands(f)
    BY <1>1, WhatStands DEF Runs
  <1>3. lastSuccess' # Never => \E f \in finals' : f.stamp = lastSuccess'
    BY <1>1, WhatStands DEF Runs
  <1> QED BY <1>1, <1>2, <1>3, EndedRun

(* A reboot ends every run where it is; time passes for those under way.   *)
LEMMA RebootOrTickRuns ==
  ASSUME TypeOK, TypeOK', Runs, Reboot \/ Tick
  PROVE  Runs'
  <1>1. UNCHANGED <<staging, finals, lastSuccess>>
    BY DEF Reboot, Tick, backups, disk
  <1>2. BackupsStand'
    BY <1>1 DEF Runs, BackupsStand
  <1>3. CASE Reboot
    <2>1. \A q \in Runners : backup'[q] = NoRun
      BY <1>3 DEF Reboot
    <2>2. \A q \in Runners : backup'[q].at = "idle" /\ backup'[q].copy.writes = 0
      BY <2>1 DEF NoRun
    <2> QED BY <1>2, <2>2 DEF Runs, Locked, Copies, Sound, Kept
  <1>4. CASE Tick
    <2>1. UNCHANGED <<backup, backupLock>>
      BY <1>4 DEF Tick, backups
    <2>2. ASSUME NEW q \in Runners
          PROVE  Locked(q)'
      <3>1. clock \in Nat /\ backup[q].stamp \in Nat /\ Retention \in Nat
        BY FileTypes, HostAssumption DEF TypeOK
      <3>2. backup[q].at # "idle" => clock < backup[q].stamp + Retention /\ backupLock = q
        BY <1>4, OtherRunIdle DEF Tick
      <3>3. clock' = clock + 1
        BY <1>4 DEF Tick
      <3> QED BY <2>1, <3>1, <3>2, <3>3 DEF Locked
    <2>3. \A q \in Runners : Copies(q)'
      BY <1>1, <2>1 DEF Runs, Copies, Own, Matches, Staged
    <2> QED BY <1>2, <2>2, <2>3 DEF Runs
  <1> QED BY <1>3, <1>4

LEMMA RunsStep ==
  ASSUME TypeOK, TypeOK', Migrations, Runs, [Next]_vars
  PROVE  Runs'
  <1>1. CASE UNCHANGED <<clock, backups>>
    BY <1>1 DEF backups, disk, Runs, Locked, Copies, Own, Matches, Staged, BackupsStand
  <1>2. ASSUME NEW r \in Runners,
               \/ BackupBegins(r) \/ Snapshot(r) \/ CopyOut(r) \/ Compare(r) \/ Publish(r)
               \/ RecordSuccess(r) \/ Prune(r) \/ BackupBreaks(r)
        PROVE  Runs'
    BY <1>2, BackupBeginsRuns, SnapshotRuns, CopyOutRuns, CompareRuns, PublishRuns,
       RecordSuccessRuns, PruneRuns, BackupBreaksRuns
  <1>3. \/ UNCHANGED <<clock, backups>>
        \/ \E r \in Runners :
             \/ BackupBegins(r) \/ Snapshot(r) \/ CopyOut(r) \/ Compare(r) \/ Publish(r)
             \/ RecordSuccess(r) \/ Prune(r) \/ BackupBreaks(r)
        \/ Reboot \/ Tick
    BY DEF Next, vars, Migrate, Listen, Write, ContainerRestarts, Deploy, CheckBegins, Probe,
       CheckAborts, Age, Tell, ReleaseBegins, Build, Post, Replaced, ReleaseFails
  <1> QED BY <1>1, <1>2, <1>3, RebootOrTickRuns

-----------------------------------------------------------------------------
(* What a release may count on.                                            *)

LEMMA ReleaseFields ==
  ASSUME TypeOK
  PROVE  /\ release \in Release /\ release.writes \in Nat
         /\ db.writes \in Nat /\ db \in Databases
         /\ \A r \in Runners : backup[r].copy.writes \in Nat
         /\ \A f \in finals : f.writes \in Nat
  BY DEF TypeOK, Release, Databases, BackupRun, Files

(* Writes are never undone, and runs that lose nothing leave the release   *)
(* what it has.                                                            *)
LEMMA SameReleaseKeeps ==
  ASSUME TypeOK, TypeOK', Releases, release' = release, db'.writes >= db.writes,
         finals' = finals, check'["release"].at # "idle" => check["release"].at # "idle",
         \A r \in Runners :
           \/ backup'[r] = backup[r]
           \/ r = "cron" /\ backup'[r].at \notin Taken
           \/ backup'[r].at = "idle"
           \/ /\ backup[r].at \in Taken /\ backup'[r].at \in Taken
              /\ backup'[r].copy = backup[r].copy
  PROVE  Releases'
  <1>1. "release" \in Runners
    BY DEF Runners
  <1>2. \A r \in Runners : backup'[r].at \in Taken =>
          backup[r].at \in Taken /\ backup'[r].copy = backup[r].copy
    BY DEF Taken
  <1>3. release'.at # "idle" => release'.writes <= db'.writes
    BY ReleaseFields DEF Releases, TypeOK, Databases
  <1>4. backup'["release"].at # "idle" => release'.at = "backup"
    BY <1>1 DEF Releases, Taken
  <1>5. check'["release"].at # "idle" => release'.at = "checking"
    BY DEF Releases
  <1>6. backup'["release"].at \in Taken => backup'["release"].copy.writes >= release'.writes
    BY <1>1, <1>2 DEF Releases
  <1>7. release'.at = "posting" /\ ~release'.skipped => Covered'
    <2>1. Covered => Covered'
      BY <1>2 DEF Covered
    <2> QED BY <2>1 DEF Releases
  <1> QED BY <1>3, <1>4, <1>5, <1>6, <1>7 DEF Releases

(* A release that is over, or has not reached its deployment.              *)
LEMMA EarlyReleaseKeeps ==
  ASSUME release'.at # "idle" => release'.writes <= db'.writes,
         release'.at = "posting" => release'.skipped,
         backup'["release"].at = "idle",
         check'["release"].at # "idle" => release'.at = "checking"
  PROVE  Releases'
  BY DEF Releases, Taken

LEMMA BackupBeginsReleases ==
  ASSUME TypeOK, TypeOK', Releases, NEW r \in Runners, BackupBegins(r)
  PROVE  Releases'
  <1>0. UNCHANGED <<db, finals, check>> /\ backup[r] = NoRun /\ backup[r].at = "idle"
    BY DEF BackupBegins, disk, gateway, checks, NoRun
  <1>1. release.writes <= db.writes \/ release.at = "idle"
    BY DEF Releases
  <1>2. CASE r = "cron"
    <2>1. release' = release
      BY <1>2 DEF BackupBegins, Returns
    <2>2. \A q \in Runners : backup'[q] = backup[q] \/ (q = "cron" /\ backup'[q].at \notin Taken)
      <3>1. backup \in [Runners -> BackupRun]
        BY DEF TypeOK
      <3>2. CASE backup' = backup
        BY <3>2
      <3>3. CASE backup' = [backup EXCEPT ![r] = NoRun]
        BY <1>2, <3>1, <3>3 DEF NoRun, Taken
      <3>4. CASE backup' = [backup EXCEPT ![r] = [NoRun EXCEPT !.at = "begun", !.stamp = clock]]
        <4>1. backup'[r].at = "begun" /\ \A q \in Runners : q # r => backup'[q] = backup[q]
          BY <3>1, <3>4 DEF NoRun
        <4> QED BY <1>2, <4>1 DEF Taken
      <3> QED BY <3>2, <3>3, <3>4 DEF BackupBegins, Returns
    <2> QED BY <1>0, <2>1, <2>2, ReleaseFields, SameReleaseKeeps
  <1>3. CASE r = "release"
    <2>0. release.at = "backup" /\ check["release"].at = "idle"
      BY <1>3 DEF BackupBegins, Asked, Releases
    <2>1. CASE Held(r)
      <3>1. release' = [release EXCEPT !.at = "posting", !.skipped = TRUE] /\ backup' = backup
        BY <1>3, <2>1 DEF BackupBegins
      <3>2. release'.at = "posting" /\ release'.skipped /\ release'.writes = release.writes
        BY <3>1, ReleaseFields DEF Release
      <3> QED BY <1>0, <1>1, <1>3, <2>0, <3>1, <3>2, EarlyReleaseKeeps
    <2>2. CASE ~ Held(r) /\ app.phase = "stopped"
      <3>1. release' = NoRelease /\ backup'[r] = NoRun
        BY <1>3, <2>2 DEF BackupBegins, Returns, TypeOK
      <3>2. release'.at = "idle" /\ backup'["release"].at = "idle"
        BY <1>3, <3>1 DEF NoRelease, NoRun
      <3> QED BY <1>0, <2>0, <3>2, EarlyReleaseKeeps
    <2>3. CASE ~ Held(r) /\ app.phase # "stopped"
      <3>1. release' = release /\ backup'[r].at = "begun"
        BY <2>3 DEF BackupBegins, TypeOK, NoRun
      <3> QED BY <1>0, <1>1, <1>3, <2>0, <3>1 DEF Releases, Taken
    <2> QED BY <2>1, <2>2, <2>3
  <1> QED BY <1>2, <1>3 DEF Runners

LEMMA SnapshotReleases ==
  ASSUME TypeOK, TypeOK', Releases, NEW r \in Runners, Snapshot(r)
  PROVE  Releases'
  <1>0. UNCHANGED <<db, finals, check, release>> /\ backup[r].at = "begun"
    BY DEF Snapshot, disk, gateway, checks, releases
  <1>1. backup'[r].at = "copying" /\ backup'[r].copy = db
        /\ \A q \in Runners : q # r => backup'[q] = backup[q]
    BY DEF Snapshot, TypeOK, BackupRun
  <1>2. r = "release" => release.at = "backup" /\ release.writes <= db.writes
    BY <1>0 DEF Releases
  <1>3. release.at = "posting" => release.writes <= db.writes
    BY DEF Releases
  <1>4. release.at = "posting" /\ ~release.skipped => Covered'
    <2>1. Covered /\ release.at = "posting" => Covered'
      BY <1>0, <1>1, <1>3, ReleaseFields DEF Covered
    <2> QED BY <2>1 DEF Releases
  <1>5. backup'["release"].at # "idle" => release.at = "backup"
    BY <1>0, <1>1, <1>2 DEF Releases, Runners
  <1>6. backup'["release"].at \in Taken => backup'["release"].copy.writes >= release.writes
    BY <1>0, <1>1, <1>2, ReleaseFields DEF Releases, Runners
  <1> QED BY <1>0, <1>4, <1>5, <1>6 DEF Releases

(* The run goes on with the copy it has.                                   *)
LEMMA CopiedReleases ==
  ASSUME TypeOK, TypeOK', Releases, NEW r \in Runners,
         CopyOut(r) \/ Compare(r) \/ RecordSuccess(r)
  PROVE  Releases'
  <1>0. UNCHANGED <<db, finals, check, release>> /\ backup[r].at \in Taken
    BY DEF CopyOut, Compare, RecordSuccess, disk, gateway, checks, releases, Taken
  <1>1. PICK step \in Taken : backup' = To(r, step)
    BY DEF CopyOut, Compare, RecordSuccess, Taken
  <1>2. \A q \in Runners :
          \/ backup'[q] = backup[q]
          \/ /\ backup[q].at \in Taken /\ backup'[q].at \in Taken
             /\ backup'[q].copy = backup[q].copy
    BY <1>0, <1>1, Moved
  <1> QED BY <1>0, <1>2, ReleaseFields, SameReleaseKeeps

LEMMA PublishReleases ==
  ASSUME TypeOK, TypeOK', Runs, Releases, NEW r \in Runners, Publish(r)
  PROVE  Releases'
  <1>0. UNCHANGED <<db, check, release>> /\ backup[r].at = "publishing"
    BY DEF Publish, gateway, checks, releases
  <1>1. backup' = To(r, "published")
    BY DEF Publish
  <1>2. /\ backup'[r].at = "published" /\ backup'[r].copy = backup[r].copy
        /\ \A q \in Runners : q # r => backup'[q] = backup[q]
    BY <1>1, Moved
  <1>3. Own(r) \in finals'
    BY DEF Publish, Runs, Copies, Matches, Own
  <1>4. Own(r).whole /\ Own(r).writes = backup[r].copy.writes
    BY DEF Own, File
  <1>5. Covered => Covered'
    <2>1. Covered => backup[r].copy.writes >= release.writes
      BY <1>0 DEF Covered, Taken
    <2>2. Covered => \E f \in finals' : f.whole /\ f.writes >= release'.writes
      BY <1>0, <1>3, <1>4, <2>1
    <2>3. Covered => \A q \in Runners : backup'[q].at \in Taken =>
                       backup'[q].copy.writes >= release'.writes
      BY <1>0, <1>2, <2>1 DEF Covered
    <2> QED BY <2>2, <2>3 DEF Covered
  <1>6. backup["release"].at # "idle" => release.at = "backup"
    BY DEF Releases
  <1>7. backup'["release"].at # "idle" => release.at = "backup"
    BY <1>0, <1>2, <1>6 DEF Runners
  <1>8. backup'["release"].at \in Taken => backup'["release"].copy.writes >= release.writes
    BY <1>0, <1>2 DEF Releases, Runners, Taken
  <1> QED BY <1>0, <1>5, <1>7, <1>8 DEF Releases

LEMMA PruneReleases ==
  ASSUME TypeOK, TypeOK', Runs, Releases, NEW r \in Runners, Prune(r)
  PROVE  Releases'
  <1>0. UNCHANGED <<db, check>> /\ backup[r].at = "pruning" /\ Returns(r, TRUE)
    BY DEF Prune, gateway, checks
  <1>1. backup'[r].at = "idle" /\ \A q \in Runners : q # r => backup'[q] = backup[q]
    BY <1>0 DEF Returns, NoRun, TypeOK
  <1>2. \A q \in Runners : backup'[q].at = "idle"
    BY <1>0, <1>1, OtherRunIdle
  <1>3. Own(r) \in finals' /\ Own(r).whole /\ Own(r).writes = backup[r].copy.writes
    BY PruneRuns DEF Own, File
  <1>4. CASE r = "cron"
    <2>1. release' = release
      BY <1>0, <1>4 DEF Returns
    <2>2. Covered => Covered'
      BY <1>0, <1>2, <1>3, <2>1 DEF Covered, Taken
    <2> QED BY <1>0, <1>2, <2>1, <2>2 DEF Releases, Runners, Taken
  <1>5. CASE r = "release"
    <2>1. release' = [release EXCEPT !.at = "posting"] /\ release.at = "backup"
      BY <1>0, <1>5 DEF Returns, Releases
    <2>2. release'.at = "posting" /\ release'.writes = release.writes
      BY <2>1, ReleaseFields DEF Release
    <2>3. backup[r].copy.writes >= release.writes /\ release.writes <= db.writes
      BY <1>0, <1>5, <2>1 DEF Releases, Taken
    <2>4. Covered'
      BY <1>2, <1>3, <2>2, <2>3 DEF Covered, Taken
    <2>5. check["release"].at = "idle"
      BY <2>1 DEF Releases
    <2> QED BY <1>0, <1>2, <1>5, <2>2, <2>3, <2>4, <2>5 DEF Releases, Runners, Taken
  <1> QED BY <1>4, <1>5 DEF Runners

LEMMA BackupBreaksReleases ==
  ASSUME TypeOK, TypeOK', Releases, NEW r \in Runners, BackupBreaks(r)
  PROVE  Releases'
  <1>0. UNCHANGED <<db, finals, check>> /\ backup[r].at # "idle" /\ Returns(r, FALSE)
    BY DEF BackupBreaks, BackupFails, gateway, checks
  <1>1. backup'[r].at = "idle" /\ \A q \in Runners : q # r => backup'[q] = backup[q]
    BY <1>0 DEF Returns, NoRun, TypeOK
  <1>2. CASE r = "cron"
    BY <1>0, <1>1, <1>2, ReleaseFields, SameReleaseKeeps DEF Returns
  <1>3. CASE r = "release"
    <2>1. release'.at = "idle" /\ check["release"].at = "idle"
      BY <1>0, <1>3 DEF Returns, NoRelease, Releases
    <2> QED BY <1>0, <1>1, <1>3, <2>1, EarlyReleaseKeeps
  <1> QED BY <1>2, <1>3 DEF Runners

LEMMA CheckReleases ==
  ASSUME TypeOK, TypeOK', Releases, NEW r \in Runners,
         CheckBegins(r) \/ Probe(r) \/ CheckAborts(r) \/ Age(r) \/ Tell(r)
  PROVE  Releases'
  <1>0. UNCHANGED <<db, backup, finals>>
    BY DEF CheckBegins, Probe, CheckAborts, Age, Tell, gateway, backups, disk
  <1>1. CASE r = "cron"
    <2>1. release' = release
      BY <1>1 DEF CheckBegins, Probe, CheckAborts, Age, Tell, CheckReturns, releases
    <2>2. check'["release"] = check["release"]
      BY <1>1 DEF CheckBegins, Probe, CheckAborts, Age, Tell, CheckReturns, Records, TypeOK, Runners
    <2> QED BY <1>0, <2>1, <2>2, ReleaseFields, SameReleaseKeeps
  <1>2. ASSUME r = "release", CheckBegins(r)
        PROVE  Releases'
    <2>1. release.at = "checking" /\ backup["release"].at = "idle" /\ check["release"].at = "idle"
      BY <1>2 DEF CheckBegins, CheckAsked, NoCheck, Releases
    <2>2. CASE CheckHeld(r)
      <3>1. release'.at = "idle" /\ check' = check
        BY <1>2, <2>2 DEF CheckBegins, NoRelease
      <3> QED BY <1>0, <2>1, <3>1, EarlyReleaseKeeps
    <2>3. CASE ~ CheckHeld(r)
      <3>1. release' = release
        BY <2>3, <1>2 DEF CheckBegins, releases
      <3> QED BY <1>0, <2>1, <3>1 DEF Releases, Taken
    <2> QED BY <2>2, <2>3
  <1>3. ASSUME r = "release", Probe(r) \/ Age(r)
        PROVE  Releases'
    <2>1. release' = release /\ check["release"].at # "idle"
      BY <1>3 DEF Probe, Age, releases
    <2> QED BY <1>0, <2>1, ReleaseFields, SameReleaseKeeps
  <1>4. ASSUME r = "release", CheckAborts(r) \/ Tell(r)
        PROVE  Releases'
    <2>1. check["release"].at # "idle"
      BY <1>4 DEF CheckAborts, Tell
    <2>2. backup["release"].at = "idle"
      BY <2>1 DEF Releases
    <2>3. release'.at = "idle" /\ check'["release"].at = "idle"
      BY <1>4 DEF CheckAborts, Tell, CheckReturns, NoRelease, NoCheck, TypeOK, Runners
    <2> QED BY <1>0, <2>2, <2>3, EarlyReleaseKeeps
  <1> QED BY <1>1, <1>2, <1>3, <1>4 DEF Runners

LEMMA ReleaseReleases ==
  ASSUME TypeOK, TypeOK', Releases, ReleaseBegins \/ Build \/ Post \/ Replaced \/ ReleaseFails
  PROVE  Releases'
  <1>0. UNCHANGED <<db, backup, finals, check>>
    BY DEF ReleaseBegins, Build, Post, Replaced, ReleaseFails, gateway, backups, disk, checks
  <1>1. CASE ReleaseBegins
    <2>1. release'.at = "building" /\ release'.writes = db.writes
      BY <1>1 DEF ReleaseBegins, NoRelease
    <2>2. backup["release"].at = "idle" /\ check["release"].at = "idle"
      BY <1>1 DEF ReleaseBegins, Releases
    <2> QED BY <1>0, <2>1, <2>2, ReleaseFields, EarlyReleaseKeeps
  <1>2. CASE Build \/ Post \/ Replaced
    <2>1. /\ release'.at \in {"backup", "waiting", "checking"} /\ release'.writes = release.writes
          /\ release.at \in {"building", "posting", "waiting"}
      BY <1>2, ReleaseFields DEF Build, AfterBuild, Post, Replaced, Release
    <2>2. backup["release"].at = "idle" /\ check["release"].at = "idle"
          /\ release.writes <= db.writes
      BY <2>1 DEF Releases
    <2> QED BY <1>0, <2>1, <2>2, EarlyReleaseKeeps
  <1>3. CASE ReleaseFails
    <2>1. release'.at = "idle" /\ release.at # "backup"
      BY <1>3 DEF ReleaseFails, NoRelease
    <2>2. backup["release"].at = "idle" /\ check["release"].at = "idle"
      BY <1>3, <2>1 DEF Releases, ReleaseFails, NoCheck
    <2> QED BY <1>0, <2>1, <2>2, EarlyReleaseKeeps
  <1> QED BY <1>1, <1>2, <1>3

LEMMA ReleasesStep ==
  ASSUME TypeOK, TypeOK', Runs, Releases, [Next]_vars
  PROVE  Releases'
  <1>1. CASE UNCHANGED <<backup, finals, check, release>> /\ db'.writes >= db.writes
    BY <1>1, SameReleaseKeeps
  <1>2. CASE Migrate \/ Listen \/ Write \/ ContainerRestarts \/ Deploy \/ Tick \/ UNCHANGED vars
    <2>1. UNCHANGED <<backup, finals, check, release>>
      BY <1>2 DEF Migrate, Listen, Write, ContainerRestarts, Deploy, Tick, vars, backups, disk,
                  checks, releases
    <2>2. db'.writes \in {db.writes, db.writes + 1}
      BY <1>2 DEF Migrate, Migrated, Listen, Write, ContainerRestarts, Deploy, Tick, vars,
                  gateway, TypeOK, Databases
    <2> QED BY <1>1, <2>1, <2>2, ReleaseFields
  <1>3. ASSUME NEW r \in Runners,
               \/ BackupBegins(r) \/ Snapshot(r) \/ CopyOut(r) \/ Compare(r) \/ Publish(r)
               \/ RecordSuccess(r) \/ Prune(r) \/ BackupBreaks(r)
        PROVE  Releases'
    BY <1>3, BackupBeginsReleases, SnapshotReleases, CopiedReleases, PublishReleases,
       PruneReleases, BackupBreaksReleases
  <1>4. ASSUME NEW r \in Runners,
               CheckBegins(r) \/ Probe(r) \/ CheckAborts(r) \/ Age(r) \/ Tell(r)
        PROVE  Releases'
    BY <1>4, CheckReleases
  <1>5. CASE ReleaseBegins \/ Build \/ Post \/ Replaced \/ ReleaseFails
    BY <1>5, ReleaseReleases
  <1>6. CASE Reboot
    <2>1. release'.at = "idle" /\ backup'["release"].at = "idle" /\ check'["release"].at = "idle"
      BY <1>6 DEF Reboot, NoRelease, NoRun, NoCheck, Runners
    <2> QED BY <2>1, EarlyReleaseKeeps
  <1> QED BY <1>2, <1>3, <1>4, <1>5, <1>6 DEF Next

-----------------------------------------------------------------------------
(* The theorems.                                                           *)

LEMMA HostInit == Init => IInv
  <1> SUFFICES ASSUME Init PROVE IInv
    OBVIOUS
  <1> USE DEF Init
  <1>1. TypeOK
    <2>1. backup \in [Runners -> BackupRun] /\ check \in [Runners -> CheckRun]
      BY DEF BackupRun, NoRun, Databases, CheckRun, NoCheck
    <2>2. release \in Release
      BY DEF Release, NoRelease
    <2>3. db \in Databases
      BY DEF Databases, Schema
    <2>4. history \in Seq(Judged \cup Tellings \cup {"reboot"})
      OBVIOUS
    <2> QED BY <2>1, <2>2, <2>3, <2>4 DEF TypeOK
  <1>2. Migrations
    BY DEF Migrations, Sound, Serving
  <1>3. Runs
    BY DEF Runs, Locked, Copies, Sound, Kept, NoRun, BackupsStand
  <1>4. Releases
    BY DEF Releases, NoRelease, NoRun, NoCheck, Taken, Runners
  <1>5. Before(1) = {} /\ Len(history) = 0
    BY DEF Before
  <1>6. Verdicts
    BY <1>5 DEF Verdicts, Checking, NoCheck, Judged, FailedBefore, None
  <1>7. Alerts
    BY <1>5 DEF Alerts
  <1> QED BY <1>1, <1>2, <1>3, <1>4, <1>6, <1>7 DEF IInv

LEMMA HostStep == IInv /\ [Next]_vars => IInv'
  <1> SUFFICES ASSUME IInv, [Next]_vars PROVE IInv'
    OBVIOUS
  <1>1. TypeOK'
    BY TypeStep DEF IInv
  <1>2. Migrations'
    BY MigrationsStep DEF IInv
  <1>3. Runs'
    BY <1>1, RunsStep DEF IInv
  <1>4. Releases'
    BY <1>1, ReleasesStep DEF IInv
  <1>5. Verdicts' /\ Alerts'
    BY AlertsStep DEF IInv
  <1> QED BY <1>1, <1>2, <1>3, <1>4, <1>5 DEF IInv

(* At every moment, with any number of runs, reboots and failed commands:  *)
(* what a run has copied and where it is, what the release may count on,   *)
(* and what the status file, the checks and the history say, agree         *)
(* (run-production-backup.sh, check-production-health.sh,                  *)
(* release-coolify.sh).                                                    *)
THEOREM HostInvariant == Spec => []IInv
  BY HostInit, HostStep, PTL DEF Spec

(* A file under a final name is a whole backup that verification accepts,  *)
(* and backup.last-success names one that is there                         *)
(* (run-production-backup.sh:66-108).                                      *)
THEOREM HostBackupsStand == Spec => []BackupsStand
  <1>1. IInv => BackupsStand
    BY DEF IInv, Runs
  <1> QED BY <1>1, HostInvariant, PTL

(* Every change of the status is tried to be told once, truly, and never   *)
(* again: what failed to be told, or what a reboot cut off, stays untold   *)
(* (check-production-health.sh:38-66, 184-190).                            *)
THEOREM HostAlertsFollowStatus == Spec => []AlertsFollowStatus
  <1>1. IInv => AlertsFollowStatus
    <2> SUFFICES ASSUME IInv PROVE AlertsFollowStatus
      OBVIOUS
    <2>1. ASSUME NEW n \in 1..Len(history), Pending(n)
          PROVE  n = Len(history) /\ checkLock # None
      <3>1. n = Len(history) /\ \E r \in Runners : check[r].at \in Judged
        BY <2>1 DEF Pending
      <3> QED BY <3>1, OthersIdle DEF IInv, Judged, Runners, None
    <2> QED BY <2>1 DEF IInv, Alerts, AlertsFollowStatus
  <1> QED BY <1>1, HostInvariant, PTL

(* A release that was not told its backup was skipped orders its           *)
(* deployment over a backup with every write it began with                 *)
(* (release-coolify.sh:77-92).                                             *)
THEOREM HostDeployedAfterBackup == Spec => DeployedAfterBackup
  <1>1. IInv /\ [Next]_vars =>
          [coolify' /\ ~coolify =>
             release.skipped \/ \E f \in finals : f.whole /\ f.writes >= release.writes]_vars
    <2> SUFFICES ASSUME IInv, Next, coolify' /\ ~coolify
                 PROVE  release.skipped \/ \E f \in finals : f.whole /\ f.writes >= release.writes
      OBVIOUS
    <2>1. Post
      BY DEF Next, Migrate, Listen, Write, ContainerRestarts, Deploy, BackupBegins, Snapshot,
         CopyOut, Compare, Publish, RecordSuccess, Prune, BackupBreaks, CheckBegins, Probe,
         CheckAborts, Age, Tell, ReleaseBegins, Build, Replaced, ReleaseFails, Reboot, Tick,
         gateway
    <2> QED BY <2>1 DEF Post, IInv, Releases, Covered
  <1> QED BY <1>1, HostInvariant, PTL DEF Spec, DeployedAfterBackup
=============================================================================
