------------------------- MODULE ChatRequestProofs --------------------------
(***************************************************************************)
(* Proofs about ChatRequest for every number of accounts that can be       *)
(* tried, and about Conversation for all requests and answers.             *)
(***************************************************************************)
EXTENDS ChatRequest, Conversation, WellFoundedInduction, FiniteSetTheorems,
  SequenceTheorems, TLAPS

(* Where the request is says which permits it has, whether its row is      *)
(* pending and what was already answered.                                  *)
Stages ==
  /\ route = "admission" =>
       permits = {} /\ log = "none" /\ ~committed /\ reply = "none" /\ verdict = "none"
  /\ route = "queued" => permits = {"global"}
  /\ route \notin {"admission", "queued", "answered"} =>
       permits = {"global", "account"} /\ cur \in Attempts
  /\ route \notin {"admission", "answered"} =>
       /\ log \in {"pending", "gone"} /\ verdict = "none"
       /\ route # "finalizing" => reply = "none"
  /\ route = "answered" => permits = {} /\ log # "pending"
  /\ committed => route \in {"relaying", "finalizing", "answered"}

(* A lease is held while its attempt is the current one and is being read; *)
(* an output that has ended had its cleanup.                               *)
Leases ==
  /\ \A a \in Attempts :
       /\ lease[a] = "held" => a = cur /\ route \in {"rejected", "reading", "priming", "relaying"}
       /\ lease[a] \in {"none", "held"} => outcome[a] = "none"
       /\ a > cur \/ (a = cur /\ route = "calling") => lease[a] = "none"
  /\ route \in {"rejected", "reading", "priming"} => lease[cur] = "held"
  /\ route = "relaying" /\ isDone => lease[cur] # "held"

(* The current attempt is a success only with output, and only where the   *)
(* handler's outcome is still to be used or was used.                      *)
Outcomes ==
  /\ cur \in Attempts /\ outcome[cur] = "success" =>
       spoken /\ route \in {"settling", "relaying", "finalizing", "answered"}
  /\ route = "reading" => ~stream
  /\ route = "settling" /\ outcome[cur] = "success" => ~stream
  /\ route = "finalizing" => reply # "none" /\ (reply = "whole" <=> outcome[cur] = "success")

(* The inductive invariant: that log, health and permits are right at the  *)
(* end needs what every await on the way knows.                            *)
IInv ==
  /\ TypeOK /\ Stages /\ Leases /\ Outcomes
  /\ LogTellsTheTruth /\ HealthNeedsContent

LEMMA ChatInit == Init => IInv
  <1> SUFFICES ASSUME Init PROVE IInv
    OBVIOUS
  <1> USE DEF Init
  <1>1. TypeOK
    <2>1. up \in BOOLEAN /\ client \in BOOLEAN /\ committed \in BOOLEAN
          /\ unread \in BOOLEAN /\ spoken \in BOOLEAN /\ stream \in BOOLEAN
      BY Zenon
    <2> QED BY <2>1, ChatAssumption DEF TypeOK
  <1>2. Stages
    BY DEF Stages
  <1>3. Leases
    BY DEF Leases
  <1>4. Outcomes
    BY DEF Outcomes, Attempts
  <1>5. LogTellsTheTruth /\ HealthNeedsContent
    BY DEF LogTellsTheTruth, HealthNeedsContent
  <1> QED BY <1>1, <1>2, <1>3, <1>4, <1>5 DEF IInv

(* The types of what an attempt's streams leave behind.                    *)
UpstreamOK ==
  /\ up \in BOOLEAN /\ client \in BOOLEAN /\ stream \in BOOLEAN /\ unread \in BOOLEAN
  /\ source \in [Attempts -> {"none", "open", "over"}]
  /\ output \in [Attempts -> {"none", "open", "ended", "closed"}]
  /\ outcome \in [Attempts -> {"none", "success", "provider_error", "interrupted"}]
  /\ lease \in [Attempts -> {"none", "held", "returning", "returned"}]

(* Every lease has begun its way back, and what comes after attempt c is   *)
(* untouched.                                                              *)
NothingHeld(c) ==
  \A a \in Attempts :
    /\ lease[a] # "held"
    /\ lease[a] = "none" => outcome[a] = "none"
    /\ a > c => lease[a] = "none"

(* forward()'s loop, entered with no lease held and no success.            *)
LEMMA LoopKeeps ==
  ASSUME IInv, Loop,
         route \in {"admission", "queued", "calling", "settling", "priming"},
         UpstreamOK', \A c \in {cur} : NothingHeld(c)',
         cur \in Attempts => outcome'[cur] # "success"
  PROVE  IInv'
  <1>1. \A a \in Attempts :
          /\ lease'[a] # "held"
          /\ lease'[a] = "none" => outcome'[a] = "none"
          /\ a > cur => lease'[a] = "none"
    BY DEF NothingHeld
  <1>2. verdict = "none" /\ ~committed /\ reply = "none"
    BY DEF IInv, Stages
  <1>3. cur \in 0..MaxAttempts
    BY DEF IInv, TypeOK
  <1>4. CASE Call
    <2> USE DEF Call, startRequestLog
    <2>1. cur' \in Attempts /\ cur' > cur
      BY <1>3, <1>4, ChatAssumption DEF Attempts
    <2>2. log' \in {"pending", "gone"}
      BY <1>4 DEF IInv, TypeOK, Stages
    <2>3. TypeOK'
      <3>1. spoken' \in BOOLEAN
        BY <1>4, Zenon
      <3>2. committed' \in BOOLEAN /\ reply' \in {"none", "whole", "error", "cut"}
            /\ verdict' \in {"none", "good", "bad"}
        BY <1>4 DEF IInv, TypeOK
      <3>3. cur' \in 0..MaxAttempts
        BY <2>1, ChatAssumption DEF Attempts
      <3> QED BY <1>4, <2>2, <3>1, <3>2, <3>3 DEF TypeOK, UpstreamOK
    <2>4. Stages'
      BY <1>2, <1>4, <2>1, <2>2 DEF Stages
    <2>5. Leases'
      BY <1>1, <1>3, <1>4, <2>1, ChatAssumption DEF Leases, Attempts
    <2>6. Outcomes'
      BY <1>1, <1>4, <2>1 DEF Outcomes
    <2>7. LogTellsTheTruth' /\ HealthNeedsContent'
      BY <1>2, <1>4 DEF LogTellsTheTruth, HealthNeedsContent
    <2> QED BY <2>3, <2>4, <2>5, <2>6, <2>7 DEF IInv
  <1>5. CASE Wait
    <2> USE DEF Wait, startRequestLog
    <2>1. log' \in {"pending", "gone"}
      BY <1>5 DEF IInv, TypeOK, Stages
    <2>2. TypeOK'
      BY <1>5, <2>1 DEF IInv, TypeOK, UpstreamOK
    <2>3. Stages'
      BY <1>2, <1>5, <2>1 DEF Stages
    <2>4. Leases'
      BY <1>1, <1>5 DEF Leases, Attempts
    <2>5. Outcomes'
      BY <1>5 DEF Outcomes, Attempts
    <2>6. LogTellsTheTruth' /\ HealthNeedsContent'
      BY <1>2, <1>5 DEF LogTellsTheTruth, HealthNeedsContent
    <2> QED BY <2>2, <2>3, <2>4, <2>5, <2>6 DEF IInv
  <1>6. CASE Refuse
    <2> USE DEF Refuse, End, finishRequestLog
    <2>1. log' \in {"error", "gone"}
      BY <1>6
    <2>2. TypeOK'
      BY <1>6, <2>1 DEF IInv, TypeOK, UpstreamOK
    <2>3. Stages'
      BY <1>2, <1>6, <2>1 DEF Stages
    <2>4. Leases'
      BY <1>1, <1>6 DEF Leases, Attempts
    <2>5. Outcomes'
      BY <1>6 DEF Outcomes, Attempts
    <2>6. LogTellsTheTruth' /\ HealthNeedsContent'
      BY <1>2, <1>6, <2>1 DEF LogTellsTheTruth, HealthNeedsContent
    <2> QED BY <2>2, <2>3, <2>4, <2>5, <2>6 DEF IInv
  <1> QED BY <1>4, <1>5, <1>6 DEF Loop

(* An end of the request whose row, reply and verdict agree.               *)
LEMMA EndKeeps ==
  ASSUME IInv, NEW status \in {"none", "success", "error"},
         NEW ends \in {"whole", "error", "cut"}, NEW health \in {"none", "good", "bad"},
         End(status, ends, health), cur' = cur, spoken' = spoken,
         UpstreamOK', NothingHeld(cur)', cur \in Attempts /\ outcome'[cur] = "success" => spoken,
         ends = "whole" => status = "success",
         status = "success" => ends = "whole" \/ (~client' /\ ~stream'),
         health = "good" => spoken /\ outcome'[cur] = "success"
  PROVE  IInv'
  <1> USE DEF End, finishRequestLog
  <1>1. log' \in {status, "gone"}
    OBVIOUS
  <1>2. TypeOK'
    BY <1>1 DEF IInv, TypeOK, UpstreamOK
  <1>3. Stages'
    BY <1>1 DEF Stages
  <1>4. Leases'
    BY DEF Leases, NothingHeld, Attempts
  <1>5. Outcomes'
    BY DEF Outcomes, Attempts
  <1>6. LogTellsTheTruth' /\ HealthNeedsContent'
    BY <1>1 DEF LogTellsTheTruth, HealthNeedsContent
  <1> QED BY <1>2, <1>3, <1>4, <1>5, <1>6 DEF IInv

(* The same for the steps that leave the way of the request alone but for  *)
(* what they say.                                                          *)

LEMMA CallAnswersKeeps == ASSUME IInv, CallAnswers, up' = up PROVE IInv'
  <1> USE DEF CallAnswers, upstream, reporting
  <1>1. cur \in Attempts /\ lease[cur] = "none" /\ outcome[cur] = "none"
    BY DEF IInv, Stages, Leases
  <1>2. TypeOK'
    <2>1. /\ lease' \in [Attempts -> {"none", "held", "returning", "returned"}]
          /\ source' \in [Attempts -> {"none", "open", "over"}]
      BY DEF IInv, TypeOK
    <2>2. output' \in [Attempts -> {"none", "open", "ended", "closed"}]
      BY DEF IInv, TypeOK
    <2> QED BY <2>1, <2>2 DEF IInv, TypeOK
  <1>3. Stages'
    BY DEF IInv, Stages
  <1>4. Leases'
    BY <1>1 DEF IInv, TypeOK, Leases, Attempts
  <1>5. Outcomes'
    BY <1>1 DEF IInv, TypeOK, Outcomes
  <1>6. LogTellsTheTruth' /\ HealthNeedsContent'
    BY DEF IInv, Stages, LogTellsTheTruth, HealthNeedsContent
  <1> QED BY <1>2, <1>3, <1>4, <1>5, <1>6 DEF IInv

LEMMA BodyReadKeeps ==
  ASSUME IInv, RefusalRead \/ AnswerRead, up' = up
  PROVE  IInv'
  <1> DEFINE outcomes == {"success", "provider_error", "interrupted"}
  <1>1. /\ route \in {"rejected", "reading"} /\ route' = "settling"
        /\ source' = [source EXCEPT ![cur] = "over"]
        /\ UNCHANGED <<client, stream, cur, permits, log, committed, reply, verdict, output, unread>>
    BY DEF RefusalRead, AnswerRead, reporting
  <1>2. lease[cur] = "held" /\ cur \in Attempts
    BY <1>1 DEF IInv, Stages, Leases
  <1>3. PICK result \in outcomes :
          /\ lease' = [lease EXCEPT ![cur] = "returning"]
          /\ outcome' = [outcome EXCEPT ![cur] = result]
          /\ result = "success" => route = "reading" /\ spoken' = TRUE
    BY <1>2 DEF RefusalRead, AnswerRead, Cleanup
  <1>4. spoken' \in BOOLEAN
    <2>1. spoken' = TRUE \/ spoken' = spoken
      BY DEF RefusalRead, AnswerRead
    <2> QED BY <2>1, Zenon DEF IInv, TypeOK
  <1>5. TypeOK'
    <2>1. lease' \in [Attempts -> {"none", "held", "returning", "returned"}]
      BY <1>3 DEF IInv, TypeOK
    <2>2. outcome' \in [Attempts -> {"none", "success", "provider_error", "interrupted"}]
      BY <1>3 DEF IInv, TypeOK
    <2>3. source' \in [Attempts -> {"none", "open", "over"}]
      BY <1>1 DEF IInv, TypeOK
    <2> QED BY <1>1, <1>4, <2>1, <2>2, <2>3 DEF IInv, TypeOK
  <1>6. Stages'
    BY <1>1 DEF IInv, Stages
  <1>7. Leases'
    BY <1>1, <1>2, <1>3 DEF IInv, TypeOK, Leases, Attempts
  <1>8. Outcomes'
    BY <1>1, <1>2, <1>3 DEF IInv, TypeOK, Outcomes
  <1>9. LogTellsTheTruth' /\ HealthNeedsContent'
    BY <1>1 DEF IInv, Stages, LogTellsTheTruth, HealthNeedsContent
  <1> QED BY <1>5, <1>6, <1>7, <1>8, <1>9 DEF IInv

LEMMA LeaseReturnedKeeps ==
  ASSUME IInv, NEW b \in Attempts, LeaseReturned(b), up' = up
  PROVE  IInv'
  <1> USE DEF LeaseReturned, reporting
  <1>1. TypeOK'
    BY DEF IInv, TypeOK
  <1>2. Stages' /\ Outcomes' /\ LogTellsTheTruth' /\ HealthNeedsContent'
    BY DEF IInv, Stages, Outcomes, LogTellsTheTruth, HealthNeedsContent
  <1>3. Leases'
    BY DEF IInv, TypeOK, Leases, isDone, Attempts
  <1> QED BY <1>1, <1>2, <1>3 DEF IInv

LEMMA SourceSpeaksKeeps == ASSUME IInv, SourceSpeaks, up' = up PROVE IInv'
  <1> USE DEF SourceSpeaks, Streaming, Prime, upstream, isDone
  <1>1. spoken' \in BOOLEAN /\ unread' \in BOOLEAN /\ committed' \in BOOLEAN
    BY Zenon
  <1>2. TypeOK'
    BY <1>1 DEF IInv, TypeOK
  <1>3. Stages'
    BY DEF IInv, Stages
  <1>4. Leases'
    BY DEF IInv, Leases
  <1>5. Outcomes'
    BY DEF IInv, Outcomes
  <1>6. LogTellsTheTruth' /\ HealthNeedsContent'
    BY DEF IInv, Stages, LogTellsTheTruth, HealthNeedsContent
  <1> QED BY <1>2, <1>3, <1>4, <1>5, <1>6 DEF IInv

(* What a cleanup leaves behind.                                           *)
LEMMA CleanupEffect ==
  ASSUME IInv, cur \in Attempts, NEW result \in {"success", "provider_error", "interrupted"},
         Cleanup(cur, result)
  PROVE  /\ lease' \in [Attempts -> {"none", "held", "returning", "returned"}]
         /\ outcome' \in [Attempts -> {"none", "success", "provider_error", "interrupted"}]
         /\ lease'[cur] # "held"
         /\ \A a \in Attempts : a # cur => lease'[a] = lease[a] /\ outcome'[a] = outcome[a]
         /\ lease'[cur] = "none" => lease[cur] = "none" /\ outcome'[cur] = outcome[cur]
         /\ outcome'[cur] = "success" => outcome[cur] = "success" \/ result = "success"
  BY DEF Cleanup, IInv, TypeOK

LEMMA SourceEndsKeeps == ASSUME IInv, SourceEnds, up' = up PROVE IInv'
  <1>1. /\ route \in {"priming", "relaying"} /\ route' = "relaying" /\ committed' = TRUE
        /\ source' = [source EXCEPT ![cur] = "over"]
        /\ output' = [output EXCEPT ![cur] = "ended"]
        /\ UNCHANGED <<client, stream, unread, cur, permits, log, reply, verdict>>
    BY DEF SourceEnds, Streaming, Prime
  <1>2. cur \in Attempts
    BY <1>1 DEF IInv, Stages
  <1>3. PICK result \in {"success", "provider_error"} :
          Cleanup(cur, result) /\ (result = "success" => spoken')
    BY DEF SourceEnds, Finish
  <1>0. spoken' \in BOOLEAN /\ (spoken => spoken')
    <2>1. spoken \in BOOLEAN
      BY DEF IInv, TypeOK
    <2>2. spoken' = spoken \/ \E citations \in BOOLEAN : spoken' = (spoken \/ citations)
      BY Zenon DEF SourceEnds
    <2> QED BY <2>1, <2>2
  <1>4. /\ lease' \in [Attempts -> {"none", "held", "returning", "returned"}]
        /\ outcome' \in [Attempts -> {"none", "success", "provider_error", "interrupted"}]
        /\ lease'[cur] # "held"
        /\ \A a \in Attempts : a # cur => lease'[a] = lease[a] /\ outcome'[a] = outcome[a]
        /\ lease'[cur] = "none" => lease[cur] = "none" /\ outcome'[cur] = outcome[cur]
        /\ outcome'[cur] = "success" => outcome[cur] = "success" \/ result = "success"
    BY <1>2, <1>3, CleanupEffect
  <1>5. committed' \in BOOLEAN
    BY <1>1, Zenon
  <1>6. TypeOK'
    BY <1>0, <1>1, <1>4, <1>5 DEF IInv, TypeOK
  <1>7. Stages'
    BY <1>0, <1>1, <1>2 DEF IInv, Stages
  <1>8. Leases'
    BY <1>1, <1>2, <1>4 DEF IInv, Leases, Attempts
  <1>9. Outcomes'
    BY <1>0, <1>1, <1>2, <1>3, <1>4 DEF IInv, Outcomes
  <1>10. LogTellsTheTruth' /\ HealthNeedsContent'
    BY <1>0, <1>1 DEF IInv, Stages, LogTellsTheTruth, HealthNeedsContent
  <1> QED BY <1>6, <1>7, <1>8, <1>9, <1>10 DEF IInv

(* The output is destroyed while it is streamed.                           *)
LEMMA DestroyEffect ==
  ASSUME IInv, route \in {"priming", "relaying"}, Destroy, up' = up,
         client' \in BOOLEAN, stream' = stream
  PROVE  /\ cur \in Attempts /\ UpstreamOK' /\ \A c \in {cur} : NothingHeld(c)'
         /\ outcome'[cur] = "success" => outcome[cur] = "success"
  <1>1. cur \in Attempts /\ cur \in Nat
    BY ChatAssumption DEF IInv, TypeOK, Stages, Attempts
  <1>2. Cleanup(cur, "interrupted")
    BY DEF Destroy
  <1>3. /\ lease' \in [Attempts -> {"none", "held", "returning", "returned"}]
        /\ outcome' \in [Attempts -> {"none", "success", "provider_error", "interrupted"}]
        /\ lease'[cur] # "held"
        /\ \A a \in Attempts : a # cur => lease'[a] = lease[a] /\ outcome'[a] = outcome[a]
        /\ lease'[cur] = "none" => lease[cur] = "none" /\ outcome'[cur] = outcome[cur]
        /\ outcome'[cur] = "success" => outcome[cur] = "success"
    BY <1>1, <1>2, CleanupEffect
  <1>4. unread' \in BOOLEAN
    BY Zenon DEF Destroy
  <1>5. UpstreamOK'
    BY <1>3, <1>4 DEF Destroy, UpstreamOK, IInv, TypeOK
  <1>6. \A c \in {cur} : NothingHeld(c)'
    BY <1>1, <1>3 DEF NothingHeld, IInv, Leases, Attempts
  <1> QED BY <1>1, <1>3, <1>5, <1>6

LEMMA PipelineBreaksKeeps ==
  ASSUME IInv, route = "relaying", PipelineBreaks, up' = up,
         client' \in BOOLEAN, stream' = stream
  PROVE  IInv'
  <1>1. Destroy /\ End("error", "cut", "bad") /\ cur' = cur /\ spoken' = spoken
    BY DEF PipelineBreaks
  <1>2. /\ cur \in Attempts /\ UpstreamOK' /\ \A c \in {cur} : NothingHeld(c)'
        /\ outcome'[cur] = "success" => outcome[cur] = "success"
    BY <1>1, DestroyEffect
  <1>3. NothingHeld(cur)'
    BY <1>1, <1>2 DEF NothingHeld
  <1>4. outcome'[cur] = "success" => spoken
    BY <1>2 DEF IInv, Outcomes
  <1> QED BY <1>1, <1>2, <1>3, <1>4, EndKeeps

LEMMA SourceFailsKeeps == ASSUME IInv, SourceFails, up' = up PROVE IInv'
  <1>1. client' \in BOOLEAN /\ stream' = stream
    BY DEF SourceFails, IInv, TypeOK
  <1>2. CASE route = "relaying"
    BY <1>1, <1>2, PipelineBreaksKeeps DEF SourceFails
  <1>3. CASE route = "priming" /\ Destroy /\ Loop
    <2>1. /\ cur \in Attempts /\ UpstreamOK' /\ \A c \in {cur} : NothingHeld(c)'
          /\ outcome'[cur] = "success" => outcome[cur] = "success"
      BY <1>1, <1>3, DestroyEffect
    <2>2. outcome[cur] # "success"
      BY <1>3, <2>1 DEF IInv, Outcomes
    <2> QED BY <1>3, <2>1, <2>2, LoopKeeps
  <1> QED BY <1>2, <1>3 DEF SourceFails, Streaming

(* Nothing is held where nothing was asked of the provider, or its answer  *)
(* was read to the end.                                                    *)
LEMMA QuietUpstream ==
  ASSUME IInv, route \notin {"rejected", "reading", "priming", "relaying"},
         UNCHANGED upstream, unread' = unread, client' \in BOOLEAN, stream' = stream, up' = up
  PROVE  UpstreamOK' /\ \A c \in {cur} : NothingHeld(c)'
  BY DEF upstream, IInv, TypeOK, Leases, UpstreamOK, NothingHeld

LEMMA LoopStepsKeep ==
  ASSUME IInv, Admitted \/ WaitEnds \/ CallFails, up' = up
  PROVE  IInv'
  <1>1. /\ route \in {"admission", "queued", "calling"} /\ Loop
        /\ UNCHANGED <<client, stream, unread, upstream>>
    BY DEF Admitted, WaitEnds, CallFails, Loop
  <1>2. UpstreamOK' /\ \A c \in {cur} : NothingHeld(c)'
    BY <1>1, QuietUpstream DEF IInv, TypeOK
  <1>3. cur \in Attempts => outcome'[cur] # "success"
    BY <1>1 DEF upstream, IInv, Outcomes
  <1> QED BY <1>1, <1>2, <1>3, LoopKeeps

LEMMA TurnedAwayKeeps == ASSUME IInv, TurnedAway, up' = up PROVE IInv'
  <1>1. /\ route = "admission" /\ End("none", "error", "none")
        /\ UNCHANGED <<client, stream, cur, unread, spoken, upstream>>
    BY DEF TurnedAway
  <1>2. UpstreamOK' /\ NothingHeld(cur)'
    BY <1>1, QuietUpstream DEF IInv, TypeOK, NothingHeld
  <1>3. cur \in Attempts /\ outcome'[cur] = "success" => spoken
    BY <1>1 DEF upstream, IInv, Outcomes
  <1> QED BY <1>1, <1>2, <1>3, EndKeeps

LEMMA SettledKeeps == ASSUME IInv, Settled, up' = up PROVE IInv'
  <1>1. /\ route = "settling" /\ UNCHANGED <<client, stream, unread, upstream>>
    BY DEF Settled
  <1>2. UpstreamOK' /\ \A c \in {cur} : NothingHeld(c)'
    BY <1>1, QuietUpstream DEF IInv, TypeOK
  <1>3. cur \in Attempts /\ outcome' = outcome
    BY <1>1 DEF upstream, IInv, Stages
  <1>4. CASE outcome[cur] = "success"
    <2> DEFINE ends == IF client THEN "whole" ELSE "cut"
    <2>1. End("success", ends, "good") /\ cur' = cur /\ spoken' = spoken
      BY <1>4 DEF Settled
    <2>2. NothingHeld(cur)'
      BY <1>2, <2>1 DEF NothingHeld
    <2>3. spoken /\ ~stream
      BY <1>1, <1>3, <1>4 DEF IInv, Outcomes
    <2>4. ends \in {"whole", "cut"} /\ (ends = "whole" \/ (~client' /\ ~stream'))
      BY <1>1, <2>3
    <2> HIDE DEF ends
    <2> QED BY <1>2, <1>3, <1>4, <2>1, <2>2, <2>3, <2>4, EndKeeps
  <1>5. CASE outcome[cur] # "success" /\ Loop
    BY <1>1, <1>2, <1>3, <1>5, LoopKeeps
  <1> QED BY <1>4, <1>5 DEF Settled

LEMMA RelayEndsKeeps == ASSUME IInv, RelayEnds, up' = up PROVE IInv'
  <1> USE DEF RelayEnds
  <1>1. output' \in [Attempts -> {"none", "open", "ended", "closed"}]
    BY DEF IInv, TypeOK
  <1>2. TypeOK'
    BY <1>1 DEF IInv, TypeOK
  <1>3. Stages'
    BY DEF IInv, Stages
  <1>4. Leases'
    BY DEF IInv, Leases
  <1>5. Outcomes'
    BY DEF IInv, Outcomes
  <1>6. LogTellsTheTruth' /\ HealthNeedsContent'
    BY DEF IInv, Stages, LogTellsTheTruth, HealthNeedsContent
  <1> QED BY <1>2, <1>3, <1>4, <1>5, <1>6 DEF IInv

LEMMA FinalizedKeeps == ASSUME IInv, Finalized, up' = up PROVE IInv'
  <1>1. /\ route = "finalizing" /\ UNCHANGED <<client, stream, cur, unread, spoken, upstream>>
        /\ IF outcome[cur] = "success" THEN End("success", reply, "good")
                                       ELSE End("error", reply, "bad")
    BY DEF Finalized
  <1>2. UpstreamOK' /\ NothingHeld(cur)'
    BY <1>1, QuietUpstream DEF IInv, TypeOK, NothingHeld
  <1>3. /\ cur \in Attempts /\ outcome' = outcome /\ (outcome[cur] = "success" => spoken)
        /\ reply = "whole" <=> outcome[cur] = "success"
    BY <1>1 DEF upstream, IInv, Stages, Outcomes
  <1>4. reply \in {"whole", "error", "cut"}
    BY <1>1 DEF IInv, TypeOK, Outcomes
  <1> QED BY <1>1, <1>2, <1>3, <1>4, EndKeeps

LEMMA DisconnectKeeps == ASSUME IInv, Disconnect, up' = up PROVE IInv'
  <1>1. client' = FALSE /\ stream' = stream
    BY DEF Disconnect
  <1>2. client' \in BOOLEAN
    BY <1>1, Zenon
  <1>3. CASE route = "admission" /\ End("none", "error", "none")
             /\ UNCHANGED <<cur, unread, spoken, upstream>>
    <2>1. UpstreamOK' /\ NothingHeld(cur)'
      BY <1>1, <1>2, <1>3, QuietUpstream DEF NothingHeld
    <2>2. cur \in Attempts /\ outcome'[cur] = "success" => spoken
      BY <1>3 DEF upstream, IInv, Outcomes
    <2> QED BY <1>3, <2>1, <2>2, EndKeeps
  <1>4. CASE route = "queued" /\ Refuse /\ UNCHANGED <<unread, upstream>>
    <2>1. UpstreamOK' /\ \A c \in {cur} : NothingHeld(c)'
      BY <1>1, <1>2, <1>4, QuietUpstream
    <2>2. cur \in Attempts => outcome'[cur] # "success"
      BY <1>4 DEF upstream, IInv, Outcomes
    <2> QED BY <1>4, <2>1, <2>2, LoopKeeps DEF Loop
  <1>5. CASE route = "relaying" /\ PipelineBreaks
    BY <1>1, <1>2, <1>5, PipelineBreaksKeeps
  <1>6. CASE /\ route \notin {"admission", "queued", "relaying", "answered"}
             /\ UNCHANGED <<route, cur, permits, reporting, unread, spoken, upstream>>
    <2> USE DEF reporting, upstream
    <2>1. TypeOK'
      BY <1>1, <1>2, <1>6 DEF IInv, TypeOK
    <2>2. Stages' /\ Leases' /\ Outcomes' /\ LogTellsTheTruth' /\ HealthNeedsContent'
      BY <1>1, <1>6 DEF IInv, Stages, Leases, isDone, Outcomes, LogTellsTheTruth,
                        HealthNeedsContent
    <2> QED BY <2>1, <2>2 DEF IInv
  <1> QED BY <1>3, <1>4, <1>5, <1>6 DEF Disconnect

(* A relay, a pruned row and the end of the process.                       *)
LEMMA SmallStepsKeep ==
  ASSUME IInv, \/ (Relay \/ LogPruned) /\ up' = up
               \/ PrimeTimeout
               \/ UNCHANGED vars
  PROVE  IInv'
  <1> USE DEF Relay, LogPruned, PrimeTimeout, vars, reporting, upstream
  <1>1. up' \in BOOLEAN /\ unread' \in BOOLEAN
    BY Zenon DEF IInv, TypeOK
  <1>2. TypeOK'
    <2>1. log' \in {"none", "pending", "success", "error", "gone"}
      BY DEF IInv, TypeOK
    <2>2. UNCHANGED <<client, stream, route, cur, permits, committed, reply, verdict, spoken,
                      source, output, outcome, lease>>
      OBVIOUS
    <2> QED BY <1>1, <2>1, <2>2 DEF IInv, TypeOK
  <1>3. Stages'
    BY DEF IInv, Stages
  <1>4. Leases' /\ Outcomes'
    BY DEF IInv, Leases, isDone, Outcomes
  <1>5. LogTellsTheTruth' /\ HealthNeedsContent'
    BY DEF IInv, Stages, LogTellsTheTruth, HealthNeedsContent
  <1> QED BY <1>2, <1>3, <1>4, <1>5 DEF IInv

LEMMA ChatStep == IInv /\ [Next]_vars => IInv'
  <1> SUFFICES ASSUME IInv, [Next]_vars PROVE IInv'
    OBVIOUS
  <1>1. CASE UNCHANGED vars
    BY <1>1, SmallStepsKeep
  <1>2. CASE PrimeTimeout
    BY <1>2, SmallStepsKeep
  <1>3. CASE Relay /\ up' = up
    BY <1>3, SmallStepsKeep
  <1>4. CASE LogPruned /\ up' = up
    BY <1>4, SmallStepsKeep
  <1>5. CASE SourceSpeaks /\ up' = up
    BY <1>5, SourceSpeaksKeeps
  <1>6. CASE Disconnect /\ up' = up
    BY <1>6, DisconnectKeeps
  <1>7. ASSUME NEW a \in Attempts, LeaseReturned(a), up' = up
        PROVE  IInv'
    BY <1>7, LeaseReturnedKeeps
  <1>8. CASE Progress /\ up' = up
    <2>1. CASE Admitted \/ WaitEnds \/ CallFails
      BY <1>8, <2>1, LoopStepsKeep
    <2>2. CASE TurnedAway
      BY <1>8, <2>2, TurnedAwayKeeps
    <2>3. CASE CallAnswers
      BY <1>8, <2>3, CallAnswersKeeps
    <2>4. CASE RefusalRead \/ AnswerRead
      BY <1>8, <2>4, BodyReadKeeps
    <2>5. CASE Settled
      BY <1>8, <2>5, SettledKeeps
    <2>6. CASE SourceEnds
      BY <1>8, <2>6, SourceEndsKeeps
    <2>7. CASE SourceFails
      BY <1>8, <2>7, SourceFailsKeeps
    <2>8. CASE IdleTimeout \/ Undeliverable
      <3>1. route = "relaying" /\ PipelineBreaks /\ client' = client /\ stream' = stream
        BY <2>8 DEF IdleTimeout, Undeliverable
      <3> QED BY <1>8, <3>1, PipelineBreaksKeeps DEF IInv, TypeOK
    <2>9. CASE RelayEnds
      BY <1>8, <2>9, RelayEndsKeeps
    <2>10. CASE Finalized
      BY <1>8, <2>10, FinalizedKeeps
    <2> QED BY <1>8, <2>1, <2>2, <2>3, <2>4, <2>5, <2>6, <2>7, <2>8, <2>9, <2>10 DEF Progress
  <1> QED BY <1>1, <1>2, <1>3, <1>4, <1>5, <1>6, <1>7, <1>8 DEF Next

THEOREM ChatInvariant == Spec => []IInv
  BY ChatInit, ChatStep, PTL DEF Spec

(* The permits span the request and its pending row, on every exit, for    *)
(* every number of accounts (openai.ts:150-304).                           *)
THEOREM ChatPermitsSpanRequest == Spec => []PermitsSpanRequest
  <1>1. IInv => PermitsSpanRequest
    BY DEF IInv, TypeOK, Stages, Leases, PermitsSpanRequest
  <1> QED BY <1>1, ChatInvariant, PTL

(* A success in the log is a whole answer sent (openai.ts:233-284).        *)
THEOREM ChatLogTellsTheTruth == Spec => []LogTellsTheTruth
  BY ChatInvariant, PTL DEF IInv

(* Only output makes an account healthy (deepseek-stream.ts:449-545).      *)
THEOREM ChatHealthNeedsContent == Spec => []HealthNeedsContent
  BY ChatInvariant, PTL DEF IInv

(* A response that has begun stays with its account (router.ts:184-210).   *)
THEOREM ChatNeverFailsOverOnceCommitted == Spec => NoFailoverOnceCommitted
  <1>1. IInv /\ [Next]_vars =>
          [committed => cur' = cur /\ route' \in {"relaying", "finalizing", "answered"}]_vars
    <2> SUFFICES ASSUME IInv, Next, committed
                 PROVE  cur' = cur /\ route' \in {"relaying", "finalizing", "answered"}
      OBVIOUS
    <2>1. route \in {"relaying", "finalizing", "answered"}
      BY DEF IInv, Stages
    <2> USE DEF End, PipelineBreaks, reporting
    <2>2. CASE Progress
      BY <2>1, <2>2 DEF Progress, Admitted, TurnedAway, WaitEnds, CallFails, CallAnswers,
         RefusalRead, AnswerRead, Settled, SourceEnds, SourceFails, IdleTimeout, Undeliverable,
         RelayEnds, Finalized, Prime
    <2>3. CASE PrimeTimeout \/ SourceSpeaks \/ Relay \/ Disconnect \/ LogPruned
      BY <2>1, <2>3 DEF PrimeTimeout, SourceSpeaks, Relay, Disconnect, LogPruned, Prime
    <2>4. CASE \E a \in Attempts : LeaseReturned(a)
      BY <2>1, <2>4 DEF LeaseReturned
    <2> QED BY <2>2, <2>3, <2>4 DEF Next
  <1> QED BY <1>1, ChatInvariant, PTL DEF Spec, NoFailoverOnceCommitted

-----------------------------------------------------------------------------
(* A conversation as text: induction, and what the operators on sequences  *)
(* return.                                                                 *)

(* Induction over the naturals, for a set rather than for a predicate: what*)
(* holds of 0 and of every successor holds throughout.                     *)
LEMMA NatSets ==
  ASSUME NEW S, 0 \in S, \A n \in Nat : n \in S => n + 1 \in S
  PROVE  Nat \subseteq S
  <1>1. SUFFICES ASSUME Nat \ S # {} PROVE FALSE
    OBVIOUS
  <1>2. \E x \in Nat \ S : \A y \in Nat \ S : <<y, x>> \notin OpToRel(<, Nat)
    BY <1>1, WFMin, NatLessThanWellFounded
  <1>3. PICK x \in Nat \ S : \A y \in Nat \ S : ~ (y < x)
    BY <1>2 DEF OpToRel
  <1>4. x # 0 /\ x - 1 \in Nat
    BY <1>3
  <1>5. x - 1 \in S
    BY <1>3, <1>4
  <1> QED BY <1>3, <1>4, <1>5

(* The same over sequences: what holds of the empty one and of every one   *)
(* that is longer by a member holds throughout.                            *)
LEMMA SeqSets ==
  ASSUME NEW S, NEW T, <<>> \in T,
         \A s \in Seq(S), x \in S : s \in T => Append(s, x) \in T
  PROVE  Seq(S) \subseteq T
  <1> DEFINE N == {n \in Nat : \A s \in Seq(S) : Len(s) = n => s \in T}
  <1>1. 0 \in N
    BY EmptySeq
  <1>2. ASSUME NEW n \in Nat, n \in N PROVE n + 1 \in N
    <2>1. SUFFICES ASSUME NEW s \in Seq(S), Len(s) = n + 1 PROVE s \in T
      OBVIOUS
    <2> DEFINE front == SubSeq(s, 1, n)
    <2>2. front \in Seq(S) /\ Len(front) = n /\ s[n + 1] \in S
      BY <2>1, SubSeqProperties, ElementOfSeq
    <2>3. s = Append(front, s[n + 1])
      BY <2>1, <2>2
    <2> HIDE DEF front
    <2> QED BY <1>2, <2>2, <2>3
  <1>3. Nat \subseteq N
    BY <1>1, <1>2, NatSets
  <1> QED BY <1>3, LenProperties

(* A sequence of naturals, or a set of them, that is not empty has a least *)
(* member, and if it is bounded a greatest.                                *)
LEMMA MinIs ==
  ASSUME NEW S \in SUBSET Nat, S # {}
  PROVE  Min(S) \in S /\ \A x \in S : Min(S) <= x
  <1>1. \E x \in S : \A y \in S : <<y, x>> \notin OpToRel(<, Nat)
    BY WFMin, NatLessThanWellFounded
  <1>2. PICK x \in S : \A y \in S : ~ (y < x)
    BY <1>1 DEF OpToRel
  <1>3. \A y \in S : x <= y
    BY <1>2
  <1> QED BY <1>3 DEF Min

LEMMA MaxIs ==
  ASSUME NEW n \in Nat, NEW S \in SUBSET (0..n), S # {}
  PROVE  Max(S) \in S /\ \A x \in S : x <= Max(S)
  <1> DEFINE R == {n - x : x \in S}
  <1>1. R \in SUBSET Nat /\ R # {}
    OBVIOUS
  <1>2. Min(R) \in R /\ \A y \in R : Min(R) <= y
    BY <1>1, MinIs
  <1>3. PICK x \in S : Min(R) = n - x
    BY <1>2
  <1>4. ASSUME NEW y \in S PROVE y <= x
    <2>1. n - x <= n - y
      BY <1>2, <1>3
    <2> QED BY <2>1
  <1> QED BY <1>4 DEF Max

(* FlattenSeq puts its members one after the other.                        *)
LEMMA FlattenEmpty == FlattenSeq(<<>>) = <<>>
  BY DEF FlattenSeq

LEMMA FlattenSteps ==
  ASSUME NEW S, NEW seqs \in Seq(Seq(S))
  PROVE  \E flat :
           /\ flat[0] = <<>>
           /\ \A i \in 1..Len(seqs) : flat[i] = flat[i - 1] \o seqs[i]
           /\ FlattenSeq(seqs) = flat[Len(seqs)]
  <1>1. CASE seqs = <<>>
    <2> DEFINE flat == [i \in 0..0 |-> <<>>]
    <2>1. flat[0] = <<>>
      OBVIOUS
    <2>2. Len(seqs) = 0 /\ FlattenSeq(seqs) = <<>>
      BY <1>1, FlattenEmpty
    <2> HIDE DEF flat
    <2> QED BY <2>1, <2>2
  <1>2. CASE seqs # <<>>
    <2> DEFINE Next_(g, i) == IF i = 1 THEN seqs[i] ELSE g[i - 1] \o seqs[i]
               T == {n \in Nat : \E g : g = [i \in 1..n |-> Next_(g, i)]}
    <2>1. 0 \in T
      <3> DEFINE g == [i \in 1..0 |-> <<>>]
      <3>1. g = [i \in 1..0 |-> Next_(g, i)]
        OBVIOUS
      <3> QED BY <3>1
    <2>2. ASSUME NEW n \in Nat, n \in T PROVE n + 1 \in T
      <3>1. PICK g : g = [i \in 1..n |-> Next_(g, i)]
        BY <2>2
      <3> DEFINE h == [i \in 1..(n + 1) |-> IF i <= n THEN g[i] ELSE Next_(g, n + 1)]
      <3>2. ASSUME NEW i \in 1..(n + 1) PROVE h[i] = Next_(h, i)
        <4>1. CASE i = 1 /\ i <= n
          <5>1. h[i] = g[i] /\ g[i] = Next_(g, i)
            BY <3>1, <4>1
          <5> QED BY <4>1, <5>1
        <4>2. CASE i # 1 /\ i <= n
          <5>1. h[i] = g[i] /\ h[i - 1] = g[i - 1]
            BY <4>2
          <5>2. i \in 1..n
            BY <4>2
          <5>3. g[i] = g[i - 1] \o seqs[i]
            BY <3>1, <4>2, <5>2
          <5> QED BY <4>2, <5>1, <5>3
        <4>3. CASE i = n + 1
          <5>1. h[i] = Next_(g, n + 1)
            BY <4>3
          <5>2. i # 1 => h[i - 1] = g[i - 1]
            BY <4>3
          <5> QED BY <4>3, <5>1, <5>2
        <4> QED BY <4>1, <4>2, <4>3
      <3> HIDE DEF Next_
      <3>3. h = [i \in 1..(n + 1) |-> Next_(h, i)]
        BY <3>2
      <3> HIDE DEF h
      <3> QED BY <3>3
    <2> HIDE DEF Next_
    <2>3. Len(seqs) \in T
      BY <2>1, <2>2, NatSets, LenProperties
    <2> DEFINE flatten == CHOOSE g : g = [i \in 1..Len(seqs) |-> Next_(g, i)]
    <2>4. flatten = [i \in 1..Len(seqs) |-> Next_(flatten, i)]
      BY <2>3
    <2>5. Len(seqs) \in Nat \ {0}
      BY <1>2, EmptySeq, LenProperties
    <2>6. FlattenSeq(seqs) = flatten[Len(seqs)]
      BY <2>5 DEF FlattenSeq, Next_
    <2> HIDE DEF flatten
    <2>7. \A i \in 1..Len(seqs) : flatten[i] = Next_(flatten, i)
      BY <2>4
    <2> DEFINE flat == [i \in 0..Len(seqs) |-> IF i = 0 THEN <<>> ELSE flatten[i]]
    <2>8. flat[0] = <<>> /\ flat[Len(seqs)] = flatten[Len(seqs)]
      BY <2>5
    <2>9. ASSUME NEW i \in 1..Len(seqs) PROVE flat[i] = flat[i - 1] \o seqs[i]
      <3>1. CASE i = 1
        <4>1. seqs[1] = <<>> \o seqs[1]
          BY <2>5, ElementOfSeq, ConcatEmptySeq
        <4>2. flat[i] = seqs[1] /\ flat[i - 1] = <<>>
          BY <2>7, <2>5, <3>1 DEF Next_
        <4> QED BY <3>1, <4>1, <4>2
      <3>2. CASE i # 1
        <4>1. flat[i] = flatten[i] /\ flat[i - 1] = flatten[i - 1]
          BY <2>5, <3>2
        <4> QED BY <2>7, <3>2, <4>1 DEF Next_
      <3> QED BY <3>1, <3>2
    <2> HIDE DEF flat
    <2> QED BY <2>6, <2>8, <2>9
  <1> QED BY <1>1, <1>2

LEMMA FlattenNext ==
  ASSUME NEW S, NEW seqs \in Seq(Seq(S)), NEW x \in Seq(S)
  PROVE  FlattenSeq(Append(seqs, x)) = FlattenSeq(seqs) \o x
  <1> DEFINE more == Append(seqs, x)
  <1>1. /\ more \in Seq(Seq(S)) /\ Len(more) = Len(seqs) + 1 /\ Len(seqs) \in Nat
        /\ more[Len(seqs) + 1] = x
        /\ \A i \in 1..Len(seqs) : more[i] = seqs[i]
    BY AppendProperties, LenProperties
  <1> HIDE DEF more
  <1>2. PICK flat :
          /\ flat[0] = <<>>
          /\ \A i \in 1..Len(seqs) : flat[i] = flat[i - 1] \o seqs[i]
          /\ FlattenSeq(seqs) = flat[Len(seqs)]
    BY FlattenSteps
  <1>3. PICK flatter :
          /\ flatter[0] = <<>>
          /\ \A i \in 1..Len(more) : flatter[i] = flatter[i - 1] \o more[i]
          /\ FlattenSeq(more) = flatter[Len(more)]
    BY <1>1, FlattenSteps
  <1> DEFINE N == {n \in Nat : n <= Len(seqs) => flatter[n] = flat[n]}
  <1>4. 0 \in N
    BY <1>2, <1>3
  <1>5. ASSUME NEW n \in Nat, n \in N PROVE n + 1 \in N
    <2>1. SUFFICES ASSUME n + 1 <= Len(seqs) PROVE flatter[n + 1] = flat[n + 1]
      OBVIOUS
    <2>2. n + 1 \in 1..Len(seqs) /\ n + 1 \in 1..Len(more) /\ (n + 1) - 1 = n
      <3>1. Len(seqs) \in Nat /\ Len(more) = Len(seqs) + 1
        BY <1>1
      <3> QED BY <2>1, <3>1
    <2>3. flatter[n] = flat[n]
      BY <1>1, <1>5, <2>1
    <2>4. flatter[n + 1] = flatter[n] \o more[n + 1]
      BY <1>3, <2>2
    <2>5. flat[n + 1] = flat[n] \o seqs[n + 1]
      BY <1>2, <2>2
    <2> QED BY <1>1, <2>2, <2>3, <2>4, <2>5
  <1>6. flatter[Len(seqs)] = flat[Len(seqs)]
    <2>1. Len(seqs) \in N
      BY <1>1, <1>4, <1>5, NatSets
    <2>2. Len(seqs) \in Nat
      BY <1>1
    <2> QED BY <2>1, <2>2
  <1>7. flatter[Len(more)] = flatter[Len(seqs)] \o x
    <2>1. Len(more) \in 1..Len(more) /\ Len(more) - 1 = Len(seqs)
      BY <1>1
    <2> QED BY <1>1, <1>3, <2>1
  <1> QED BY <1>2, <1>3, <1>6, <1>7 DEF more

LEMMA FlattenIsSeq ==
  ASSUME NEW S, NEW seqs \in Seq(Seq(S))
  PROVE  FlattenSeq(seqs) \in Seq(S)
  <1> DEFINE T == {s \in Seq(Seq(S)) : FlattenSeq(s) \in Seq(S)}
  <1>1. <<>> \in T
    BY FlattenEmpty, EmptySeq
  <1>2. ASSUME NEW s \in Seq(Seq(S)), NEW x \in Seq(S), s \in T PROVE Append(s, x) \in T
    <2>1. FlattenSeq(Append(s, x)) = FlattenSeq(s) \o x
      BY FlattenNext
    <2>2. FlattenSeq(s) \o x \in Seq(S)
      BY <1>2, ConcatProperties
    <2>3. Append(s, x) \in Seq(Seq(S))
      BY AppendProperties
    <2> QED BY <2>1, <2>2, <2>3
  <1>3. Seq(Seq(S)) \subseteq T
    BY <1>1, <1>2, SeqSets
  <1> QED BY <1>3

(* What is in a sequence that got one more member.                         *)
LEMMA SetOfAppended ==
  ASSUME NEW S, NEW s \in Seq(S), NEW x \in S
  PROVE  Append(s, x) \in Seq(S) /\ ToSet(Append(s, x)) = ToSet(s) \cup {x}
  <1>1. /\ Append(s, x) \in Seq(S) /\ Len(Append(s, x)) = Len(s) + 1 /\ Len(s) \in Nat
        /\ Append(s, x)[Len(s) + 1] = x /\ \A i \in 1..Len(s) : Append(s, x)[i] = s[i]
    BY AppendProperties, LenProperties
  <1>2. 1..(Len(s) + 1) = (1..Len(s)) \cup {Len(s) + 1}
    BY <1>1
  <1> QED BY <1>1, <1>2 DEF ToSet

(* Without, member by member.                                              *)
LEMMA WithoutEmpty == ASSUME NEW out PROVE Without(<<>>, out) = <<>>
  <1>1. [i \in 1..Len(<<>>) |-> IF <<>>[i] \in out THEN <<>> ELSE <<<<>>[i]>>] = <<>>
    OBVIOUS
  <1> QED BY <1>1, FlattenEmpty DEF Without

LEMMA WithoutNext ==
  ASSUME NEW S, NEW s \in Seq(S), NEW x \in S, NEW out
  PROVE  Without(Append(s, x), out) = IF x \in out THEN Without(s, out) ELSE Without(s, out) \o <<x>>
  <1> DEFINE Part(y) == IF y \in out THEN <<>> ELSE <<y>>
             parts(t) == [i \in 1..Len(t) |-> Part(t[i])]
  <1>1. Len(s) \in Nat /\ Append(s, x) \in Seq(S) /\ Len(Append(s, x)) = Len(s) + 1
    BY AppendProperties, LenProperties
  <1>2. \A y \in S : Part(y) \in Seq(S)
    BY EmptySeq
  <1> HIDE DEF Part
  <1>3. parts(s) \in Seq(Seq(S)) /\ Len(parts(s)) = Len(s)
    <2>1. \A i \in 1..Len(s) : parts(s)[i] \in Seq(S)
      BY <1>2, ElementOfSeq
    <2> QED BY <1>1, <2>1, IsASeq
  <1>4. parts(Append(s, x)) = Append(parts(s), Part(x))
    <2>1. parts(Append(s, x)) = [i \in 1..(Len(s) + 1) |-> Part(Append(s, x)[i])]
      BY <1>1
    <2>2. Append(parts(s), Part(x)) = [i \in 1..(Len(s) + 1) |-> IF i = Len(s) + 1 THEN Part(x) ELSE parts(s)[i]]
      BY <1>1, <1>3
    <2>3. ASSUME NEW i \in 1..(Len(s) + 1)
          PROVE  Part(Append(s, x)[i]) = IF i = Len(s) + 1 THEN Part(x) ELSE parts(s)[i]
      BY <1>1, AppendProperties
    <2> QED BY <2>1, <2>2, <2>3
  <1>5. FlattenSeq(parts(Append(s, x))) = FlattenSeq(parts(s)) \o Part(x)
    BY <1>2, <1>3, <1>4, FlattenNext
  <1>6. Without(s, out) = FlattenSeq(parts(s)) /\ Without(Append(s, x), out) = FlattenSeq(parts(Append(s, x)))
    BY DEF Without, Part
  <1>7. FlattenSeq(parts(s)) \o <<>> = FlattenSeq(parts(s))
    BY <1>3, FlattenIsSeq, ConcatEmptySeq
  <1> QED BY <1>5, <1>6, <1>7 DEF Part

LEMMA WithoutIs ==
  ASSUME NEW S, NEW s \in Seq(S), NEW out
  PROVE  /\ Without(s, out) \in Seq(S)
         /\ ToSet(Without(s, out)) = ToSet(s) \ out
  <1> DEFINE T == {t \in Seq(S) : /\ Without(t, out) \in Seq(S)
                                  /\ ToSet(Without(t, out)) = ToSet(t) \ out}
  <1>1. <<>> \in T
    <2>1. ToSet(<<>>) = {}
      BY DEF ToSet
    <2> QED BY <2>1, WithoutEmpty, EmptySeq
  <1>2. ASSUME NEW t \in Seq(S), NEW x \in S, t \in T PROVE Append(t, x) \in T
    <2> DEFINE w == Without(t, out)
    <2>1. Without(Append(t, x), out) = IF x \in out THEN w ELSE w \o <<x>>
      BY WithoutNext
    <2>2. Append(t, x) \in Seq(S) /\ ToSet(Append(t, x)) = ToSet(t) \cup {x}
      BY SetOfAppended
    <2>3. w \in Seq(S) /\ ToSet(w) = ToSet(t) \ out
      BY <1>2
    <2> HIDE DEF w
    <2>4. w \o <<x>> = Append(w, x) /\ Append(w, x) \in Seq(S) /\ ToSet(Append(w, x)) = ToSet(w) \cup {x}
      BY <2>3, SetOfAppended, AppendIsConcat
    <2>5. CASE x \in out
      BY <2>1, <2>2, <2>3, <2>5
    <2>6. CASE x \notin out
      BY <2>1, <2>2, <2>3, <2>4, <2>6
    <2> QED BY <2>5, <2>6
  <1>3. Seq(S) \subseteq T
    BY <1>1, <1>2, SeqSets
  <1> QED BY <1>3

LEMMA WithoutConcat ==
  ASSUME NEW S, NEW s \in Seq(S), NEW t \in Seq(S), NEW out
  PROVE  Without(s \o t, out) = Without(s, out) \o Without(t, out)
  <1> DEFINE T == {u \in Seq(S) : Without(s \o u, out) = Without(s, out) \o Without(u, out)}
  <1>1. <<>> \in T
    <2>1. s \o <<>> = s /\ Without(s, out) \o <<>> = Without(s, out)
      BY WithoutIs, ConcatEmptySeq
    <2> QED BY <2>1, WithoutEmpty, EmptySeq
  <1>2. ASSUME NEW u \in Seq(S), NEW x \in S, u \in T PROVE Append(u, x) \in T
    <2> DEFINE v == Without(s, out)
               w == Without(u, out)
    <2>1. v \in Seq(S) /\ w \in Seq(S) /\ <<x>> \in Seq(S) /\ s \o u \in Seq(S) /\ Append(u, x) \in Seq(S)
      BY WithoutIs, ConcatProperties, AppendProperties
    <2>2. s \o Append(u, x) = Append(s \o u, x)
      <3>1. Append(u, x) = u \o <<x>> /\ Append(s \o u, x) = (s \o u) \o <<x>>
        BY <2>1, AppendIsConcat
      <3> QED BY <2>1, <3>1, ConcatAssociative
    <2>3. Without(s \o Append(u, x), out) = IF x \in out THEN v \o w ELSE (v \o w) \o <<x>>
      <3>1. Without(s \o u, out) = v \o w
        BY <1>2
      <3>2. Without(Append(s \o u, x), out)
              = IF x \in out THEN Without(s \o u, out) ELSE Without(s \o u, out) \o <<x>>
        BY <2>1, WithoutNext
      <3> QED BY <2>2, <3>1, <3>2
    <2>4. Without(Append(u, x), out) = IF x \in out THEN w ELSE w \o <<x>>
      BY WithoutNext
    <2> HIDE DEF v, w
    <2>5. (v \o w) \o <<x>> = v \o (w \o <<x>>)
      BY <2>1, ConcatAssociative
    <2>6. Without(s \o Append(u, x), out) = v \o Without(Append(u, x), out)
      BY <2>3, <2>4, <2>5
    <2> QED BY <2>1, <2>6 DEF v
  <1>3. Seq(S) \subseteq T
    BY <1>1, <1>2, SeqSets
  <1> QED BY <1>3

-----------------------------------------------------------------------------
(* What a text is made of: the provers do not know that a literal is a     *)
(* string.                                                                 *)
Symbols == STRING \cup Urls \cup {"newline", "gap"}

LEMMA Wider == ASSUME NEW S, NEW T PROVE Seq(S) \subseteq Seq(S \cup T)
  BY SeqMonotonic

LEMMA SymbolsAre ==
  /\ Seq(STRING) \subseteq Seq(Symbols) /\ STRING \subseteq Symbols
  /\ Urls \subseteq Symbols /\ "newline" \in Symbols /\ "gap" \in Symbols
  <1>1. Symbols = STRING \cup (Urls \cup {"newline", "gap"})
    BY Zenon DEF Symbols
  <1>2. Seq(STRING) \subseteq Seq(Symbols)
    BY <1>1, Wider, Zenon
  <1> QED BY <1>1, <1>2, Zenon

(* The symbols that are no links.                                          *)
LEMMA UrlsAre ==
  /\ "newline" \notin Urls /\ Close \notin Urls /\ Blank \notin Urls
  /\ Fence \notin Urls
  <1>1. "newline" # "u1" /\ "newline" # "u2"
    OBVIOUS
  <1>2. Close # "u1" /\ Close # "u2"
    BY Zenon DEF Close
  <1>3. Blank # "u1" /\ Blank # "u2"
    BY Zenon DEF Blank
  <1>4. Fence # "u1" /\ Fence # "u2"
    BY Zenon DEF Fence
  <1> QED BY <1>1, <1>2, <1>3, <1>4 DEF Urls

(* The links of a list: each stands in it once, and the list, when it is   *)
(* not empty, begins with a line and ends with a link.                     *)
LinksOf(text) == ToSet(text) \cap Urls

Once(text) == \A i, j \in 1..Len(text) : text[i] \in Urls /\ text[i] = text[j] => i = j

Lines(text) == text = <<>> \/ (text[1] = "newline" /\ text[Len(text)] \in Urls)

LinkList(text) == text \in Seq(Symbols) /\ Once(text) /\ Lines(text)

LEMMA LinkListConcat ==
  ASSUME NEW s, LinkList(s), NEW t, LinkList(t), LinksOf(s) \cap LinksOf(t) = {}
  PROVE  LinkList(s \o t) /\ LinksOf(s \o t) = LinksOf(s) \cup LinksOf(t)
  <1>1. s \in Seq(Symbols) /\ t \in Seq(Symbols)
    BY DEF LinkList
  <1> DEFINE m == Len(s)
             n == Len(t)
             u == s \o t
  <1>2. m \in Nat /\ n \in Nat
    BY <1>1, LenProperties
  <1>3. /\ u \in Seq(Symbols) /\ Len(u) = m + n
        /\ \A i \in 1..(m + n) : u[i] = IF i <= m THEN s[i] ELSE t[i - m]
    BY <1>1, ConcatProperties
  <1>4. \A i \in 1..m : u[i] = s[i]
    BY <1>2, <1>3
  <1>5. \A i \in 1..n : u[m + i] = t[i]
    BY <1>2, <1>3
  <1>6. \A i \in 1..(m + n) : i \in 1..m \/ \E k \in 1..n : i = m + k
    <2>1. ASSUME NEW i \in 1..(m + n), i \notin 1..m PROVE i - m \in 1..n /\ i = m + (i - m)
      BY <1>2, <2>1
    <2> QED BY <2>1
  <1>7. \A i \in 1..m : \A k \in 1..n : s[i] \in Urls => s[i] # t[k]
    BY DEF LinksOf, ToSet
  <1>a. s = <<>> <=> m = 0
    BY <1>1, EmptySeq
  <1>b. t = <<>> <=> n = 0
    BY <1>1, EmptySeq
  <1> HIDE DEF u, m, n
  <1>8. Once(u)
    <2>1. SUFFICES ASSUME NEW i \in 1..(m + n), NEW j \in 1..(m + n), u[i] \in Urls, u[i] = u[j]
                   PROVE  i = j
      BY <1>3 DEF Once
    <2>2. CASE i \in 1..m /\ j \in 1..m
      BY <1>4, <2>1, <2>2 DEF LinkList, Once, m
    <2>3. CASE i \in 1..m /\ j \notin 1..m
      BY <1>4, <1>5, <1>6, <1>7, <2>1, <2>3
    <2>4. CASE i \notin 1..m /\ j \in 1..m
      BY <1>4, <1>5, <1>6, <1>7, <2>1, <2>4
    <2>5. CASE i \notin 1..m /\ j \notin 1..m
      <3>1. PICK k \in 1..n : i = m + k
        BY <1>6, <2>5
      <3>2. PICK l \in 1..n : j = m + l
        BY <1>6, <2>5
      <3>3. k = l
        BY <1>5, <2>1, <3>1, <3>2 DEF LinkList, Once, n
      <3> QED BY <3>1, <3>2, <3>3
    <2> QED BY <2>2, <2>3, <2>4, <2>5
  <1>9. Lines(u)
    <2>1. CASE m = 0 /\ n = 0
      <3>1. u = <<>>
        BY <1>3, <2>1, EmptySeq
      <3> QED BY <3>1 DEF Lines
    <2>2. CASE m = 0 /\ n # 0
      <3>1. Len(u) = n /\ u[1] = t[1] /\ u[n] = t[n]
        <4>1. 1 \in 1..n /\ n \in 1..n /\ m + 1 = 1 /\ m + n = n
          BY <1>2, <2>2
        <4>2. u[m + 1] = t[1] /\ u[m + n] = t[n]
          BY <1>5, <4>1
        <4> QED BY <1>3, <4>1, <4>2
      <3> QED BY <1>b, <2>2, <3>1 DEF LinkList, Lines, n
    <2>3. CASE m # 0 /\ n = 0
      <3>1. Len(u) = m /\ u[1] = s[1] /\ u[m] = s[m]
        BY <1>2, <1>3, <1>4, <2>3
      <3> QED BY <1>a, <2>3, <3>1 DEF LinkList, Lines, m
    <2>4. CASE m # 0 /\ n # 0
      <3>1. Len(u) = m + n /\ u[1] = s[1] /\ u[m + n] = t[n]
        BY <1>2, <1>3, <1>4, <1>5, <2>4
      <3> QED BY <1>a, <1>b, <2>4, <3>1 DEF LinkList, Lines, m, n
    <2> QED BY <2>1, <2>2, <2>3, <2>4
  <1>10. ToSet(u) = ToSet(s) \cup ToSet(t)
    <2>1. ASSUME NEW x \in ToSet(u) PROVE x \in ToSet(s) \cup ToSet(t)
      <3>1. PICK i \in 1..(m + n) : u[i] = x
        BY <1>3 DEF ToSet
      <3>2. CASE i \in 1..m
        BY <1>4, <3>1, <3>2 DEF ToSet, m
      <3>3. CASE i \notin 1..m
        <4>1. PICK k \in 1..n : i = m + k
          BY <1>6, <3>3
        <4> QED BY <1>5, <3>1, <4>1 DEF ToSet, n
      <3> QED BY <3>2, <3>3
    <2>2. ASSUME NEW x \in ToSet(s) PROVE x \in ToSet(u)
      <3>1. PICK i \in 1..m : s[i] = x
        BY DEF ToSet, m
      <3>2. i \in 1..Len(u)
        BY <1>2, <1>3
      <3> QED BY <1>4, <3>1, <3>2 DEF ToSet
    <2>3. ASSUME NEW x \in ToSet(t) PROVE x \in ToSet(u)
      <3>1. PICK i \in 1..n : t[i] = x
        BY DEF ToSet, n
      <3>2. m + i \in 1..Len(u)
        BY <1>2, <1>3
      <3> QED BY <1>5, <3>1, <3>2 DEF ToSet
    <2> QED BY <2>1, <2>2, <2>3
  <1>11. LinkList(u) /\ LinksOf(u) = LinksOf(s) \cup LinksOf(t)
    BY <1>3, <1>8, <1>9, <1>10 DEF LinkList, LinksOf
  <1> QED BY <1>11 DEF u

LEMMA LinkListFlat ==
  ASSUME NEW parts \in Seq(Seq(Symbols)),
         \A p \in 1..Len(parts) : LinkList(parts[p]),
         \A p, q \in 1..Len(parts) : p # q => LinksOf(parts[p]) \cap LinksOf(parts[q]) = {}
  PROVE  /\ LinkList(FlattenSeq(parts))
         /\ \A url : url \in LinksOf(FlattenSeq(parts))
                      <=> \E p \in 1..Len(parts) : url \in LinksOf(parts[p])
  <1> DEFINE Good(seqs) ==
               /\ \A p \in 1..Len(seqs) : LinkList(seqs[p])
               /\ \A p, q \in 1..Len(seqs) : p # q => LinksOf(seqs[p]) \cap LinksOf(seqs[q]) = {}
             Fine(seqs) ==
               /\ LinkList(FlattenSeq(seqs))
               /\ \A url : url \in LinksOf(FlattenSeq(seqs))
                            <=> \E p \in 1..Len(seqs) : url \in LinksOf(seqs[p])
             T == {seqs \in Seq(Seq(Symbols)) : Good(seqs) => Fine(seqs)}
  <1>1. <<>> \in T
    <2>1. LinkList(<<>>) /\ LinksOf(<<>>) = {}
      BY DEF LinkList, Once, Lines, LinksOf, ToSet
    <2>2. Fine(<<>>)
      BY <2>1, FlattenEmpty
    <2> QED BY <2>2
  <1>2. ASSUME NEW seqs \in Seq(Seq(Symbols)), NEW x \in Seq(Symbols), seqs \in T
        PROVE  Append(seqs, x) \in T
    <2> DEFINE more == Append(seqs, x)
    <2>1. /\ more \in Seq(Seq(Symbols)) /\ Len(seqs) \in Nat /\ Len(more) = Len(seqs) + 1
          /\ more[Len(seqs) + 1] = x
          /\ \A p \in 1..Len(seqs) : more[p] = seqs[p]
      BY AppendProperties, LenProperties
    <2>2. FlattenSeq(more) = FlattenSeq(seqs) \o x
      BY FlattenNext
    <2> HIDE DEF more
    <2>3. SUFFICES ASSUME Good(more) PROVE Fine(more)
      BY <2>1 DEF more
    <2> DEFINE n == Len(seqs)
    <2>4. /\ n \in Nat /\ n + 1 \in 1..Len(more)
          /\ \A p \in 1..n : p \in 1..Len(more) /\ p # n + 1
          /\ \A p \in 1..Len(more) : p # n + 1 => p \in 1..n
      <3>1. PICK k \in Nat : k = n
        BY <2>1
      <3>2. Len(more) = k + 1
        BY <2>1, <3>1
      <3> HIDE DEF n
      <3> QED BY <3>1, <3>2
    <2>5. \A p \in 1..n : more[p] = seqs[p]
      BY <2>1
    <2>6. more[n + 1] = x
      BY <2>1
    <2> HIDE DEF n
    <2>7. Good(seqs)
      <3>1. \A p \in 1..n : LinkList(seqs[p])
        BY <2>3, <2>4, <2>5
      <3>2. \A p, q \in 1..n : p # q => LinksOf(seqs[p]) \cap LinksOf(seqs[q]) = {}
        BY <2>3, <2>4, <2>5
      <3> QED BY <3>1, <3>2 DEF n
    <2>8. Fine(seqs)
      BY <1>2, <2>7
    <2>9. LinkList(x)
      BY <2>3, <2>4, <2>6
    <2>10. LinksOf(FlattenSeq(seqs)) \cap LinksOf(x) = {}
      <3>1. SUFFICES ASSUME NEW url, url \in LinksOf(FlattenSeq(seqs)), url \in LinksOf(x) PROVE FALSE
        OBVIOUS
      <3>2. PICK p \in 1..n : url \in LinksOf(seqs[p])
        BY <2>8, <3>1 DEF n
      <3>3. LinksOf(more[p]) \cap LinksOf(more[n + 1]) = {}
        BY <2>3, <2>4, <3>2
      <3> QED BY <2>5, <2>6, <3>1, <3>2, <3>3
    <2>11. LinkList(FlattenSeq(seqs) \o x)
           /\ LinksOf(FlattenSeq(seqs) \o x) = LinksOf(FlattenSeq(seqs)) \cup LinksOf(x)
      BY <2>8, <2>9, <2>10, LinkListConcat
    <2>12. ASSUME NEW url \in LinksOf(FlattenSeq(more))
           PROVE  \E p \in 1..Len(more) : url \in LinksOf(more[p])
      <3>1. CASE url \in LinksOf(x)
        BY <2>4, <2>6, <3>1
      <3>2. CASE url \in LinksOf(FlattenSeq(seqs))
        <4>1. PICK p \in 1..n : url \in LinksOf(seqs[p])
          BY <2>8, <3>2 DEF n
        <4> QED BY <2>4, <2>5, <4>1
      <3> QED BY <2>2, <2>11, <2>12, <3>1, <3>2
    <2>13. ASSUME NEW url, NEW p \in 1..Len(more), url \in LinksOf(more[p])
           PROVE  url \in LinksOf(FlattenSeq(more))
      <3>1. CASE p = n + 1
        BY <2>2, <2>6, <2>11, <2>13, <3>1
      <3>2. CASE p # n + 1
        <4>1. p \in 1..n /\ url \in LinksOf(seqs[p])
          BY <2>4, <2>5, <2>13, <3>2
        <4>2. url \in LinksOf(FlattenSeq(seqs))
          BY <2>8, <4>1 DEF n
        <4> QED BY <2>2, <2>11, <4>2
      <3> QED BY <3>1, <3>2
    <2> QED BY <2>2, <2>11, <2>12, <2>13
  <1>3. parts \in T
    BY <1>1, <1>2, SeqSets
  <1>4. Good(parts)
    OBVIOUS
  <1>5. Fine(parts)
    BY <1>3, <1>4
  <1> QED BY <1>5

(* What the decoder keeps of the results: each address once, with a number *)
(* that can be told from an address.                                       *)
ResultMap(known, given) ==
  /\ known \in Seq([url : Urls, number : Nat])
  /\ \A j, k \in 1..Len(known) : known[j].url = known[k].url => j = k
  /\ \A k \in 1..Len(known) : Index(known[k].number) /\ known[k].url \in given

LEMMA MergedKeeps ==
  ASSUME NEW given, NEW known, ResultMap(known, given),
         NEW item \in [url : Urls, valid : BOOLEAN, number : Nat],
         Index(item.number), item.valid => item.url \in given
  PROVE  ResultMap(Merged(known, item), given)
  <1> DEFINE places == {k \in 1..Len(known) : known[k].url = item.url}
             entry  == [url |-> item.url, number |-> item.number]
             n == Len(known)
  <1>1. known \in Seq([url : Urls, number : Nat]) /\ n \in Nat
    BY LenProperties DEF ResultMap
  <1>2. entry \in [url : Urls, number : Nat] /\ entry.url = item.url /\ entry.number = item.number
    OBVIOUS
  <1>3. Merged(known, item) = IF ~item.valid THEN known
                              ELSE IF places = {} THEN Append(known, entry)
                              ELSE [known EXCEPT ![Min(places)] = entry]
    BY DEF Merged
  <1> HIDE DEF entry
  <1>4. CASE ~item.valid
    BY <1>3, <1>4
  <1>5. CASE item.valid /\ places = {}
    <2> DEFINE more == Append(known, entry)
    <2>1. /\ more \in Seq([url : Urls, number : Nat]) /\ Len(more) = n + 1
          /\ more[n + 1] = entry /\ \A k \in 1..n : more[k] = known[k]
      BY <1>1, <1>2, AppendProperties
    <2>2. \A k \in 1..n : known[k].url # item.url
      BY <1>5
    <2> HIDE DEF more, n
    <2>3. \A k \in 1..(n + 1) : k = n + 1 \/ k \in 1..n
      BY <1>1
    <2>4. \A j, k \in 1..(n + 1) : more[j].url = more[k].url => j = k
      BY <1>2, <2>1, <2>2, <2>3 DEF ResultMap, n
    <2>5. \A k \in 1..(n + 1) : Index(more[k].number) /\ more[k].url \in given
      BY <1>2, <1>5, <2>1, <2>3 DEF ResultMap, n
    <2>6. ResultMap(more, given)
      BY <2>1, <2>4, <2>5 DEF ResultMap
    <2> QED BY <1>3, <1>5, <2>6 DEF more
  <1>6. CASE item.valid /\ places # {}
    <2>1. Min(places) \in places
      BY <1>6, MinIs
    <2>2. PICK p \in 1..n : p = Min(places) /\ known[p].url = item.url
      BY <2>1
    <2> DEFINE new == [known EXCEPT ![p] = entry]
    <2>3. /\ new \in Seq([url : Urls, number : Nat]) /\ Len(new) = n
          /\ new[p] = entry /\ \A k \in 1..n : k # p => new[k] = known[k]
      BY <1>1, <1>2, <2>2, ExceptSeq
    <2> HIDE DEF new, n
    <2>4. \A k \in 1..n : new[k].url = known[k].url
      BY <1>2, <2>2, <2>3
    <2>5. \A j, k \in 1..n : new[j].url = new[k].url => j = k
      BY <2>4 DEF ResultMap, n
    <2>6. \A k \in 1..n : Index(new[k].number) /\ new[k].url \in given
      BY <1>2, <1>6, <2>3, <2>4 DEF ResultMap, n
    <2>7. ResultMap(new, given)
      BY <2>3, <2>5, <2>6 DEF ResultMap
    <2> QED BY <1>3, <1>6, <2>2, <2>7 DEF new
  <1> QED BY <1>4, <1>5, <1>6

LEMMA NumberedKeeps ==
  ASSUME NEW given, NEW known, ResultMap(known, given),
         NEW event, event.entry \in Nat \ {0}, Index(event.number)
  PROVE  ResultMap(Numbered(known, event), given)
  <1> DEFINE n == Len(known)
             p == event.entry
  <1>1. known \in Seq([url : Urls, number : Nat]) /\ n \in Nat
    BY LenProperties DEF ResultMap
  <1>2. CASE p <= n
    <2> DEFINE entry == [known[p] EXCEPT !.number = event.number]
               new == [known EXCEPT ![p] = entry]
    <2>1. p \in 1..n /\ event.number \in Nat
      BY <1>1, <1>2 DEF Index
    <2>2. known[p] \in [url : Urls, number : Nat]
      BY <1>1, <2>1, ElementOfSeq
    <2>3. entry \in [url : Urls, number : Nat] /\ entry.url = known[p].url /\ entry.number = event.number
      BY <2>1, <2>2
    <2> HIDE DEF entry
    <2>4. /\ new \in Seq([url : Urls, number : Nat]) /\ Len(new) = n
          /\ new[p] = entry /\ \A k \in 1..n : k # p => new[k] = known[k]
      BY <1>1, <2>1, <2>3, ExceptSeq
    <2> HIDE DEF new, n, p
    <2>5. \A k \in 1..n : new[k].url = known[k].url
      BY <2>3, <2>4
    <2>6. \A j, k \in 1..n : new[j].url = new[k].url => j = k
      BY <2>5 DEF ResultMap, n
    <2>7. \A k \in 1..n : Index(new[k].number) /\ new[k].url \in given
      BY <2>3, <2>4, <2>5 DEF ResultMap, n
    <2>8. ResultMap(new, given)
      BY <2>4, <2>6, <2>7 DEF ResultMap
    <2>9. Numbered(known, event) = new
      BY <1>2 DEF Numbered, new, entry, n, p
    <2> QED BY <2>8, <2>9
  <1>3. CASE ~ (p <= n)
    BY <1>3 DEF Numbered
  <1> QED BY <1>2, <1>3

LEMMA MergedAllKeeps ==
  ASSUME NEW given, NEW known, ResultMap(known, given),
         NEW items \in Seq([url : Urls, valid : BOOLEAN, number : Nat]),
         \A i \in 1..Len(items) : Index(items[i].number) /\ (items[i].valid => items[i].url \in given)
  PROVE  ResultMap(MergedAll(known, items), given)
  <1> DEFINE Next_(g, n) == IF n = 0 THEN known ELSE Merged(g[n - 1], items[n])
             T == {n \in Nat : \E g : g = [i \in 0..n |-> Next_(g, i)]}
  <1>1. 0 \in T
    <2> DEFINE g == [i \in 0..0 |-> known]
    <2>1. g = [i \in 0..0 |-> Next_(g, i)]
      OBVIOUS
    <2> QED BY <2>1
  <1>2. ASSUME NEW n \in Nat, n \in T PROVE n + 1 \in T
    <2>1. PICK g : g = [i \in 0..n |-> Next_(g, i)]
      BY <1>2
    <2> DEFINE h == [i \in 0..(n + 1) |-> IF i <= n THEN g[i] ELSE Next_(g, n + 1)]
    <2>2. ASSUME NEW i \in 0..(n + 1) PROVE h[i] = Next_(h, i)
      <3>1. CASE i = 0
        <4>1. h[i] = g[i] /\ g[i] = Next_(g, i)
          BY <2>1, <3>1
        <4> QED BY <3>1, <4>1
      <3>2. CASE i \in 1..n
        <4>1. h[i] = g[i] /\ h[i - 1] = g[i - 1]
          BY <3>2
        <4>2. g[i] = Next_(g, i)
          BY <2>1, <3>2
        <4> QED BY <3>2, <4>1, <4>2
      <3>3. CASE i = n + 1
        <4>1. h[i] = Next_(g, n + 1) /\ h[i - 1] = g[i - 1]
          BY <3>3
        <4> QED BY <3>3, <4>1
      <3> QED BY <3>1, <3>2, <3>3
    <2> HIDE DEF Next_
    <2>3. h = [i \in 0..(n + 1) |-> Next_(h, i)]
      BY <2>2
    <2> HIDE DEF h
    <2> QED BY <2>3
  <1> HIDE DEF Next_
  <1>3. Len(items) \in T
    BY <1>1, <1>2, NatSets, LenProperties
  <1> DEFINE merged == CHOOSE g : g = [i \in 0..Len(items) |-> Next_(g, i)]
  <1>4. merged = [i \in 0..Len(items) |-> Next_(merged, i)]
    BY <1>3
  <1>5. MergedAll(known, items) = merged[Len(items)]
    BY DEF MergedAll, Next_
  <1> HIDE DEF merged
  <1>6. \A i \in 0..Len(items) : merged[i] = Next_(merged, i)
    BY <1>4
  <1> DEFINE N == {n \in Nat : n <= Len(items) => ResultMap(merged[n], given)}
  <1>7. PICK m \in Nat : m = Len(items)
    BY LenProperties
  <1>8. 0 \in N
    BY <1>6, <1>7 DEF Next_
  <1>9. ASSUME NEW n \in Nat, n \in N PROVE n + 1 \in N
    <2>1. SUFFICES ASSUME n + 1 <= m PROVE ResultMap(merged[n + 1], given)
      BY <1>7
    <2>2. n + 1 \in 0..m /\ n + 1 \in 1..m /\ n + 1 # 0 /\ (n + 1) - 1 = n /\ n <= m
      BY <2>1
    <2>3. merged[n + 1] = Merged(merged[n], items[n + 1])
      BY <1>6, <1>7, <2>2 DEF Next_
    <2>4. ResultMap(merged[n], given)
      BY <1>7, <1>9, <2>2
    <2>5. items[n + 1] \in [url : Urls, valid : BOOLEAN, number : Nat]
      BY <1>7, <2>2, ElementOfSeq
    <2> QED BY <1>7, <2>2, <2>3, <2>4, <2>5, MergedKeeps
  <1>10. m \in N
    BY <1>8, <1>9, NatSets
  <1> QED BY <1>5, <1>7, <1>10

-----------------------------------------------------------------------------
(* The citations of a list of results.                                     *)
LEMMA LinesOfIs ==
  ASSUME NEW given, NEW known, ResultMap(known, given), NEW number \in Nat
  PROVE  /\ LinkList(LinesOf(known, number))
         /\ \A url : url \in LinksOf(LinesOf(known, number))
              <=> \E k \in 1..Len(known) : known[k].url = url /\ known[k].number = number
  <1> DEFINE n == Len(known)
             Part(k) == IF known[k].number = number
                        THEN <<"newline", ToString(number), known[k].url>> ELSE <<>>
             parts == [k \in 1..n |-> Part(k)]
  <1>1. n \in Nat /\ known \in Seq([url : Urls, number : Nat])
    BY LenProperties DEF ResultMap
  <1>2. ASSUME NEW k \in 1..n
        PROVE  /\ LinkList(Part(k))
               /\ \A url : url \in LinksOf(Part(k)) <=> known[k].url = url /\ known[k].number = number
    <2>1. CASE known[k].number = number
      <3> DEFINE line == <<"newline", ToString(number), known[k].url>>
      <3>1. ToString(number) \in Symbols \ Urls
        BY <2>1, SymbolsAre DEF ResultMap, Index
      <3>2. known[k].url \in Urls
        <4>1. known[k] \in [url : Urls, number : Nat]
          BY <1>1, ElementOfSeq
        <4> QED BY <4>1
      <3>3. "newline" \notin Urls /\ Urls \subseteq Symbols
        BY UrlsAre, SymbolsAre
      <3>4. PICK digits : digits = ToString(number)
        OBVIOUS
      <3>5. PICK link : link = known[k].url
        OBVIOUS
      <3>6. line = <<"newline", digits, link>>
        BY <3>4, <3>5
      <3>7. digits \in Symbols \ Urls /\ link \in Urls /\ link \in Symbols
        BY <3>1, <3>2, <3>3, <3>4, <3>5
      <3> HIDE DEF line
      <3>8. line \in Seq(Symbols) /\ Len(line) = 3 /\ line[1] = "newline" /\ line[2] = digits /\ line[3] = link
        <4>1. "newline" \in Symbols
          BY SymbolsAre
        <4>2. PICK newline : newline = "newline"
          OBVIOUS
        <4>3. line = <<newline, digits, link>> /\ newline \in Symbols
          BY <3>6, <4>1, <4>2
        <4>4. line \in Seq(Symbols) /\ Len(line) = 3
          BY <3>7, <4>3
        <4>5. line[1] = newline /\ line[2] = digits /\ line[3] = link
          BY <4>3
        <4> QED BY <4>2, <4>4, <4>5
      <3>9. Once(line)
        BY <3>3, <3>7, <3>8 DEF Once
      <3>10. Lines(line)
        BY <3>7, <3>8 DEF Lines
      <3>11. LinksOf(line) = {link}
        BY <3>3, <3>7, <3>8 DEF LinksOf, ToSet
      <3>12. Part(k) = line
        BY <2>1 DEF line
      <3> HIDE DEF Part
      <3> QED BY <2>1, <3>5, <3>8, <3>9, <3>10, <3>11, <3>12 DEF LinkList
    <2>2. CASE known[k].number # number
      <3>1. Part(k) = <<>>
        BY <2>2
      <3>2. LinkList(<<>>) /\ LinksOf(<<>>) = {}
        BY DEF LinkList, Once, Lines, LinksOf, ToSet
      <3> QED BY <3>1, <3>2
    <2> QED BY <2>1, <2>2
  <1> HIDE DEF Part
  <1>3. parts \in Seq(Seq(Symbols)) /\ Len(parts) = n /\ \A k \in 1..n : parts[k] = Part(k)
    <2>1. \A k \in 1..n : Part(k) \in Seq(Symbols)
      BY <1>2 DEF LinkList
    <2> QED BY <1>1, <2>1, IsASeq
  <1> HIDE DEF parts
  <1>4. ASSUME NEW j \in 1..n, NEW k \in 1..n, j # k
        PROVE  LinksOf(parts[j]) \cap LinksOf(parts[k]) = {}
    <2>1. known[j].url # known[k].url
      BY <1>4 DEF ResultMap
    <2> QED BY <1>2, <1>3, <2>1
  <1>5. /\ LinkList(FlattenSeq(parts))
        /\ \A url : url \in LinksOf(FlattenSeq(parts)) <=> \E p \in 1..n : url \in LinksOf(parts[p])
    <2>1. \A p \in 1..Len(parts) : LinkList(parts[p])
      BY <1>2, <1>3
    <2>2. \A p, q \in 1..Len(parts) : p # q => LinksOf(parts[p]) \cap LinksOf(parts[q]) = {}
      BY <1>3, <1>4
    <2> QED BY <1>3, <2>1, <2>2, LinkListFlat
  <1>6. LinesOf(known, number) = FlattenSeq(parts)
    BY DEF LinesOf, parts, Part
  <1>7. ASSUME NEW url
        PROVE  url \in LinksOf(FlattenSeq(parts))
                 <=> \E k \in 1..n : known[k].url = url /\ known[k].number = number
    <2>1. \A p \in 1..n : url \in LinksOf(parts[p]) <=> known[p].url = url /\ known[p].number = number
      BY <1>2, <1>3
    <2> QED BY <1>5, <2>1
  <1> QED BY <1>5, <1>6, <1>7

(* Every number of a list is at most its last.                             *)
LEMMA NumbersBounded ==
  ASSUME NEW known \in Seq([url : Urls, number : Nat])
  PROVE  LET last == Max({0} \cup {known[k].number : k \in 1..Len(known)})
         IN  last \in Nat /\ \A k \in 1..Len(known) : known[k].number \in 0..last
  <1> DEFINE Of(s) == {s[k].number : k \in 1..Len(s)}
             T == {s \in Seq([url : Urls, number : Nat]) : \E m \in Nat : \A x \in Of(s) : x \in 0..m}
  <1>1. <<>> \in T
    <2>1. Of(<<>>) = {}
      OBVIOUS
    <2> QED BY <2>1
  <1>2. ASSUME NEW s \in Seq([url : Urls, number : Nat]), NEW r \in [url : Urls, number : Nat], s \in T
        PROVE  Append(s, r) \in T
    <2>1. PICK m \in Nat : \A x \in Of(s) : x \in 0..m
      BY <1>2
    <2>2. /\ Append(s, r) \in Seq([url : Urls, number : Nat]) /\ Len(Append(s, r)) = Len(s) + 1
          /\ Append(s, r)[Len(s) + 1] = r /\ \A k \in 1..Len(s) : Append(s, r)[k] = s[k]
      BY AppendProperties
    <2>3. \A k \in 1..(Len(s) + 1) : k \in 1..Len(s) \/ k = Len(s) + 1
      BY LenProperties
    <2>4. \A x \in Of(Append(s, r)) : x \in Of(s) \/ x = r.number
      BY <2>2, <2>3
    <2>5. PICK b \in Nat : b = r.number
      OBVIOUS
    <2> HIDE DEF Of
    <2>6. \A x \in Of(Append(s, r)) : x \in 0..(m + b)
      BY <2>1, <2>4, <2>5
    <2> QED BY <2>2, <2>6
  <1>3. known \in T
    BY <1>1, <1>2, SeqSets
  <1>4. PICK m \in Nat : \A x \in Of(known) : x \in 0..m
    BY <1>3
  <1> HIDE DEF Of
  <1> DEFINE S == {0} \cup Of(known)
  <1>5. S \in SUBSET (0..m) /\ S # {}
    BY <1>4
  <1> HIDE DEF S
  <1>6. Max(S) \in 0..m /\ \A x \in S : x <= Max(S)
    <2>1. Max(S) \in S /\ \A x \in S : x <= Max(S)
      BY <1>4, <1>5, MaxIs
    <2> QED BY <1>5, <2>1
  <1>7. Max(S) \in Nat /\ \A x \in S : x \in 0..Max(S)
    <2>1. Max(S) \in Nat
      BY <1>4, <1>6
    <2>2. \A x \in S : x \in Nat
      BY <1>4, <1>5
    <2> QED BY <1>6, <2>1, <2>2
  <1> QED BY <1>7 DEF S, Of

LEMMA CitationsAre ==
  ASSUME NEW given, NEW known, ResultMap(known, given)
  PROVE  LET list == Citations(known)
         IN  /\ list \in Seq(Symbols) /\ Once(list)
             /\ LinksOf(list) = {known[k].url : k \in {j \in 1..Len(known) : known[j].number # 0}}
             /\ list # <<>> => list[Len(list)] \in Urls
  <1> DEFINE last == Max({0} \cup {known[k].number : k \in 1..Len(known)})
             parts == [number \in 1..last |-> LinesOf(known, number)]
             lines == FlattenSeq(parts)
  <1>1. last \in Nat /\ \A k \in 1..Len(known) : known[k].number \in 0..last
    BY NumbersBounded DEF ResultMap
  <1> HIDE DEF last
  <1>2. ASSUME NEW p \in 1..last
        PROVE  /\ LinkList(parts[p])
               /\ \A url : url \in LinksOf(parts[p])
                    <=> \E k \in 1..Len(known) : known[k].url = url /\ known[k].number = p
    BY <1>1, LinesOfIs
  <1>3. parts \in Seq(Seq(Symbols)) /\ Len(parts) = last
    <2>1. \A p \in 1..last : parts[p] \in Seq(Symbols)
      BY <1>2 DEF LinkList
    <2>2. parts = [p \in 1..last |-> parts[p]]
      OBVIOUS
    <2> HIDE DEF parts
    <2> QED BY <1>1, <2>1, <2>2, IsASeq
  <1> HIDE DEF parts
  <1>4. ASSUME NEW p \in 1..last, NEW q \in 1..last, p # q
        PROVE  LinksOf(parts[p]) \cap LinksOf(parts[q]) = {}
    <2>1. SUFFICES ASSUME NEW url, url \in LinksOf(parts[p]), url \in LinksOf(parts[q]) PROVE FALSE
      OBVIOUS
    <2>2. PICK j \in 1..Len(known) : known[j].url = url /\ known[j].number = p
      BY <1>2, <2>1
    <2>3. PICK k \in 1..Len(known) : known[k].url = url /\ known[k].number = q
      BY <1>2, <2>1
    <2> QED BY <1>4, <2>2, <2>3 DEF ResultMap
  <1>5. /\ LinkList(lines)
        /\ \A url : url \in LinksOf(lines) <=> \E p \in 1..last : url \in LinksOf(parts[p])
    <2>1. \A p \in 1..Len(parts) : LinkList(parts[p])
      BY <1>2, <1>3
    <2>2. \A p, q \in 1..Len(parts) : p # q => LinksOf(parts[p]) \cap LinksOf(parts[q]) = {}
      BY <1>3, <1>4
    <2> QED BY <1>3, <2>1, <2>2, LinkListFlat
  <1> DEFINE cited == {known[k].url : k \in {j \in 1..Len(known) : known[j].number # 0}}
  <1>6. LinksOf(lines) = cited
    <2>1. ASSUME NEW url \in LinksOf(lines) PROVE url \in cited
      <3>1. PICK p \in 1..last : url \in LinksOf(parts[p])
        BY <1>5
      <3>2. PICK k \in 1..Len(known) : known[k].url = url /\ known[k].number = p
        BY <1>2, <3>1
      <3>3. p # 0
        BY <1>1, <3>1
      <3> QED BY <3>2, <3>3
    <2>2. ASSUME NEW k \in 1..Len(known), known[k].number # 0 PROVE known[k].url \in LinksOf(lines)
      <3>1. known[k].number \in 1..last
        <4>1. PICK m \in Nat : m = last
          BY <1>1
        <4>2. known[k].number \in 0..m
          BY <1>1, <4>1
        <4> QED BY <2>2, <4>1, <4>2
      <3>2. known[k].url \in LinksOf(parts[known[k].number])
        BY <1>2, <3>1
      <3> QED BY <1>5, <3>1, <3>2
    <2> QED BY <2>1, <2>2
  <1>7. Citations(known) = IF lines = <<>> THEN <<>> ELSE Tail(lines)
    BY DEF Citations, parts, last
  <1> HIDE DEF lines
  <1>8. CASE lines = <<>>
    <2>1. Once(<<>>) /\ LinksOf(<<>>) = cited
      BY <1>6, <1>8 DEF Once
    <2> HIDE DEF cited
    <2> QED BY <1>7, <1>8, <2>1 DEF cited
  <1>9. CASE lines # <<>>
    <2> DEFINE list == Tail(lines)
    <2>1. PICK n \in Nat : n = Len(lines)
      BY <1>5, LenProperties DEF LinkList
    <2>2. n >= 2
      <3>1. n # 0
        BY <1>5, <1>9, <2>1, EmptySeq DEF LinkList
      <3>2. lines[1] = "newline" /\ lines[n] \in Urls
        BY <1>5, <1>9, <2>1 DEF LinkList, Lines
      <3>3. n # 1
        BY <3>2 DEF Urls
      <3> QED BY <3>1, <3>3
    <2>3. list \in Seq(Symbols) /\ Len(list) = n - 1 /\ \A i \in 1..(n - 1) : list[i] = lines[i + 1]
      BY <1>5, <1>9, <2>1, HeadTailProperties DEF LinkList
    <2>4. \A i \in 1..(n - 1) : i + 1 \in 1..n
      OBVIOUS
    <2> HIDE DEF list
    <2>5. Once(list)
      <3>1. SUFFICES ASSUME NEW i \in 1..(n - 1), NEW j \in 1..(n - 1), list[i] \in Urls, list[i] = list[j]
                     PROVE  i = j
        BY <2>3 DEF Once
      <3>2. i + 1 = j + 1
        BY <1>5, <2>1, <2>3, <2>4, <3>1 DEF LinkList, Once
      <3> QED BY <3>2
    <2>6. LinksOf(list) = LinksOf(lines)
      <3>1. LinksOf(list) \subseteq LinksOf(lines)
        BY <1>5, <2>1, <2>3, <2>4 DEF LinkList, LinksOf, ToSet
      <3>2. ASSUME NEW url \in LinksOf(lines) PROVE url \in LinksOf(list)
        <4>1. PICK i \in 1..n : lines[i] = url /\ url \in Urls
          BY <1>5, <2>1, <3>2 DEF LinkList, LinksOf, ToSet
        <4>2. lines[1] = "newline"
          BY <1>5, <1>9 DEF LinkList, Lines
        <4>3. i # 1
          BY <4>1, <4>2, UrlsAre
        <4>4. i - 1 \in 1..(n - 1) /\ (i - 1) + 1 = i
          BY <2>1, <4>1, <4>3
        <4>5. list[i - 1] = url
          BY <2>3, <4>1, <4>4
        <4> QED BY <2>3, <4>1, <4>4, <4>5 DEF LinksOf, ToSet
      <3> QED BY <3>1, <3>2
    <2>7. list[Len(list)] \in Urls
      <3>1. n - 1 \in 1..(n - 1) /\ (n - 1) + 1 = n
        BY <2>2
      <3>2. list[n - 1] = lines[n]
        BY <2>3, <3>1
      <3> QED BY <1>5, <1>9, <2>1, <2>3, <3>2 DEF LinkList, Lines
    <2> HIDE DEF cited
    <2> QED BY <1>6, <1>7, <1>9, <2>3, <2>5, <2>6, <2>7 DEF list, cited
  <1> QED BY <1>8, <1>9

-----------------------------------------------------------------------------
(* A piece of a sequence.                                                  *)
LEMMA SubSeqIs ==
  ASSUME NEW S, NEW s \in Seq(S), NEW m \in Nat, m = Len(s),
         NEW a \in 1..(m + 1), NEW b \in 0..m, a <= b + 1
  PROVE  /\ SubSeq(s, a, b) \in Seq(S) /\ Len(SubSeq(s, a, b)) = b - a + 1
         /\ \A i \in 1..(b - a + 1) : SubSeq(s, a, b)[i] = s[a + i - 1]
  <1>1. \A i \in a..b : s[i] \in S
    <2>1. \A i \in a..b : i \in 1..m
      OBVIOUS
    <2> QED BY <2>1, ElementOfSeq
  <1>2. /\ SubSeq(s, a, b) \in Seq(S)
        /\ Len(SubSeq(s, a, b)) = IF a <= b THEN b - a + 1 ELSE 0
        /\ \A i \in 1..(b - a + 1) : SubSeq(s, a, b)[i] = s[a + i - 1]
    BY <1>1, SubSeqProperties
  <1>3. (IF a <= b THEN b - a + 1 ELSE 0) = b - a + 1
    OBVIOUS
  <1> QED BY <1>2, <1>3

(* A text without its outer blanks.                                        *)
LEMMA TrimIs ==
  ASSUME NEW text \in Seq(Symbols)
  PROVE  LET t == Trim(text)
             n == Len(text)
         IN  /\ t \in Seq(Symbols)
             /\ t # <<>> => t[1] # Blank /\ t[Len(t)] # Blank
             /\ n # 0 /\ text[n] # Blank => t # <<>> /\ t[Len(t)] = text[n]
             /\ n # 0 /\ text[n] # Blank /\ text[1] # Blank => t = text
             /\ n = 0 => t = <<>>
  <1> DEFINE ink == {i \in 1..Len(text) : text[i] # Blank}
  <1>1. PICK n \in Nat : n = Len(text)
    BY LenProperties
  <1>2. Trim(text) = IF ink = {} THEN <<>> ELSE SubSeq(text, Min(ink), Max(ink))
    BY DEF Trim
  <1>3. CASE ink = {}
    <2>1. Trim(text) = <<>>
      BY <1>2, <1>3
    <2>2. n # 0 => text[n] = Blank
      <3>1. n # 0 => n \in 1..Len(text)
        BY <1>1
      <3> QED BY <1>3, <3>1
    <2>3. <<>> \in Seq(Symbols)
      OBVIOUS
    <2> QED BY <1>1, <2>1, <2>2, <2>3
  <1>4. CASE ink # {}
    <2>0. ink \in SUBSET (1..n) /\ \A i \in 1..n : text[i] # Blank => i \in ink
      BY <1>1
    <2>1. Min(ink) \in ink /\ \A i \in ink : Min(ink) <= i
      <3>1. ink \in SUBSET Nat
        BY <1>1, <2>0
      <3> HIDE DEF ink
      <3> QED BY <1>4, <3>1, MinIs
    <2>2. Max(ink) \in ink /\ \A i \in ink : i <= Max(ink)
      <3>1. ink \in SUBSET (0..n)
        BY <1>1, <2>0
      <3> HIDE DEF ink
      <3> QED BY <1>1, <1>4, <3>1, MaxIs
    <2>3. PICK a \in 1..n : a = Min(ink)
      BY <1>1, <2>1
    <2>4. PICK b \in 1..n : b = Max(ink)
      BY <1>1, <2>2
    <2>5. a <= b /\ text[a] # Blank /\ text[b] # Blank /\ a \in 1..n /\ b \in 1..n
      <3>1. a \in ink /\ b \in ink
        BY <2>1, <2>2, <2>3, <2>4
      <3>2. a <= b
        BY <2>1, <2>3, <3>1
      <3> QED BY <2>3, <2>4, <3>1, <3>2
    <2> DEFINE t == SubSeq(text, a, b)
    <2>6. /\ t \in Seq(Symbols) /\ Len(t) = b - a + 1
          /\ \A i \in 1..(b - a + 1) : t[i] = text[a + i - 1]
      <3>1. a \in 1..(n + 1) /\ b \in 0..n /\ a <= b + 1
        BY <1>1, <2>5
      <3> QED BY <1>1, <3>1, SubSeqIs
    <2>7. 1 \in 1..(b - a + 1) /\ a + 1 - 1 = a /\ b - a + 1 \in 1..(b - a + 1) /\ a + (b - a + 1) - 1 = b
      BY <1>1, <2>5
    <2>8. t[1] = text[a] /\ t[b - a + 1] = text[b]
      BY <2>6, <2>7
    <2>9. n # 0 /\ text[n] # Blank => b = n
      <3>1. SUFFICES ASSUME text[n] # Blank PROVE b = n
        OBVIOUS
      <3>2. n \in ink
        BY <1>1, <2>0, <2>5, <3>1
      <3>3. n <= b
        BY <2>2, <2>4, <3>2
      <3> QED BY <1>1, <2>5, <3>3
    <2>10. n # 0 /\ text[1] # Blank => a = 1
      <3>1. SUFFICES ASSUME text[1] # Blank PROVE a = 1
        OBVIOUS
      <3>2. 1 \in ink
        BY <1>1, <2>0, <2>5, <3>1
      <3>3. a <= 1
        BY <2>1, <2>3, <3>2
      <3> QED BY <1>1, <2>5, <3>3
    <2>11. a = 1 /\ b = n => t = text
      BY <1>1, SubSeqFull
    <2>12. t # <<>>
      <3>1. Len(t) # 0
        BY <1>1, <2>6, <2>5
      <3> QED BY <2>6, <3>1, EmptySeq
    <2>13. Trim(text) = t
      BY <1>2, <1>4, <2>3, <2>4
    <2>14. n # 0
      BY <1>1, <2>5
    <2> HIDE DEF t, ink
    <2> QED BY <1>1, <2>5, <2>6, <2>8, <2>9, <2>10, <2>11, <2>12, <2>13, <2>14
  <1> QED BY <1>3, <1>4

(* What is left of a text before the first stop sequence, and what is cut. *)
LEMMA StopsAre ==
  ASSUME NEW text \in Seq(Symbols), NEW stops \in Seq(Seq(Symbols))
  PROVE  LET kept == applyStopSequences(text, stops)
             rest == SubSeq(text, Len(kept) + 1, Len(text))
         IN  /\ IsPrefix(kept, text)
             /\ \A k \in 1..Len(stops) : \A i \in Occurrences(stops[k], text) : i > Len(kept)
             /\ rest # <<>> => \E k \in 1..Len(stops) : IsPrefix(stops[k], rest)
  <1> DEFINE cuts == UNION {Occurrences(stops[k], text) : k \in 1..Len(stops)}
  <1>1. PICK n \in Nat : n = Len(text)
    BY LenProperties
  <1>2. applyStopSequences(text, stops) = IF cuts = {} THEN text ELSE SubSeq(text, 1, Min(cuts) - 1)
    BY DEF applyStopSequences
  <1>3. cuts \subseteq 1..n
    BY <1>1 DEF Occurrences
  <1>4. \A k \in 1..Len(stops) : Occurrences(stops[k], text) \subseteq cuts
    OBVIOUS
  <1>5. CASE cuts = {}
    <2>1. applyStopSequences(text, stops) = text
      BY <1>2, <1>5
    <2>2. SubSeq(text, n + 1, n) = <<>>
      BY <1>1, SubSeqEmpty
    <2>3. IsPrefix(text, text)
      BY <1>1 DEF IsPrefix
    <2> QED BY <1>1, <1>4, <1>5, <2>1, <2>2, <2>3
  <1>6. CASE cuts # {}
    <2>1. Min(cuts) \in cuts /\ \A i \in cuts : Min(cuts) <= i
      <3> HIDE DEF cuts
      <3>1. cuts \in SUBSET Nat
        BY <1>1, <1>3
      <3> QED BY <1>6, <3>1, MinIs
    <2>2. PICK m \in 1..n : m = Min(cuts)
      BY <1>3, <2>1
    <2>3. PICK k \in 1..Len(stops) : m \in Occurrences(stops[k], text)
      BY <2>1, <2>2
    <2> DEFINE kept == SubSeq(text, 1, m - 1)
               rest == SubSeq(text, m, n)
               marker == stops[k]
    <2>4. PICK l \in Nat : l = Len(marker)
      BY <2>3, ElementOfSeq, LenProperties
    <2>5. m + l - 1 <= n /\ SubSeq(text, m, m + l - 1) = marker
      BY <1>1, <2>3, <2>4 DEF Occurrences
    <2>6. kept \in Seq(Symbols) /\ Len(kept) = m - 1 /\ \A i \in 1..(m - 1) : kept[i] = text[i]
      <3>1. m - 1 \in 0..n /\ (m - 1) - 1 + 1 = m - 1
        OBVIOUS
      <3> QED BY <1>1, <3>1, SubSeqProperties
    <2>7. IsPrefix(kept, text)
      <3>1. SubSeq(kept, 1, m - 1) = kept
        BY <2>6, SubSeqFull
      <3> QED BY <1>1, <2>6, <3>1 DEF IsPrefix
    <2>8. rest \in Seq(Symbols) /\ Len(rest) = n - m + 1 /\ \A i \in 1..(n - m + 1) : rest[i] = text[m + i - 1]
      BY <1>1, SubSeqProperties
    <2>9. IsPrefix(marker, rest)
      <3>1. l <= n - m + 1
        BY <2>5
      <3>2. /\ SubSeq(rest, 1, l) \in Seq(Symbols) /\ Len(SubSeq(rest, 1, l)) = l
            /\ \A i \in 1..l : SubSeq(rest, 1, l)[i] = rest[i]
        BY <2>8, <3>1, SubSeqProperties
      <3>3. /\ marker \in Seq(Symbols)
            /\ \A i \in 1..l : marker[i] = text[m + i - 1]
        <4>1. marker \in Seq(Symbols)
          BY <2>3, ElementOfSeq
        <4>2. \A i \in 1..l : SubSeq(text, m, m + l - 1)[i] = text[m + i - 1]
          BY <1>1, <2>5, SubSeqProperties
        <4> QED BY <2>5, <4>1, <4>2
      <3> HIDE DEF marker, rest
      <3>4. \A i \in 1..l : SubSeq(rest, 1, l)[i] = marker[i]
        <4>1. \A i \in 1..l : i \in 1..(n - m + 1)
          BY <3>1
        <4> QED BY <2>8, <3>2, <3>3, <4>1
      <3>5. SubSeq(rest, 1, l) = marker
        BY <2>4, <3>2, <3>3, <3>4, SeqEqual
      <3>6. SubSeq(marker, 1, l) = marker
        BY <2>4, <3>3, SubSeqFull
      <3> QED BY <2>4, <2>8, <3>1, <3>5, <3>6 DEF IsPrefix
    <2>10. applyStopSequences(text, stops) = kept
      BY <1>2, <1>6, <2>2
    <2>11. \A j \in 1..Len(stops) : \A i \in Occurrences(stops[j], text) : i > m - 1
      <3>1. \A i \in cuts : i \in 1..n /\ m <= i
        BY <1>3, <2>1, <2>2
      <3> HIDE DEF cuts
      <3>2. m \in Nat
        BY <1>1, <2>2
      <3>3. \A i \in 1..n : m <= i => i > m - 1
        BY <1>1, <3>2
      <3>4. \A i \in cuts : i > m - 1
        BY <3>1, <3>3
      <3>5. \A j \in 1..Len(stops) : Occurrences(stops[j], text) \subseteq cuts
        BY <1>4
      <3> QED BY <3>4, <3>5
    <2>12. SubSeq(text, Len(kept) + 1, Len(text)) = rest
      <3>1. m - 1 + 1 = m
        OBVIOUS
      <3> QED BY <1>1, <2>6, <3>1
    <2> HIDE DEF kept, rest, cuts
    <2> QED BY <2>6, <2>7, <2>9, <2>10, <2>11, <2>12 DEF marker
  <1> QED BY <1>5, <1>6

(* A text without its first and its last symbol.                           *)
LEMMA MiddleIs ==
  ASSUME NEW t \in Seq(Symbols), NEW n \in Nat, n = Len(t), n >= 2
  PROVE  /\ SubSeq(t, 2, n - 1) \in Seq(Symbols)
         /\ ToSet(SubSeq(t, 2, n - 1)) = {t[i] : i \in 2..(n - 1)}
         /\ ToSet(t) = ToSet(SubSeq(t, 2, n - 1)) \cup {t[1], t[n]}
  <1> DEFINE middle == SubSeq(t, 2, n - 1)
  <1>5. /\ middle \in Seq(Symbols) /\ Len(middle) = n - 2
        /\ \A i \in 1..(n - 2) : middle[i] = t[i + 1]
    <2>1. /\ SubSeq(t, 2, n - 1) \in Seq(Symbols) /\ Len(SubSeq(t, 2, n - 1)) = (n - 1) - 2 + 1
          /\ \A i \in 1..((n - 1) - 2 + 1) : SubSeq(t, 2, n - 1)[i] = t[2 + i - 1]
      <3>1. 2 \in 1..(n + 1) /\ n - 1 \in 0..n /\ 2 <= (n - 1) + 1
        OBVIOUS
      <3> QED BY <3>1, SubSeqIs
    <2>2. (n - 1) - 2 + 1 = n - 2 /\ \A i \in 1..(n - 2) : 2 + i - 1 = i + 1
      OBVIOUS
    <2> QED BY <2>1, <2>2
  <1> HIDE DEF middle
  <1>6. ToSet(middle) = {t[i] : i \in 2..(n - 1)}
    <2>1. ASSUME NEW x \in ToSet(middle) PROVE x \in {t[i] : i \in 2..(n - 1)}
      <3>1. PICK i \in 1..(n - 2) : middle[i] = x
        BY <1>5 DEF ToSet
      <3>2. i + 1 \in 2..(n - 1)
        BY <3>1
      <3> QED BY <1>5, <3>1, <3>2
    <2>2. ASSUME NEW i \in 2..(n - 1) PROVE t[i] \in ToSet(middle)
      <3>1. i - 1 \in 1..(n - 2) /\ (i - 1) + 1 = i
        OBVIOUS
      <3>2. middle[i - 1] = t[i]
        BY <1>5, <3>1
      <3>3. i - 1 \in 1..Len(middle)
        BY <1>5, <3>1
      <3>4. middle \in Seq(Symbols)
        BY <1>5
      <3> QED BY <3>2, <3>3, <3>4 DEF ToSet
    <2> QED BY <2>1, <2>2
  <1>7. ToSet(t) = ToSet(middle) \cup {t[1], t[n]}
    <2>1. 1..n = (2..(n - 1)) \cup {1, n}
      OBVIOUS
    <2>2. ToSet(t) = {t[i] : i \in 2..(n - 1)} \cup {t[1], t[n]}
      BY <2>1 DEF ToSet
    <2> QED BY <1>6, <2>2
  <1> QED BY <1>5, <1>6, <1>7 DEF middle

(* Only blanks are trimmed.                                                *)
LEMMA TrimSet ==
  ASSUME NEW text \in Seq(Symbols)
  PROVE  ToSet(Trim(text)) \ {Blank} = ToSet(text) \ {Blank}
  <1> DEFINE ink == {i \in 1..Len(text) : text[i] # Blank}
  <1>1. PICK n \in Nat : n = Len(text)
    BY LenProperties
  <1>2. Trim(text) = IF ink = {} THEN <<>> ELSE SubSeq(text, Min(ink), Max(ink))
    BY DEF Trim
  <1>3. ToSet(text) = {text[i] : i \in 1..n} /\ ink \in SUBSET (1..n)
        /\ \A i \in 1..n : text[i] # Blank <=> i \in ink
    BY <1>1 DEF ToSet
  <1> HIDE DEF ink
  <1>4. CASE ink = {}
    <2>1. ToSet(Trim(text)) = {}
      BY <1>2, <1>4 DEF ToSet
    <2> QED BY <1>3, <1>4, <2>1
  <1>5. CASE ink # {}
    <2>1. ink \in SUBSET Nat /\ ink \in SUBSET (0..n)
      BY <1>1, <1>3
    <2>2. Min(ink) \in ink /\ \A i \in ink : Min(ink) <= i
      BY <1>5, <2>1, MinIs
    <2>3. Max(ink) \in ink /\ \A i \in ink : i <= Max(ink)
      BY <1>1, <1>5, <2>1, MaxIs
    <2>4. PICK a \in 1..n : a = Min(ink)
      BY <1>3, <2>2
    <2>5. PICK b \in 1..n : b = Max(ink)
      BY <1>3, <2>3
    <2>6. a <= b
      BY <2>2, <2>3, <2>4, <2>5
    <2> DEFINE t == SubSeq(text, a, b)
    <2>7. /\ t \in Seq(Symbols) /\ Len(t) = b - a + 1
          /\ \A i \in 1..(b - a + 1) : t[i] = text[a + i - 1]
      <3>1. a \in 1..(n + 1) /\ b \in 0..n /\ a <= b + 1
        BY <1>1, <2>6
      <3> QED BY <1>1, <3>1, SubSeqIs
    <2>8. Trim(text) = t
      BY <1>2, <1>5, <2>4, <2>5
    <2> HIDE DEF t
    <2>9. ToSet(t) \subseteq ToSet(text)
      <3>1. \A i \in 1..(b - a + 1) : a + i - 1 \in 1..n
        BY <1>1, <2>6
      <3>2. ToSet(t) = {t[i] : i \in 1..(b - a + 1)}
        BY <2>7 DEF ToSet
      <3> QED BY <1>3, <2>7, <3>1, <3>2
    <2>10. ASSUME NEW x \in ToSet(text), x # Blank PROVE x \in ToSet(t)
      <3>1. PICK i \in 1..n : x = text[i]
        BY <1>3
      <3>2. i \in ink
        BY <1>3, <2>10, <3>1
      <3>3. a <= i /\ i <= b
        BY <2>2, <2>3, <2>4, <2>5, <3>2
      <3>4. i - a + 1 \in 1..(b - a + 1) /\ a + (i - a + 1) - 1 = i
        BY <1>1, <3>3
      <3>5. t[i - a + 1] = x
        BY <2>7, <3>1, <3>4
      <3>6. i - a + 1 \in 1..Len(t)
        BY <2>7, <3>4
      <3> QED BY <2>7, <3>5, <3>6 DEF ToSet
    <2> QED BY <2>8, <2>9, <2>10
  <1> QED BY <1>4, <1>5

(* Fences are all that is stripped besides.                                *)
LEMMA FencesAre ==
  ASSUME NEW text \in Seq(Symbols)
  PROVE  /\ stripJsonFences(text) \in Seq(Symbols)
         /\ \/ stripJsonFences(text) = Trim(text)
            \/ Trim(text) # <<>> /\ Trim(text)[Len(Trim(text))] = Fence
         /\ ToSet(Trim(text)) \ {Fence, Blank} = ToSet(stripJsonFences(text)) \ {Fence, Blank}
  <1> DEFINE t == Trim(text)
             u == stripJsonFences(text)
  <1>1. t \in Seq(Symbols)
    BY TrimIs
  <1>2. PICK n \in Nat : n = Len(t)
    BY <1>1, LenProperties
  <1>3. u = IF n >= 2 /\ Head(t) = Fence /\ Last(t) = Fence THEN Trim(SubSeq(t, 2, n - 1)) ELSE t
    BY <1>2 DEF stripJsonFences
  <1> HIDE DEF t, u
  <1>4. CASE n >= 2 /\ Head(t) = Fence /\ Last(t) = Fence
    <2> DEFINE middle == SubSeq(t, 2, n - 1)
    <2>1. u = Trim(middle)
      BY <1>3, <1>4
    <2>2. t[1] = Fence /\ t[n] = Fence
      <3>1. Head(t) = t[1] /\ Last(t) = t[Len(t)]
        BY <1>1 DEF Last
      <3> QED BY <1>2, <1>4, <3>1
    <2>3. middle \in Seq(Symbols) /\ ToSet(t) = ToSet(middle) \cup {Fence}
      BY <1>1, <1>2, <1>4, <2>2, MiddleIs
    <2> HIDE DEF middle
    <2>4. ToSet(Trim(middle)) \ {Blank} = ToSet(middle) \ {Blank} /\ Trim(middle) \in Seq(Symbols)
      BY <2>3, TrimSet, TrimIs
    <2>5. t # <<>>
      <3>1. Len(t) # 0
        BY <1>2, <1>4
      <3> QED BY <3>1
    <2> QED BY <1>2, <2>1, <2>2, <2>3, <2>4, <2>5 DEF t, u
  <1>5. CASE ~(n >= 2 /\ Head(t) = Fence /\ Last(t) = Fence)
    BY <1>1, <1>3, <1>5 DEF t, u
  <1> QED BY <1>4, <1>5

(* The calls of an envelope are all that is said in it.                    *)
LEMMA CallsAre ==
  ASSUME NEW text \in Seq(Symbols), NEW offered, parseToolCalls(text, offered) # <<>>
  PROVE  LET calls == parseToolCalls(text, offered)
             t == Trim(text)
         IN  /\ t # <<>> /\ t[Len(t)] \in {Close, Fence}
             /\ ToSet(calls) \subseteq offered
             /\ ToSet(t) \ {Open, Close, "junk", Fence, Blank} = ToSet(calls)
  <1> DEFINE t == stripJsonFences(text)
             middle == SubSeq(t, 2, Len(t) - 1)
             entries == Without(middle, {"junk"})
  <1>1. t \in Seq(Symbols)
    BY FencesAre
  <1>2. PICK n \in Nat : n = Len(t)
    BY <1>1, LenProperties
  <1>3. /\ n >= 2 /\ Head(t) = Open /\ Last(t) = Close
        /\ \A i \in 2..(n - 1) : t[i] \in Tools \cup {"junk"}
        /\ ToSet(entries) \subseteq offered
        /\ parseToolCalls(text, offered) = entries
    BY <1>2 DEF parseToolCalls
  <1>4. t[1] = Open /\ t[n] = Close
    <2>1. Head(t) = t[1] /\ Last(t) = t[Len(t)]
      BY <1>1 DEF Last
    <2> QED BY <1>2, <1>3, <2>1
  <1> HIDE DEF t
  <1>5. /\ middle \in Seq(Symbols) /\ ToSet(middle) = {t[i] : i \in 2..(n - 1)}
        /\ ToSet(t) = ToSet(middle) \cup {Open, Close}
    BY <1>1, <1>2, <1>3, <1>4, MiddleIs
  <1> HIDE DEF middle
  <1>8. ToSet(entries) = ToSet(middle) \ {"junk"}
    BY <1>5, WithoutIs
  <1>9. ToSet(middle) \subseteq Tools \cup {"junk"}
    BY <1>3, <1>5
  <1>10. /\ Open \notin Tools /\ Close \notin Tools /\ Open # "junk" /\ Close # "junk"
         /\ Fence \notin Tools /\ Blank \notin Tools
    BY Zenon DEF Tools, Open, Close, Fence, Blank
  <1>11. ToSet(t) \ {Open, Close, "junk", Fence, Blank} = ToSet(entries)
    BY <1>5, <1>8, <1>9, <1>10
  <1> HIDE DEF entries
  <1> DEFINE whole == Trim(text)
  <1>12. /\ t = whole \/ (whole # <<>> /\ whole[Len(whole)] = Fence)
         /\ ToSet(whole) \ {Fence, Blank} = ToSet(t) \ {Fence, Blank}
    BY FencesAre DEF t
  <1> HIDE DEF whole
  <1>13. ToSet(whole) \ {Open, Close, "junk", Fence, Blank} = ToSet(entries)
    BY <1>11, <1>12
  <1>14. whole # <<>> /\ whole[Len(whole)] \in {Close, Fence}
    <2>1. t # <<>>
      <3>1. Len(t) # 0
        BY <1>2, <1>3
      <3> QED BY <3>1
    <2> QED BY <1>2, <1>4, <1>12, <2>1
  <1> QED BY <1>3, <1>13, <1>14 DEF whole

(* A plain envelope of an offered tool calls it.                           *)
LEMMA PlainCall ==
  ASSUME NEW offered, NEW tool \in Tools, tool \in offered, <<Open, tool, Close>> \in Seq(Symbols)
  PROVE  parseToolCalls(<<Open, tool, Close>>, offered) = <<tool>>
  <1> DEFINE text == <<Open, tool, Close>>
  <1>1. /\ Len(text) = 3 /\ text[1] = Open /\ text[2] = tool /\ text[3] = Close
        /\ Head(text) = Open /\ Last(text) = Close
    BY DEF Last
  <1>2. Open # Blank /\ Close # Blank /\ Open # Fence
    BY Zenon DEF Open, Close, Blank, Fence
  <1>3. SubSeq(text, 2, 2) = <<tool>>
    <2> DEFINE part == SubSeq(text, 2, 2)
    <2>1. 3 = Len(text) /\ 3 \in Nat /\ text \in Seq(Symbols) /\ text[2] = tool
      BY <1>1
    <2>2. 2 \in 1..(3 + 1) /\ 2 \in 0..3 /\ 2 <= 2 + 1 /\ 2 - 2 + 1 = 1 /\ 2 + 1 - 1 = 2
      OBVIOUS
    <2> HIDE DEF text
    <2>3. /\ part \in Seq(Symbols) /\ Len(part) = 2 - 2 + 1
          /\ \A i \in 1..(2 - 2 + 1) : part[i] = text[2 + i - 1]
      BY <2>1, <2>2, SubSeqIs
    <2>4. part[1] = tool /\ Len(part) = 1
      BY <2>1, <2>2, <2>3
    <2>5. tool \in Symbols
      BY <2>1, ElementOfSeq
    <2> HIDE DEF part
    <2>6. <<tool>> \in Seq(Symbols) /\ Len(<<tool>>) = 1 /\ <<tool>>[1] = tool
      BY <2>5
    <2>7. \A i \in 1..1 : part[i] = <<tool>>[i]
      BY <2>4, <2>6
    <2>8. part = <<tool>>
      BY <2>3, <2>4, <2>6, <2>7, SeqEqual
    <2> QED BY <2>8 DEF part
  <1> HIDE DEF text
  <1>4. Trim(text) = text
    <2>1. text \in Seq(Symbols)
      BY DEF text
    <2> QED BY <1>1, <1>2, <2>1, TrimIs
  <1>5. stripJsonFences(text) = text
    BY <1>1, <1>2, <1>4 DEF stripJsonFences
  <1>6. Without(<<tool>>, {"junk"}) = <<tool>>
    <2>1. <<tool>> = Append(<<>>, tool) /\ <<>> \in Seq(Tools) /\ tool \notin {"junk"}
      BY DEF Tools
    <2> DEFINE out == {"junk"}
    <2>2. tool \notin out
      BY <2>1
    <2> HIDE DEF out
    <2>3. Without(Append(<<>>, tool), out)
            = IF tool \in out THEN Without(<<>>, out) ELSE Without(<<>>, out) \o <<tool>>
      BY <2>1, WithoutNext
    <2>4. Without(<<>>, out) = <<>> /\ <<>> \o <<tool>> = <<tool>>
      BY WithoutEmpty
    <2> QED BY <2>1, <2>2, <2>3, <2>4 DEF out
  <1>7. /\ Len(text) >= 2 /\ SubSeq(text, 2, Len(text) - 1) = <<tool>>
        /\ \A i \in 2..(Len(text) - 1) : text[i] \in Tools \cup {"junk"}
    BY <1>1, <1>3
  <1>8. ToSet(<<tool>>) \subseteq offered
    BY DEF ToSet
  <1>9. parseToolCalls(text, offered) = <<tool>>
    BY <1>1, <1>5, <1>6, <1>7, <1>8 DEF parseToolCalls
  <1> QED BY <1>9 DEF text

-----------------------------------------------------------------------------
(* The texts of one path in a script.                                      *)
Told(lines, path) ==
  FlattenSeq([n \in 1..Len(lines) |->
    IF lines[n].kind = "text" /\ lines[n].path = path THEN lines[n].text ELSE <<>>])

LEMMA TextsAre == \A path : TextsOn(path) = Cleaned(Told(script, path))
  BY DEF TextsOn, Told

(* The kinds of events and what each carries.                              *)
LEMMA ChunkIs ==
  ASSUME NEW e \in Answers
  PROVE  /\ e.kind \in {"text", "results", "batch"}
         /\ e.kind = "text" => e.path \in {"thinking", "content"} /\ e.text \in Seq(Symbols)
         /\ e.kind = "results" => /\ e.items \in Seq([url : Urls, valid : BOOLEAN, number : Nat])
                                  /\ \A i \in 1..Len(e.items) : Index(e.items[i].number)
         /\ e.kind = "batch" => e.entry \in Nat \ {0} /\ Index(e.number)
  <1>1. StreamChunk(e)
    BY ConversationAssumption
  <1>2. CASE e.kind = "text"
    <2>1. "text" # "results" /\ "text" # "batch"
      OBVIOUS
    <2>2. e.path \in {"thinking", "content"} /\ e.text \in Seq(STRING)
      BY <1>1, <1>2, <2>1, Zenon DEF StreamChunk
    <2>3. e.text \in Seq(Symbols)
      BY <2>2, SymbolsAre, Zenon
    <2> QED BY <1>2, <2>1, <2>2, <2>3, Zenon
  <1>3. CASE e.kind # "text"
    <2>1. "results" # "batch"
      OBVIOUS
    <2> QED BY <1>1, <1>3, <2>1, Zenon DEF StreamChunk
  <1> QED BY <1>2, <1>3

LEMMA ToldIs ==
  ASSUME NEW lines \in Seq(Answers), NEW path
  PROVE  Told(lines, path) \in Seq(Symbols)
  <1> DEFINE Part(e) == IF e.kind = "text" /\ e.path = path THEN e.text ELSE <<>>
             parts == [n \in 1..Len(lines) |-> Part(lines[n])]
  <1>1. \A e \in Answers : Part(e) \in Seq(Symbols)
    BY ChunkIs, EmptySeq
  <1> HIDE DEF Part
  <1>2. \A n \in 1..Len(lines) : Part(lines[n]) \in Seq(Symbols)
    BY <1>1, ElementOfSeq
  <1>3. parts \in Seq(Seq(Symbols))
    BY <1>2, IsASeq, LenProperties
  <1>4. FlattenSeq(parts) \in Seq(Symbols)
    BY <1>3, FlattenIsSeq
  <1> QED BY <1>4 DEF Told, Part

LEMMA ToldNext ==
  ASSUME NEW lines \in Seq(Answers), NEW e \in Answers, NEW path
  PROVE  Told(Append(lines, e), path)
           = IF e.kind = "text" /\ e.path = path THEN Told(lines, path) \o e.text ELSE Told(lines, path)
  <1> DEFINE Part(f) == IF f.kind = "text" /\ f.path = path THEN f.text ELSE <<>>
             parts(t) == [n \in 1..Len(t) |-> Part(t[n])]
  <1>1. Len(lines) \in Nat /\ Append(lines, e) \in Seq(Answers) /\ Len(Append(lines, e)) = Len(lines) + 1
    BY AppendProperties, LenProperties
  <1>2. \A f \in Answers : Part(f) \in Seq(Symbols)
    BY ChunkIs, EmptySeq
  <1> HIDE DEF Part
  <1>3. parts(lines) \in Seq(Seq(Symbols)) /\ Len(parts(lines)) = Len(lines)
    <2>1. \A n \in 1..Len(lines) : parts(lines)[n] \in Seq(Symbols)
      BY <1>2, ElementOfSeq
    <2> QED BY <1>1, <2>1, IsASeq
  <1>4. parts(Append(lines, e)) = Append(parts(lines), Part(e))
    <2>1. parts(Append(lines, e)) = [n \in 1..(Len(lines) + 1) |-> Part(Append(lines, e)[n])]
      BY <1>1
    <2>2. Append(parts(lines), Part(e))
            = [n \in 1..(Len(lines) + 1) |-> IF n = Len(lines) + 1 THEN Part(e) ELSE parts(lines)[n]]
      BY <1>1, <1>3
    <2>3. ASSUME NEW n \in 1..(Len(lines) + 1)
          PROVE  Part(Append(lines, e)[n]) = IF n = Len(lines) + 1 THEN Part(e) ELSE parts(lines)[n]
      BY <1>1, AppendProperties
    <2> QED BY <2>1, <2>2, <2>3
  <1>5. FlattenSeq(parts(Append(lines, e))) = FlattenSeq(parts(lines)) \o Part(e)
    BY <1>2, <1>3, <1>4, FlattenNext
  <1>6. Told(lines, path) = FlattenSeq(parts(lines))
        /\ Told(Append(lines, e), path) = FlattenSeq(parts(Append(lines, e)))
    BY DEF Told, Part
  <1>7. FlattenSeq(parts(lines)) \o <<>> = FlattenSeq(parts(lines))
    BY <1>3, FlattenIsSeq, ConcatEmptySeq
  <1> QED BY <1>5, <1>6, <1>7 DEF Part

LEMMA CleanedNext ==
  ASSUME NEW lines \in Seq(Answers), NEW e \in Answers, NEW path
  PROVE  Cleaned(Told(Append(lines, e), path))
           = IF e.kind = "text" /\ e.path = path
             THEN Cleaned(Told(lines, path)) \o Cleaned(e.text) ELSE Cleaned(Told(lines, path))
  <1>1. Told(lines, path) \in Seq(Symbols)
    BY ToldIs
  <1>2. CASE e.kind = "text" /\ e.path = path
    <2>1. e.text \in Seq(Symbols)
      BY <1>2, ChunkIs
    <2>2. Told(Append(lines, e), path) = Told(lines, path) \o e.text
      BY <1>2, ToldNext
    <2> QED BY <1>1, <1>2, <2>1, <2>2, WithoutConcat DEF Cleaned
  <1>3. CASE ~ (e.kind = "text" /\ e.path = path)
    BY <1>3, ToldNext
  <1> QED BY <1>2, <1>3

-----------------------------------------------------------------------------
(* AnswerAsAsked in parts.  What the client of the request is to get:      *)
Full ==
  LET said == IF request.stream THEN TextsOn("content") ELSE Trim(TextsOn("content"))
      list == Citations(results)
  IN  IF list = <<>> THEN said
      ELSE IF said = <<>> /\ ~request.stream THEN list ELSE said \o <<"gap">> \o list

(* The links of the list are those of the numbered results; each is one    *)
(* the provider gave, and stands in it once.                               *)
ListedOnce ==
  /\ ToSet(Citations(results)) \cap Urls
       = {results[k].url : k \in {j \in 1..Len(results) : results[j].number # 0}}
  /\ \A url \in ToSet(Citations(results)) \cap Urls :
       url \in Linked /\ Cardinality(Occurrences(<<url>>, Citations(results))) = 1

(* Calls are of tools that were offered, and all there is in the answer;   *)
(* the plain envelope of a tool is a call.                                 *)
CallsOffered ==
  /\ at = "answered" /\ body.calls # <<>> =>
       /\ ~request.stream /\ wantsTools(request)
       /\ ToSet(body.calls) \subseteq ToSet(request.tools) \ {"nameless"}
       /\ ToSet(Full) \ {Open, Close, "junk", Fence, Blank} = ToSet(body.calls)
       /\ body.content = <<>> /\ body.finish = "tool_calls"
  /\ at = "answered" /\ ~request.stream /\ wantsTools(request) =>
       \A tool \in ToSet(request.tools) \ {"nameless"} :
         Full = <<Open, tool, Close>> => body.calls = <<tool>>

(* Without calls the client gets what was said, up to a stop sequence.     *)
CutAtStop ==
  LET stops == ToSet(request.stop) \ {<<>>}
      rest == SubSeq(Full, Len(body.content) + 1, Len(Full))
  IN  at = "answered" /\ body.calls = <<>> =>
        /\ IsPrefix(body.content, Full)
        /\ request.stream => rest = <<>>
        /\ ~request.stream =>
             \A s \in stops : \A i \in Occurrences(s, Full) : i > Len(body.content)
        /\ rest # <<>> => \E s \in stops : IsPrefix(s, rest)

(* The request ends in an error exactly if nothing was said.               *)
Reasoned == IF request.stream THEN TextsOn("thinking") ELSE Trim(TextsOn("thinking"))

NothingSaid ==
  /\ at = "refused" /\ prompt # <<>> => Full = <<>> /\ Reasoned = <<>>
  /\ at = "answered" => Full # <<>> \/ Reasoned # <<>>

LEMMA AnswerParts ==
  ListedOnce /\ CallsOffered /\ CutAtStop /\ NothingSaid => AnswerAsAsked
  BY Zenon DEF AnswerAsAsked, ListedOnce, CallsOffered, CutAtStop, NothingSaid, Full, Reasoned

(* The inductive invariant: what was collected or passed on is what the    *)
(* script says, and the results are the links it gave, each once.          *)
ConversationInv ==
  /\ at \in {"asked", "sent", "answered", "refused"} /\ request \in Requests
  /\ at = "asked" => prompt = <<>>
  /\ script \in Seq(Answers)
  /\ content = Cleaned(Told(script, "content"))
  /\ thinking = Cleaned(Told(script, "thinking"))
  /\ hasOutput = (content # <<>> \/ thinking # <<>>)
  /\ ResultMap(results, Linked)
  /\ ListedOnce /\ CallsOffered /\ CutAtStop /\ NothingSaid

(* Results that are as they should be make a list that is.                 *)
LEMMA ListIs ==
  ASSUME NEW given, NEW known, ResultMap(known, given)
  PROVE  /\ ToSet(Citations(known)) \cap Urls
              = {known[k].url : k \in {j \in 1..Len(known) : known[j].number # 0}}
         /\ \A url \in ToSet(Citations(known)) \cap Urls :
              url \in given /\ Cardinality(Occurrences(<<url>>, Citations(known))) = 1
  <1> DEFINE list == Citations(known)
             cited == {known[k].url : k \in {j \in 1..Len(known) : known[j].number # 0}}
  <1>1. list \in Seq(Symbols) /\ Once(list) /\ LinksOf(list) = cited
    BY CitationsAre
  <1>0. cited \subseteq given
    BY DEF ResultMap
  <1> HIDE DEF list, cited
  <1>2. SUFFICES ASSUME NEW url \in ToSet(list) \cap Urls
                 PROVE  url \in given /\ Cardinality(Occurrences(<<url>>, list)) = 1
    BY <1>1 DEF list, cited, LinksOf
  <1>3. PICK n \in Nat : n = Len(list)
    BY <1>1, LenProperties
  <1>4. PICK p \in 1..n : list[p] = url
    BY <1>1, <1>3 DEF ToSet
  <1>5. ASSUME NEW i \in 1..n
        PROVE  SubSeq(list, i, i) = <<url>> <=> list[i] = url
    <2>1. SubSeq(list, i, i) = <<list[i]>>
      <3>1. list[i] \in Symbols
        BY <1>1, <1>3, ElementOfSeq
      <3>2. SubSeq(list, i, i) \in Seq(Symbols) /\ Len(SubSeq(list, i, i)) = 1 /\ SubSeq(list, i, i)[1] = list[i]
        <4>1. i \in 1..(n + 1) /\ i \in 0..n /\ i <= i + 1 /\ i - i + 1 = 1 /\ i + 1 - 1 = i
          BY <1>3
        <4>2. /\ SubSeq(list, i, i) \in Seq(Symbols) /\ Len(SubSeq(list, i, i)) = i - i + 1
              /\ \A k \in 1..(i - i + 1) : SubSeq(list, i, i)[k] = list[i + k - 1]
          BY <1>1, <1>3, <4>1, SubSeqIs
        <4> QED BY <4>1, <4>2
      <3>3. <<list[i]>> \in Seq(Symbols) /\ Len(<<list[i]>>) = 1 /\ <<list[i]>>[1] = list[i]
        BY <3>1
      <3>4. \A k \in 1..1 : SubSeq(list, i, i)[k] = <<list[i]>>[k]
        BY <3>2, <3>3
      <3> QED BY <3>2, <3>3, <3>4, SeqEqual
    <2> QED BY <2>1
  <1>6. Len(<<url>>) = 1
    OBVIOUS
  <1>7. Occurrences(<<url>>, list) = {i \in 1..n : list[i] = url}
    <2>1. \A i \in 1..n : i + 1 - 1 = i /\ i <= n
      BY <1>3
    <2> QED BY <1>3, <1>5, <1>6, <2>1 DEF Occurrences
  <1>8. \A i \in 1..n : list[i] = url => i = p
    BY <1>1, <1>3, <1>4 DEF Once
  <1>9. Occurrences(<<url>>, list) = {p}
    BY <1>4, <1>7, <1>8
  <1>10. Cardinality({p}) = 1
    BY FS_Singleton
  <1>11. url \in given
    BY <1>0, <1>1, <1>2 DEF LinksOf
  <1> QED BY <1>9, <1>10, <1>11

LEMMA ConversationInitKeeps == ASSUME ConversationInit PROVE ConversationInv
  <1> USE DEF ConversationInit
  <1>1. at = "asked" /\ request \in Requests /\ prompt = <<>> /\ script = <<>> /\ results = <<>>
        /\ content = <<>> /\ thinking = <<>>
    OBVIOUS
  <1>2. Cleaned(Told(<<>>, "content")) = <<>> /\ Cleaned(Told(<<>>, "thinking")) = <<>>
    <2>1. Told(<<>>, "content") = <<>> /\ Told(<<>>, "thinking") = <<>>
      BY FlattenEmpty DEF Told
    <2> QED BY <2>1, WithoutEmpty DEF Cleaned
  <1>3. script \in Seq(Answers)
    BY <1>1
  <1>4. ResultMap(results, Linked)
    BY <1>1 DEF ResultMap
  <1>5. ListedOnce
    BY <1>4, ListIs DEF ListedOnce
  <1>6. CallsOffered /\ CutAtStop /\ NothingSaid
    BY <1>1 DEF CallsOffered, CutAtStop, NothingSaid
  <1>7. hasOutput = (content # <<>> \/ thinking # <<>>)
    <2>1. hasOutput = FALSE
      OBVIOUS
    <2> QED BY <1>1, <2>1
  <1> QED BY <1>1, <1>2, <1>3, <1>4, <1>5, <1>6, <1>7 DEF ConversationInv

(* Before the answer ends only its links are to be checked.                *)
LEMMA NotAnswered ==
  ASSUME at' \notin {"answered", "refused"} \/ (at' = "refused" /\ prompt' = <<>>)
  PROVE  CallsOffered' /\ CutAtStop' /\ NothingSaid'
  BY DEF CallsOffered, CutAtStop, NothingSaid

LEMMA RejectKeeps == ASSUME ConversationInv, Reject PROVE ConversationInv'
  <1> USE DEF Reject, answer
  <1>1. at' = "refused" /\ prompt' = <<>>
    BY DEF ConversationInv
  <1>2. CallsOffered' /\ CutAtStop' /\ NothingSaid'
    BY <1>1, NotAnswered
  <1>3. UNCHANGED <<request, script, results, content, thinking, hasOutput>>
    OBVIOUS
  <1>4. Linked' = Linked
    BY <1>3 DEF Linked
  <1>5. ListedOnce'
    BY <1>3, <1>4 DEF ConversationInv, ListedOnce
  <1>6. ResultMap(results', Linked')
    BY <1>3, <1>4 DEF ConversationInv
  <1> QED BY <1>1, <1>2, <1>3, <1>5, <1>6 DEF ConversationInv

LEMMA SendKeeps == ASSUME ConversationInv, Send PROVE ConversationInv'
  <1>1. at' = "sent" /\ UNCHANGED <<request, script, results, content, thinking, hasOutput>>
    BY DEF Send, answer
  <1>2. CallsOffered' /\ CutAtStop' /\ NothingSaid'
    BY <1>1, NotAnswered
  <1>4. Linked' = Linked
    BY <1>1 DEF Linked
  <1>5. ListedOnce'
    BY <1>1, <1>4 DEF ConversationInv, ListedOnce
  <1>6. ResultMap(results', Linked')
    BY <1>1, <1>4 DEF ConversationInv
  <1> QED BY <1>1, <1>2, <1>5, <1>6 DEF ConversationInv

LEMMA HearKeeps == ASSUME ConversationInv, NEW event \in Answers, Hear(event) PROVE ConversationInv'
  <1>1. at' = at /\ at = "sent" /\ script' = Append(script, event) /\ UNCHANGED <<request, prompt>>
    BY DEF Hear
  <1>2. CallsOffered' /\ CutAtStop' /\ NothingSaid'
    BY <1>1, NotAnswered
  <1>3. script \in Seq(Answers) /\ script' \in Seq(Answers)
    BY <1>1, AppendProperties DEF ConversationInv
  <1> DEFINE n == Len(script)
  <1>4. /\ n \in Nat /\ Len(script') = n + 1 /\ script'[n + 1] = event
        /\ \A k \in 1..n : script'[k] = script[k]
    BY <1>1, <1>3, AppendProperties, LenProperties
  <1>5. Linked \subseteq Linked'
    <2>1. SUFFICES ASSUME NEW url \in Linked PROVE url \in Linked'
      OBVIOUS
    <2>2. PICK k \in 1..n : script[k].kind = "results" /\
            \E i \in 1..Len(script[k].items) : script[k].items[i].url = url /\ script[k].items[i].valid
      BY DEF Linked
    <2>3. k \in 1..Len(script') /\ script'[k] = script[k] /\ url \in Urls
      BY <1>4, <2>1, <2>2 DEF Linked
    <2> QED BY <2>2, <2>3 DEF Linked
  <1>6. ResultMap(results, Linked')
    BY <1>5 DEF ConversationInv, ResultMap
  <1>7. /\ Cleaned(Told(script', "content")) =
             IF event.kind = "text" /\ event.path = "content" THEN content \o Cleaned(event.text) ELSE content
        /\ Cleaned(Told(script', "thinking")) =
             IF event.kind = "text" /\ event.path = "thinking" THEN thinking \o Cleaned(event.text) ELSE thinking
    BY <1>1, <1>3, CleanedNext DEF ConversationInv
  <1>8. CASE event.kind = "text"
    <2>1. /\ content' = With(content, event, "content") /\ thinking' = With(thinking, event, "thinking")
          /\ hasOutput' = (hasOutput \/ Cleaned(event.text) # <<>>) /\ results' = results
      <3>1. event.kind # "results" /\ event.kind # "batch"
        BY <1>8
      <3> QED BY <3>1, Zenon DEF Hear
    <2>2. content' = Cleaned(Told(script', "content")) /\ thinking' = Cleaned(Told(script', "thinking"))
      BY <1>7, <1>8, <2>1 DEF With
    <2>3. hasOutput' = (content' # <<>> \/ thinking' # <<>>)
      <3>1. content \in Seq(Symbols) /\ thinking \in Seq(Symbols)
        BY <1>3, ToldIs, WithoutIs DEF ConversationInv, Cleaned
      <3>2. event.path \in {"content", "thinking"} /\ event.text \in Seq(Symbols)
        BY <1>8, ChunkIs
      <3>3. Cleaned(event.text) \in Seq(Symbols)
        BY <3>2, WithoutIs DEF Cleaned
      <3>4. content \o Cleaned(event.text) = <<>> <=> content = <<>> /\ Cleaned(event.text) = <<>>
        BY <3>1, <3>3, ConcatEqualIffEmpty
      <3>5. thinking \o Cleaned(event.text) = <<>> <=> thinking = <<>> /\ Cleaned(event.text) = <<>>
        BY <3>1, <3>3, ConcatEqualIffEmpty
      <3>6. hasOutput = (content # <<>> \/ thinking # <<>>)
        BY DEF ConversationInv
      <3>7. CASE event.path = "content"
        <4>1. content' = content \o Cleaned(event.text) /\ thinking' = thinking
          BY <2>1, <3>7 DEF With
        <4> QED BY <2>1, <3>4, <3>6, <4>1, Zenon
      <3>8. CASE event.path = "thinking"
        <4>1. thinking' = thinking \o Cleaned(event.text) /\ content' = content
          BY <2>1, <3>8 DEF With
        <4> QED BY <2>1, <3>5, <3>6, <4>1, Zenon
      <3> QED BY <3>2, <3>7, <3>8
    <2>4. ResultMap(results', Linked')
      BY <1>6, <2>1
    <2>5. ListedOnce'
      BY <2>4, ListIs DEF ListedOnce
    <2> QED BY <1>1, <1>2, <1>3, <2>2, <2>3, <2>4, <2>5 DEF ConversationInv
  <1>9. CASE event.kind # "text"
    <2>1. UNCHANGED <<content, thinking, hasOutput>>
          /\ \/ event.kind = "results" /\ results' = MergedAll(results, event.items)
             \/ event.kind = "batch" /\ results' = Numbered(results, event)
      BY <1>9, Zenon DEF Hear
    <2>2. ResultMap(results', Linked')
      <3>1. CASE event.kind = "results" /\ results' = MergedAll(results, event.items)
        <4>1. event.items \in Seq([url : Urls, valid : BOOLEAN, number : Nat])
              /\ \A i \in 1..Len(event.items) : Index(event.items[i].number)
          BY <3>1, ChunkIs
        <4>2. ASSUME NEW i \in 1..Len(event.items), event.items[i].valid
              PROVE  event.items[i].url \in Linked'
          <5>1. event.items[i].url \in Urls
            <6>1. event.items[i] \in [url : Urls, valid : BOOLEAN, number : Nat]
              BY <4>1, ElementOfSeq
            <6> QED BY <6>1
          <5>2. n + 1 \in 1..Len(script') /\ script'[n + 1] = event
            BY <1>4
          <5> QED BY <3>1, <4>2, <5>1, <5>2 DEF Linked
        <4> QED BY <1>6, <3>1, <4>1, <4>2, MergedAllKeeps
      <3>2. CASE event.kind = "batch" /\ results' = Numbered(results, event)
        BY <1>6, <3>2, ChunkIs, NumberedKeeps
      <3> QED BY <2>1, <3>1, <3>2
    <2>3. ListedOnce'
      BY <2>2, ListIs DEF ListedOnce
    <2>4. content' = Cleaned(Told(script', "content")) /\ thinking' = Cleaned(Told(script', "thinking"))
      BY <1>7, <1>9, <2>1
    <2>5. hasOutput' = (content' # <<>> \/ thinking' # <<>>)
      BY <2>1 DEF ConversationInv
    <2> QED BY <1>1, <1>2, <1>3, <2>2, <2>3, <2>4, <2>5 DEF ConversationInv
  <1> QED BY <1>8, <1>9

(* The end of an answer leaves what it is made of.                         *)
LEMMA EndLeaves ==
  ASSUME ConversationInv, UNCHANGED <<request, prompt, refs, answer>>, at' \in {"answered", "refused"},
         CallsOffered' /\ CutAtStop' /\ NothingSaid'
  PROVE  ConversationInv'
  <1>1. UNCHANGED <<request, prompt, script, results, content, thinking, hasOutput>>
    BY DEF answer
  <1>2. Linked' = Linked
    BY <1>1 DEF Linked
  <1>3. ListedOnce'
    BY <1>1, <1>2 DEF ConversationInv, ListedOnce
  <1>4. ResultMap(results', Linked')
    BY <1>1, <1>2 DEF ConversationInv
  <1>5. at' # "asked"
    OBVIOUS
  <1> QED BY <1>1, <1>3, <1>4, <1>5 DEF ConversationInv

LEMMA FullStays ==
  ASSUME UNCHANGED <<request, answer>>
  PROVE  Full' = Full /\ UNCHANGED <<request, script>> /\ Reasoned' = Reasoned
  BY DEF Full, Reasoned, TextsOn, answer

(* Everything the request may say about the answer.                        *)
LEMMA RequestIs ==
  ASSUME ConversationInv
  PROVE  /\ Stops(request) \in Seq(Seq(Symbols))
         /\ ToSet(Stops(request)) = ToSet(request.stop) \ {<<>>}
         /\ toolNames(request.tools) = ToSet(request.tools) \ {"nameless"}
         /\ ToSet(request.tools) \subseteq Tools \cup {"nameless"}
  <1>1. ChatRequest(request)
    BY ConversationAssumption DEF ConversationInv
  <1>2. request.stop \in Seq(Seq(STRING))
    BY <1>1, Zenon DEF ChatRequest
  <1>3. request.stop \in Seq(Seq(Symbols))
    BY <1>2, SymbolsAre, SeqMonotonic, Zenon
  <1>4. request.tools \in Seq(Tools \cup {"nameless"})
    BY <1>1, Zenon DEF ChatRequest
  <1>5. Stops(request) \in Seq(Seq(Symbols)) /\ ToSet(Stops(request)) = ToSet(request.stop) \ {<<>>}
    BY <1>3, WithoutIs DEF Stops
  <1>6. toolNames(request.tools) = ToSet(request.tools) \ {"nameless"}
    BY <1>4, WithoutIs DEF toolNames, Usable
  <1>7. ToSet(request.tools) \subseteq Tools \cup {"nameless"}
    <2> DEFINE known == Tools \cup {"nameless"}
    <2>1. request.tools \in Seq(known)
      BY <1>4
    <2> HIDE DEF known
    <2>2. ToSet(request.tools) \subseteq known
      BY <2>1, ElementOfSeq DEF ToSet
    <2> QED BY <2>2 DEF known
  <1> QED BY <1>5, <1>6, <1>7

LEMMA TextsOf ==
  ASSUME ConversationInv
  PROVE  /\ content = TextsOn("content") /\ thinking = TextsOn("thinking")
         /\ content \in Seq(Symbols) /\ thinking \in Seq(Symbols)
         /\ Citations(results) \in Seq(Symbols)
         /\ Citations(results) # <<>> => Citations(results)[Len(Citations(results))] \in Urls
  <1>1. content = TextsOn("content") /\ thinking = TextsOn("thinking")
    BY TextsAre DEF ConversationInv
  <1>2. content \in Seq(Symbols) /\ thinking \in Seq(Symbols)
    BY ToldIs, WithoutIs DEF ConversationInv, Cleaned
  <1>3. ResultMap(results, Linked)
    BY DEF ConversationInv
  <1> QED BY <1>1, <1>2, <1>3, CitationsAre

(* A text with a list below it ends with a link.                           *)
LEMMA GapEnds ==
  ASSUME NEW said \in Seq(Symbols), NEW list \in Seq(Symbols), list # <<>>
  PROVE  LET full == said \o <<"gap">> \o list
         IN  full \in Seq(Symbols) /\ full # <<>> /\ full[Len(full)] = list[Len(list)]
  <1>1. <<"gap">> \in Seq(Symbols)
    BY SymbolsAre
  <1> DEFINE head == said \o <<"gap">>
  <1>2. head \in Seq(Symbols)
    BY <1>1, ConcatProperties
  <1> HIDE DEF head
  <1>3. PICK m \in Nat : m = Len(head)
    BY <1>2, LenProperties
  <1>4. PICK n \in Nat : n = Len(list)
    BY LenProperties
  <1>5. n # 0
    BY <1>4, EmptySeq
  <1> DEFINE full == head \o list
  <1>6. full \in Seq(Symbols) /\ Len(full) = m + n
        /\ \A i \in 1..(m + n) : full[i] = IF i <= m THEN head[i] ELSE list[i - m]
    BY <1>2, <1>3, <1>4, ConcatProperties
  <1> HIDE DEF full
  <1>7. m + n \in 1..(m + n) /\ ~ (m + n <= m) /\ (m + n) - m = n /\ m + n # 0
    BY <1>3, <1>4, <1>5
  <1>8. full[m + n] = list[n]
    BY <1>6, <1>7
  <1>9. full # <<>>
    BY <1>6, <1>7, EmptySeq
  <1> QED BY <1>4, <1>6, <1>8, <1>9 DEF full, head

LEMMA CollectKeeps == ASSUME ConversationInv, Collect PROVE ConversationInv'
  <1> DEFINE said == Trim(content)
             list == Citations(results)
  <1>1. ~request.stream /\ UNCHANGED <<request, prompt, refs, answer>>
    BY DEF Collect
  <1>2. Full' = Full /\ Reasoned' = Reasoned /\ request' = request
    BY <1>1, FullStays
  <1>3. said \in Seq(Symbols) /\ list \in Seq(Symbols)
    BY TextsOf, TrimIs
  <1>4. Full = IF list = <<>> THEN said ELSE IF said = <<>> THEN list ELSE said \o <<"gap">> \o list
    BY <1>1, TextsOf DEF Full
  <1>5. Collected = Full
    BY <1>4 DEF Collected
  <1>6. /\ Full \in Seq(Symbols)
        /\ Trim(Full) = Full \/ Trim(Full)[Len(Trim(Full))] \in Urls
    <2>1. CASE list = <<>>
      <3>1. Full = said
        BY <1>4, <2>1
      <3>2. Len(said) # 0 => Trim(said) = said
        <4>1. SUFFICES ASSUME Len(said) # 0 PROVE Trim(said) = said
          OBVIOUS
        <4>2. said # <<>>
          BY <4>1
        <4>3. said[1] # Blank /\ said[Len(said)] # Blank
          BY <4>2, TextsOf, TrimIs
        <4> HIDE DEF said
        <4> QED BY <1>3, <4>1, <4>3, TrimIs
      <3>3. Len(said) = 0 => Trim(said) = said
        <4> HIDE DEF said
        <4> QED BY <1>3, TrimIs, EmptySeq
      <3> QED BY <1>3, <3>1, <3>2, <3>3
    <2>2. CASE list # <<>>
      <3>1. list[Len(list)] \in Urls
        BY <2>2, TextsOf
      <3> HIDE DEF list, said
      <3>2. Full \in Seq(Symbols) /\ Full # <<>> /\ Full[Len(Full)] = list[Len(list)]
        BY <1>3, <1>4, <2>2, GapEnds
      <3>3. Full[Len(Full)] # Blank
        BY <3>1, <3>2, UrlsAre
      <3>4. Len(Full) # 0
        BY <3>2, EmptySeq
      <3>5. Trim(Full)[Len(Trim(Full))] = Full[Len(Full)]
        BY <3>2, <3>3, <3>4, TrimIs
      <3> QED BY <3>1, <3>2, <3>5
    <2> QED BY <2>1, <2>2
  <1>7. CASE Collected = <<>> /\ Trim(thinking) = <<>>
    <2>1. at' = "refused"
      BY <1>7 DEF Collect
    <2>2. CallsOffered' /\ CutAtStop'
      BY <2>1 DEF CallsOffered, CutAtStop
    <2>3. NothingSaid'
      <3>1. Full = <<>> /\ Reasoned = <<>>
        BY <1>1, <1>5, <1>7, TextsOf DEF Reasoned
      <3> QED BY <1>2, <2>1, <3>1 DEF NothingSaid
    <2> QED BY <1>1, <2>1, <2>2, <2>3, EndLeaves
  <1>8. CASE ~ (Collected = <<>> /\ Trim(thinking) = <<>>)
    <2>1. at' = "answered" /\ body' = Finished(Collected)
      BY <1>8 DEF Collect
    <2>2. NothingSaid'
      <3>1. Full # <<>> \/ Reasoned # <<>>
        BY <1>1, <1>5, <1>8, TextsOf DEF Reasoned
      <3> QED BY <1>2, <2>1, <3>1 DEF NothingSaid
    <2> DEFINE calls == IF wantsTools(request) THEN parseToolCalls(Full, toolNames(request.tools)) ELSE <<>>
    <2>3. body' = IF calls # <<>> THEN [content |-> <<>>, calls |-> calls, finish |-> "tool_calls"]
                  ELSE [content |-> applyStopSequences(Full, Stops(request)), calls |-> <<>>, finish |-> "stop"]
      BY <1>5, <2>1 DEF Finished
    <2>0. \A tool \in ToSet(request.tools) \ {"nameless"} :
            wantsTools(request) /\ Full = <<Open, tool, Close>> => calls = <<tool>>
      <3> SUFFICES ASSUME NEW tool \in ToSet(request.tools) \ {"nameless"},
                          wantsTools(request), Full = <<Open, tool, Close>>
                   PROVE  parseToolCalls(Full, toolNames(request.tools)) = <<tool>>
        OBVIOUS
      <3>1. tool \in Tools /\ tool \in toolNames(request.tools)
        BY RequestIs
      <3>2. <<Open, tool, Close>> \in Seq(Symbols)
        BY <1>6
      <3> QED BY <3>1, <3>2, PlainCall
    <2>4. CASE calls # <<>>
      <3>1. wantsTools(request) /\ calls = parseToolCalls(Full, toolNames(request.tools))
        BY <2>4
      <3>2. /\ Trim(Full) # <<>> /\ Trim(Full)[Len(Trim(Full))] \in {Close, Fence}
            /\ ToSet(calls) \subseteq toolNames(request.tools)
            /\ ToSet(Trim(Full)) \ {Open, Close, "junk", Fence, Blank} = ToSet(calls)
        BY <1>6, <2>4, <3>1, CallsAre
      <3>0. \A tool \in ToSet(request.tools) \ {"nameless"} : Full = <<Open, tool, Close>> => calls = <<tool>>
        BY <2>0, <3>1
      <3> HIDE DEF calls
      <3>3. Trim(Full) = Full
        BY <1>6, <3>2, UrlsAre
      <3>4. body'.calls = calls /\ body'.content = <<>> /\ body'.finish = "tool_calls"
        BY <2>3, <2>4
      <3>5. toolNames(request.tools) = ToSet(request.tools) \ {"nameless"}
        BY RequestIs
      <3>6. wantsTools(request')
        BY <1>2, <3>1
      <3>7. CallsOffered'
        BY <1>1, <1>2, <3>0, <3>2, <3>3, <3>4, <3>5, <3>6 DEF CallsOffered
      <3>8. CutAtStop'
        BY <2>4, <3>4 DEF CutAtStop
      <3> QED BY <1>1, <2>1, <2>2, <3>7, <3>8, EndLeaves
    <2>5. CASE calls = <<>>
      <3> DEFINE kept == applyStopSequences(Full, Stops(request))
                 rest == SubSeq(Full, Len(kept) + 1, Len(Full))
      <3>1. body'.calls = <<>> /\ body'.content = kept
        BY <2>3, <2>5
      <3>2. /\ IsPrefix(kept, Full)
            /\ \A k \in 1..Len(Stops(request)) : \A i \in Occurrences(Stops(request)[k], Full) : i > Len(kept)
            /\ rest # <<>> => \E k \in 1..Len(Stops(request)) : IsPrefix(Stops(request)[k], rest)
        BY <1>6, RequestIs, StopsAre
      <3>3. ToSet(request.stop) \ {<<>>} = {Stops(request)[k] : k \in 1..Len(Stops(request))}
        <4>1. PICK stops \in Seq(Seq(Symbols)) : stops = Stops(request)
          BY RequestIs
        <4>2. ToSet(stops) = {stops[k] : k \in 1..Len(stops)}
          BY <4>1, LenProperties DEF ToSet
        <4> QED BY <4>1, <4>2, RequestIs
      <3> HIDE DEF kept, rest
      <3>4. \A s \in ToSet(request.stop) \ {<<>>} : \A i \in Occurrences(s, Full) : i > Len(kept)
        BY <3>2, <3>3
      <3>5. rest # <<>> => \E s \in ToSet(request.stop) \ {<<>>} : IsPrefix(s, rest)
        BY <3>2, <3>3
      <3>6. CallsOffered'
        <4>1. \A tool : <<>> # <<tool>>
          OBVIOUS
        <4>2. wantsTools(request') <=> wantsTools(request)
          BY <1>2
        <4>3. wantsTools(request) => \A tool \in ToSet(request.tools) \ {"nameless"} : Full # <<Open, tool, Close>>
          BY <2>0, <2>5, <4>1
        <4> HIDE DEF calls
        <4> QED BY <1>2, <3>1, <4>2, <4>3 DEF CallsOffered
      <3>7. CutAtStop'
        BY <1>1, <1>2, <3>1, <3>2, <3>4, <3>5 DEF CutAtStop, rest
      <3> QED BY <1>1, <2>1, <2>2, <3>6, <3>7, EndLeaves
    <2> QED BY <2>4, <2>5
  <1> QED BY <1>7, <1>8

LEMMA FinishStreamKeeps == ASSUME ConversationInv, FinishStream PROVE ConversationInv'
  <1> DEFINE list == Citations(results)
  <1>1. request.stream /\ UNCHANGED <<request, prompt, refs, answer>>
    BY DEF FinishStream
  <1>2. Full' = Full /\ Reasoned' = Reasoned /\ request' = request
    BY <1>1, FullStays
  <1>3. content \in Seq(Symbols) /\ list \in Seq(Symbols)
    BY TextsOf
  <1>4. Full = IF list = <<>> THEN content ELSE content \o <<"gap">> \o list
    BY <1>1, TextsOf DEF Full
  <1>5. CASE ~hasOutput /\ list = <<>>
    <2>1. at' = "refused"
      BY <1>5 DEF FinishStream
    <2>2. CallsOffered' /\ CutAtStop'
      BY <2>1 DEF CallsOffered, CutAtStop
    <2>3. content = <<>> /\ thinking = <<>>
      BY <1>5 DEF ConversationInv
    <2>4. NothingSaid'
      <3>1. Full = <<>> /\ Reasoned = <<>>
        BY <1>1, <1>4, <1>5, <2>3, TextsOf DEF Reasoned
      <3> QED BY <1>2, <2>1, <3>1 DEF NothingSaid
    <2> QED BY <1>1, <2>1, <2>2, <2>4, EndLeaves
  <1>6. CASE ~ (~hasOutput /\ list = <<>>)
    <2>1. at' = "answered"
          /\ body' = [content |-> content \o (IF list = <<>> THEN <<>> ELSE <<"gap">> \o list),
                      calls |-> <<>>, finish |-> "stop"]
      BY <1>6 DEF FinishStream
    <2>2. NothingSaid'
      <3>1. CASE list # <<>>
        <4> HIDE DEF list
        <4>1. Full # <<>>
          BY <1>3, <1>4, <3>1, GapEnds
        <4> QED BY <1>2, <2>1, <4>1 DEF NothingSaid
      <3>2. CASE list = <<>>
        <4>1. content # <<>> \/ thinking # <<>>
          BY <1>6, <3>2 DEF ConversationInv
        <4>2. Full # <<>> \/ Reasoned # <<>>
          BY <1>1, <1>4, <3>2, <4>1, TextsOf DEF Reasoned
        <4> QED BY <1>2, <2>1, <4>2 DEF NothingSaid
      <3> QED BY <3>1, <3>2
    <2>3. body'.calls = <<>> /\ body'.content = content \o (IF list = <<>> THEN <<>> ELSE <<"gap">> \o list)
      BY <2>1
    <2> HIDE DEF list
    <2>4. body'.content = Full /\ Full \in Seq(Symbols)
      <3>1. CASE list = <<>>
        <4>1. content \o <<>> = content
          BY <1>3, ConcatEmptySeq
        <4> QED BY <1>3, <1>4, <2>3, <3>1, <4>1
      <3>2. CASE list # <<>>
        <4>1. <<"gap">> \in Seq(Symbols)
          BY SymbolsAre
        <4>2. (content \o <<"gap">>) \o list = content \o (<<"gap">> \o list)
          BY <1>3, <4>1, ConcatAssociative
        <4>3. content \o <<"gap">> \o list \in Seq(Symbols)
          BY <1>3, <3>2, GapEnds
        <4> QED BY <1>4, <2>3, <3>2, <4>2, <4>3
      <3> QED BY <3>1, <3>2
    <2>5. CallsOffered'
      <3>1. body'.calls = <<>> /\ request'.stream
        BY <1>1, <1>2, <2>3
      <3> QED BY <3>1 DEF CallsOffered
    <2>6. IsPrefix(Full, Full)
      BY <2>4, LenProperties DEF IsPrefix
    <2>7. SubSeq(Full, Len(Full) + 1, Len(Full)) = <<>>
      <3>1. PICK n \in Nat : n = Len(Full)
        BY <2>4, LenProperties
      <3>2. SubSeq(Full, n + 1, n) = <<>>
        BY <3>1, SubSeqEmpty
      <3> QED BY <3>1, <3>2
    <2>8. CutAtStop'
      BY <1>1, <1>2, <2>3, <2>4, <2>6, <2>7 DEF CutAtStop
    <2> QED BY <1>1, <2>1, <2>2, <2>5, <2>8, EndLeaves
  <1> QED BY <1>5, <1>6

LEMMA ConversationStep == ConversationInv /\ [ConversationNext]_textVars => ConversationInv'
  <1> SUFFICES ASSUME ConversationInv, [ConversationNext]_textVars PROVE ConversationInv'
    OBVIOUS
  <1>1. CASE UNCHANGED textVars
    <2>1. UNCHANGED <<at, request, prompt, refs, script, results, content, thinking, hasOutput, body>>
      BY <1>1 DEF textVars, answer
    <2>2. Full' = Full /\ Reasoned' = Reasoned /\ Linked' = Linked
      BY <2>1, FullStays DEF answer, Linked
    <2>3. ListedOnce'
      BY <2>1, <2>2 DEF ConversationInv, ListedOnce
    <2>4. CallsOffered' /\ NothingSaid'
      <3>1. CallsOffered /\ NothingSaid /\ (wantsTools(request') <=> wantsTools(request))
        BY <2>1 DEF ConversationInv
      <3> QED BY <2>1, <2>2, <3>1 DEF CallsOffered, NothingSaid
    <2>5. CutAtStop'
      BY <2>1, <2>2 DEF ConversationInv, CutAtStop
    <2>6. ResultMap(results', Linked')
      BY <2>1, <2>2 DEF ConversationInv
    <2> QED BY <2>1, <2>3, <2>4, <2>5, <2>6 DEF ConversationInv
  <1>2. CASE ConversationNext
    BY <1>2, RejectKeeps, SendKeeps, HearKeeps, CollectKeeps, FinishStreamKeeps DEF ConversationNext
  <1> QED BY <1>1, <1>2

(* A conversation's texts are those of its events, and its results those  *)
(* with a link, in every state.                                            *)
THEOREM ConversationInvariant == ConversationSpec => []ConversationInv
  <1>1. ConversationInit => ConversationInv
    BY ConversationInitKeeps
  <1> QED BY <1>1, ConversationStep, PTL DEF ConversationSpec

(* Of every conversation: whether it is streamed or collected, the client  *)
(* gets what the provider said with the citations below it, cut at the     *)
(* first stop sequence, or the calls of tools it offered                   *)
(* (deepseek-stream.ts:439-473, 532-554; openai.ts:285-287, 320-366).      *)
THEOREM ConversationAnswered == ConversationSpec => []AnswerAsAsked
  <1>1. ConversationInv => AnswerAsAsked
    BY AnswerParts DEF ConversationInv
  <1> QED BY <1>1, ConversationInvariant, PTL

-----------------------------------------------------------------------------
(* The prompt of a conversation.                                           *)

(* TurnsOf, symbol by symbol.                                              *)
RoleMarkers == {"<User>", "<Assistant>"}

NextTurns(earlier, n, symbol) ==
  IF n = 1 \/ symbol \in RoleMarkers THEN Append(earlier, <<symbol>>)
  ELSE [earlier EXCEPT ![Len(earlier)] = Append(@, symbol)]

LEMMA TurnsSteps ==
  ASSUME NEW S, NEW text \in Seq(S)
  PROVE  \E turns :
           /\ turns[0] = <<>>
           /\ \A n \in 1..Len(text) : turns[n] = NextTurns(turns[n - 1], n, text[n])
           /\ TurnsOf(text) = turns[Len(text)]
  <1> DEFINE Next_(g, n) == IF n = 0 THEN <<>> ELSE NextTurns(g[n - 1], n, text[n])
             T == {n \in Nat : \E g : g = [i \in 0..n |-> Next_(g, i)]}
  <1>1. 0 \in T
    <2> DEFINE g == [i \in 0..0 |-> <<>>]
    <2>1. g = [i \in 0..0 |-> Next_(g, i)]
      OBVIOUS
    <2> QED BY <2>1
  <1>2. ASSUME NEW n \in Nat, n \in T PROVE n + 1 \in T
    <2>1. PICK g : g = [i \in 0..n |-> Next_(g, i)]
      BY <1>2
    <2> DEFINE h == [i \in 0..(n + 1) |-> IF i <= n THEN g[i] ELSE Next_(g, n + 1)]
    <2>2. ASSUME NEW i \in 0..(n + 1) PROVE h[i] = Next_(h, i)
      <3>1. CASE i = 0
        <4>1. h[0] = g[0] /\ g[0] = Next_(g, 0)
          BY <2>1
        <4> QED BY <3>1, <4>1
      <3>2. CASE i # 0 /\ i <= n
        <4>1. h[i] = g[i] /\ h[i - 1] = g[i - 1] /\ i \in 0..n
          BY <3>2
        <4>2. g[i] = Next_(g, i)
          BY <2>1, <4>1
        <4> QED BY <3>2, <4>1, <4>2
      <3>3. CASE i = n + 1
        <4>1. h[i] = Next_(g, n + 1) /\ h[i - 1] = g[i - 1]
          BY <3>3
        <4> QED BY <3>3, <4>1
      <3> QED BY <3>1, <3>2, <3>3
    <2> HIDE DEF Next_
    <2>3. h = [i \in 0..(n + 1) |-> Next_(h, i)]
      BY <2>2
    <2> HIDE DEF h
    <2> QED BY <2>3
  <1> HIDE DEF Next_
  <1>3. Len(text) \in T
    BY <1>1, <1>2, NatSets, LenProperties
  <1> DEFINE turns == CHOOSE g : g = [i \in 0..Len(text) |-> Next_(g, i)]
  <1>4. turns = [i \in 0..Len(text) |-> Next_(turns, i)]
    BY <1>3
  <1>5. TurnsOf(text) = turns[Len(text)]
    <2>1. TurnsOf(text) = (CHOOSE g : g = [i \in 0..Len(text) |->
             IF i = 0 THEN <<>>
             ELSE IF i = 1 \/ text[i] \in {"<User>", "<Assistant>"} THEN Append(g[i - 1], <<text[i]>>)
                  ELSE [g[i - 1] EXCEPT ![Len(g[i - 1])] = Append(@, text[i])]])[Len(text)]
      BY DEF TurnsOf
    <2> QED BY <2>1 DEF Next_, NextTurns, RoleMarkers
  <1> HIDE DEF turns
  <1>6. turns[0] = <<>>
    BY <1>4, LenProperties DEF Next_
  <1>7. ASSUME NEW n \in 1..Len(text) PROVE turns[n] = NextTurns(turns[n - 1], n, text[n])
    BY <1>4, LenProperties DEF Next_
  <1> QED BY <1>5, <1>6, <1>7

LEMMA TurnsEmpty == TurnsOf(<<>>) = <<>>
  <1>1. <<>> \in Seq({}) /\ Len(<<>>) = 0
    BY EmptySeq
  <1>2. PICK turns : turns[0] = <<>> /\ TurnsOf(<<>>) = turns[Len(<<>>)]
    BY <1>1, TurnsSteps
  <1> QED BY <1>1, <1>2

LEMMA TurnsNext ==
  ASSUME NEW S, NEW text \in Seq(S), NEW x \in S
  PROVE  TurnsOf(Append(text, x)) = NextTurns(TurnsOf(text), Len(text) + 1, x)
  <1> DEFINE more == Append(text, x)
  <1>1. /\ more \in Seq(S) /\ Len(more) = Len(text) + 1 /\ Len(text) \in Nat
        /\ more[Len(text) + 1] = x
        /\ \A i \in 1..Len(text) : more[i] = text[i]
    BY AppendProperties, LenProperties
  <1> HIDE DEF more
  <1>2. PICK turns : /\ turns[0] = <<>>
                     /\ \A n \in 1..Len(text) : turns[n] = NextTurns(turns[n - 1], n, text[n])
                     /\ TurnsOf(text) = turns[Len(text)]
    BY TurnsSteps
  <1>3. PICK longer : /\ longer[0] = <<>>
                      /\ \A n \in 1..Len(more) : longer[n] = NextTurns(longer[n - 1], n, more[n])
                      /\ TurnsOf(more) = longer[Len(more)]
    BY <1>1, TurnsSteps
  <1> DEFINE N == {n \in Nat : n <= Len(text) => longer[n] = turns[n]}
  <1>4. 0 \in N
    BY <1>2, <1>3
  <1>5. ASSUME NEW n \in Nat, n \in N PROVE n + 1 \in N
    <2>1. SUFFICES ASSUME n + 1 <= Len(text) PROVE longer[n + 1] = turns[n + 1]
      OBVIOUS
    <2>2. n + 1 \in 1..Len(text) /\ n + 1 \in 1..Len(more) /\ (n + 1) - 1 = n
      <3>1. Len(text) \in Nat /\ Len(more) = Len(text) + 1
        BY <1>1
      <3> QED BY <2>1, <3>1
    <2>3. longer[n] = turns[n]
      BY <1>1, <1>5, <2>1
    <2>4. longer[n + 1] = NextTurns(longer[n], n + 1, more[n + 1])
      BY <1>3, <2>2
    <2>5. turns[n + 1] = NextTurns(turns[n], n + 1, text[n + 1])
      BY <1>2, <2>2
    <2> QED BY <1>1, <2>2, <2>3, <2>4, <2>5
  <1>6. longer[Len(text)] = turns[Len(text)]
    <2>1. Len(text) \in N
      BY <1>1, <1>4, <1>5, NatSets
    <2>2. Len(text) \in Nat
      BY <1>1
    <2> QED BY <2>1, <2>2
  <1>7. longer[Len(more)] = NextTurns(longer[Len(text)], Len(text) + 1, x)
    <2>1. Len(more) \in 1..Len(more) /\ Len(more) - 1 = Len(text)
      BY <1>1
    <2> QED BY <1>1, <1>3, <2>1
  <1> QED BY <1>2, <1>3, <1>6, <1>7 DEF more

LEMMA TurnsAre ==
  ASSUME NEW S, NEW text \in Seq(S)
  PROVE  TurnsOf(text) \in Seq(Seq(S)) /\ (text # <<>> => TurnsOf(text) # <<>>)
  <1> DEFINE T == {s \in Seq(S) : TurnsOf(s) \in Seq(Seq(S)) /\ (s # <<>> => TurnsOf(s) # <<>>)}
  <1>1. <<>> \in T
    BY EmptySeq, TurnsEmpty
  <1>2. ASSUME NEW s \in Seq(S), NEW x \in S, s \in T PROVE Append(s, x) \in T
    <2> DEFINE known == TurnsOf(s)
               n == Len(known)
    <2>1. known \in Seq(Seq(S)) /\ n \in Nat /\ <<x>> \in Seq(S) /\ Append(s, x) \in Seq(S)
      BY <1>2, LenProperties, AppendProperties
    <2>2. TurnsOf(Append(s, x)) = NextTurns(known, Len(s) + 1, x)
      BY TurnsNext
    <2>3. CASE Len(s) + 1 = 1 \/ x \in RoleMarkers
      <3>1. TurnsOf(Append(s, x)) = Append(known, <<x>>)
        BY <2>2, <2>3 DEF NextTurns
      <3> HIDE DEF known
      <3>2. Append(known, <<x>>) \in Seq(Seq(S)) /\ Append(known, <<x>>) # <<>>
        BY <2>1, AppendProperties
      <3> QED BY <2>1, <3>1, <3>2
    <2>4. CASE ~(Len(s) + 1 = 1 \/ x \in RoleMarkers)
      <3>1. TurnsOf(Append(s, x)) = [known EXCEPT ![n] = Append(@, x)]
        BY <2>2, <2>4 DEF NextTurns
      <3>2. s # <<>>
        BY <2>4
      <3>3. known # <<>>
        BY <1>2, <3>2
      <3> HIDE DEF known
      <3>4. n \in 1..n /\ known[n] \in Seq(S)
        BY <2>1, <3>3, EmptySeq, ElementOfSeq
      <3>5. Append(known[n], x) \in Seq(S)
        BY <3>4, AppendProperties
      <3>6. [known EXCEPT ![n] = Append(@, x)] = [known EXCEPT ![n] = Append(known[n], x)]
        OBVIOUS
      <3>7. /\ [known EXCEPT ![n] = Append(known[n], x)] \in Seq(Seq(S))
            /\ Len([known EXCEPT ![n] = Append(known[n], x)]) = n
        BY <2>1, <3>4, <3>5, ExceptSeq
      <3> DEFINE longer == [known EXCEPT ![n] = Append(known[n], x)]
      <3>8. Len(longer) = n /\ n > 0
        BY <2>1, <3>4, <3>7
      <3>9. longer \in Seq(Seq(S)) /\ TurnsOf(Append(s, x)) = longer
        BY <3>1, <3>6, <3>7
      <3> HIDE DEF longer
      <3>10. longer # <<>>
        BY <3>8, EmptySeq
      <3> QED BY <2>1, <3>9, <3>10
    <2> QED BY <2>3, <2>4
  <1>3. Seq(S) \subseteq T
    BY <1>1, <1>2, SeqSets
  <1> QED BY <1>3

(* A turn has a role marker at its beginning only, where every turn but    *)
(* the first of a prompt has one.                                          *)
OneTurn(turn) == turn # <<>> /\ \A i \in 2..Len(turn) : turn[i] \notin RoleMarkers

LEMMA TurnRead ==
  ASSUME NEW S, NEW text \in Seq(S), NEW turn \in Seq(S), OneTurn(turn),
         text = <<>> \/ turn[1] \in RoleMarkers
  PROVE  TurnsOf(text \o turn) = Append(TurnsOf(text), turn)
  <1> DEFINE T == {s \in Seq(S) : OneTurn(s) /\ (text = <<>> \/ s[1] \in RoleMarkers)
                                    => TurnsOf(text \o s) = Append(TurnsOf(text), s)}
  <1>1. <<>> \in T
    BY EmptySeq DEF OneTurn
  <1>2. ASSUME NEW s \in Seq(S), NEW x \in S, s \in T PROVE Append(s, x) \in T
    <2> DEFINE more == Append(s, x)
               known == TurnsOf(text)
    <2>1. /\ more \in Seq(S) /\ Len(more) = Len(s) + 1 /\ Len(s) \in Nat
          /\ more[Len(s) + 1] = x /\ \A i \in 1..Len(s) : more[i] = s[i]
      BY AppendProperties, LenProperties
    <2>2. SUFFICES ASSUME OneTurn(more), text = <<>> \/ more[1] \in RoleMarkers
                   PROVE  TurnsOf(text \o more) = Append(known, more)
      BY <2>1
    <2>3. text \o more = Append(text \o s, x) /\ text \o s \in Seq(S) /\ Len(text \o s) = Len(text) + Len(s)
      <3>1. more = s \o <<x>> /\ Append(text \o s, x) = (text \o s) \o <<x>> /\ <<x>> \in Seq(S)
        BY ConcatProperties, AppendIsConcat
      <3> QED BY <3>1, ConcatAssociative, ConcatProperties
    <2>4. TurnsOf(text \o more) = NextTurns(TurnsOf(text \o s), Len(text) + Len(s) + 1, x)
      BY <2>3, TurnsNext
    <2>5. CASE s = <<>>
      <3>1. text \o s = text /\ Len(s) = 0 /\ more = <<x>>
        BY <2>5, ConcatEmptySeq
      <3>2. Len(text) + Len(s) + 1 = 1 \/ x \in RoleMarkers
        BY <2>1, <2>2, <3>1
      <3> QED BY <2>4, <3>1, <3>2 DEF NextTurns
    <2>6. CASE s # <<>>
      <3>1. Len(s) > 0 /\ Len(text) \in Nat
        BY <2>6, <2>1, EmptySeq, LenProperties
      <3>2. OneTurn(s) /\ (text = <<>> \/ s[1] \in RoleMarkers)
        BY <2>1, <2>2, <2>6, <3>1 DEF OneTurn
      <3>3. TurnsOf(text \o s) = Append(known, s)
        BY <1>2, <3>2
      <3>4. Len(text) + Len(s) + 1 # 1 /\ x \notin RoleMarkers
        BY <2>1, <2>2, <3>1 DEF OneTurn
      <3> HIDE DEF known, more
      <3>5. TurnsOf(text \o more) = [Append(known, s) EXCEPT ![Len(Append(known, s))] = Append(@, x)]
        BY <2>4, <3>3, <3>4 DEF NextTurns
      <3>6. known \in Seq(Seq(S)) /\ Len(known) \in Nat
        BY TurnsAre, LenProperties DEF known
      <3>7. /\ Len(Append(known, s)) = Len(known) + 1 /\ Append(known, s)[Len(known) + 1] = s
            /\ Append(known, s) \in Seq(Seq(S))
        BY <3>6, AppendProperties
      <3>8. [Append(known, s) EXCEPT ![Len(known) + 1] = Append(@, x)] = Append(known, Append(s, x))
        <4> DEFINE old == Append(known, s)
                   new == [old EXCEPT ![Len(known) + 1] = Append(s, x)]
                   right == Append(known, Append(s, x))
        <4>1. Append(s, x) \in Seq(S)
          BY AppendProperties
        <4>2. new \in Seq(Seq(S)) /\ Len(new) = Len(known) + 1
              /\ \A j \in 1..(Len(known) + 1) : new[j] = IF j = Len(known) + 1 THEN Append(s, x) ELSE old[j]
          <5>1. old \in Seq(Seq(S)) /\ Len(old) = Len(known) + 1
            BY <3>7
          <5> HIDE DEF old
          <5>2. Len(known) + 1 \in 1..Len(old)
            BY <3>6, <5>1
          <5> QED BY <4>1, <5>1, <5>2, ExceptSeq
        <4>3. right \in Seq(Seq(S)) /\ Len(right) = Len(known) + 1
              /\ right[Len(known) + 1] = Append(s, x) /\ \A j \in 1..Len(known) : right[j] = known[j]
          BY <3>6, <4>1, AppendProperties
        <4>4. \A j \in 1..Len(known) : old[j] = known[j]
          BY <3>6, AppendProperties
        <4>5. [old EXCEPT ![Len(known) + 1] = Append(@, x)] = new
          BY <3>7
        <4> HIDE DEF old, new, right
        <4>6. new = right
          <5>1. \A j \in 1..(Len(known) + 1) : j # Len(known) + 1 => j \in 1..Len(known)
            BY <3>6
          <5>2. \A j \in 1..(Len(known) + 1) : new[j] = right[j]
            BY <4>2, <4>3, <4>4, <5>1
          <5> QED BY <4>2, <4>3, <5>2, SeqEqual
        <4> QED BY <4>5, <4>6 DEF old, right
      <3> QED BY <3>5, <3>7, <3>8 DEF more
    <2> QED BY <2>5, <2>6
  <1>3. Seq(S) \subseteq T
    BY <1>1, <1>2, SeqSets
  <1> QED BY <1>3

(* What each member of a longer sequence becomes.                          *)
LEMMA MapNext ==
  ASSUME NEW S, NEW R, NEW f \in [S -> R], NEW s \in Seq(S), NEW x \in S
  PROVE  /\ [i \in 1..Len(s) |-> f[s[i]]] \in Seq(R)
         /\ Append(s, x) \in Seq(S)
         /\ [i \in 1..Len(Append(s, x)) |-> f[Append(s, x)[i]]]
              = Append([i \in 1..Len(s) |-> f[s[i]]], f[x])
  <1> DEFINE more == Append(s, x)
             old == [i \in 1..Len(s) |-> f[s[i]]]
             new == [i \in 1..Len(more) |-> f[more[i]]]
  <1>1. /\ more \in Seq(S) /\ Len(more) = Len(s) + 1 /\ Len(s) \in Nat
        /\ more[Len(s) + 1] = x /\ \A i \in 1..Len(s) : more[i] = s[i] /\ s[i] \in S
    BY AppendProperties, LenProperties, ElementOfSeq
  <1> HIDE DEF more
  <1>2. old \in Seq(R) /\ Len(old) = Len(s)
    <2>1. \A i \in 1..Len(s) : f[s[i]] \in R
      BY <1>1
    <2> QED BY <1>1, <2>1, IsASeq
  <1>3. new \in Seq(R) /\ Len(new) = Len(s) + 1
    <2>1. \A i \in 1..Len(more) : more[i] \in S
      BY <1>1, ElementOfSeq
    <2>2. \A i \in 1..Len(more) : f[more[i]] \in R
      BY <2>1
    <2> QED BY <1>1, <2>2, IsASeq
  <1>4. \A i \in 1..(Len(s) + 1) : new[i] = IF i = Len(s) + 1 THEN f[x] ELSE old[i]
    BY <1>1
  <1> DEFINE right == Append(old, f[x])
  <1>5. right \in Seq(R) /\ Len(right) = Len(s) + 1
        /\ \A i \in 1..(Len(s) + 1) : right[i] = IF i = Len(s) + 1 THEN f[x] ELSE old[i]
    <2>1. f[x] \in R
      OBVIOUS
    <2> HIDE DEF old
    <2> QED BY <1>1, <1>2, <2>1, AppendProperties
  <1> HIDE DEF old, new, right
  <1>6. new = right
    BY <1>3, <1>4, <1>5, SeqEqual
  <1> QED BY <1>1, <1>2, <1>6 DEF old, new, right, more

LEMMA ConcatSet ==
  ASSUME NEW S, NEW s \in Seq(S), NEW t \in Seq(S)
  PROVE  ToSet(s \o t) = ToSet(s) \cup ToSet(t)
  <1>1. /\ Len(s \o t) = Len(s) + Len(t) /\ Len(s) \in Nat /\ Len(t) \in Nat
        /\ \A i \in 1..(Len(s) + Len(t)) : (s \o t)[i] = IF i <= Len(s) THEN s[i] ELSE t[i - Len(s)]
    BY ConcatProperties, LenProperties
  <1>2. ASSUME NEW y \in ToSet(s \o t) PROVE y \in ToSet(s) \cup ToSet(t)
    <2>1. PICK i \in 1..(Len(s) + Len(t)) : y = (s \o t)[i]
      BY <1>1 DEF ToSet
    <2>2. CASE i <= Len(s)
      BY <1>1, <2>1, <2>2 DEF ToSet
    <2>3. CASE i > Len(s)
      <3>1. i - Len(s) \in 1..Len(t) /\ y = t[i - Len(s)]
        BY <1>1, <2>1, <2>3
      <3> QED BY <3>1 DEF ToSet
    <2> QED BY <1>1, <2>1, <2>2, <2>3
  <1>3. ASSUME NEW y \in ToSet(s) PROVE y \in ToSet(s \o t)
    <2>1. PICK i \in 1..Len(s) : y = s[i]
      BY DEF ToSet
    <2>2. i \in 1..(Len(s) + Len(t)) /\ y = (s \o t)[i]
      BY <1>1, <2>1
    <2> QED BY <1>1, <2>2 DEF ToSet
  <1>4. ASSUME NEW y \in ToSet(t) PROVE y \in ToSet(s \o t)
    <2>1. PICK i \in 1..Len(t) : y = t[i]
      BY DEF ToSet
    <2>2. i + Len(s) \in 1..(Len(s) + Len(t)) /\ y = (s \o t)[i + Len(s)]
      BY <1>1, <2>1
    <2> QED BY <1>1, <2>2 DEF ToSet
  <1> QED BY <1>2, <1>3, <1>4

LEMMA EmptySet == ToSet(<<>>) = {}
  BY DEF ToSet

(* Turns that follow each other can be told apart again.                   *)
LEMMA TurnsReadBack ==
  ASSUME NEW S, NEW parts \in Seq(Seq(S)),
         \A i \in 1..Len(parts) : OneTurn(parts[i]),
         \A i \in 2..Len(parts) : parts[i][1] \in RoleMarkers
  PROVE  TurnsOf(FlattenSeq(parts)) = parts
  <1> DEFINE Good(p) == /\ \A i \in 1..Len(p) : OneTurn(p[i])
                        /\ \A i \in 2..Len(p) : p[i][1] \in RoleMarkers
             T == {p \in Seq(Seq(S)) : Good(p) => TurnsOf(FlattenSeq(p)) = p}
  <1>1. <<>> \in T
    BY EmptySeq, FlattenEmpty, TurnsEmpty
  <1>2. ASSUME NEW p \in Seq(Seq(S)), NEW x \in Seq(S), p \in T PROVE Append(p, x) \in T
    <2> DEFINE more == Append(p, x)
    <2>1. /\ more \in Seq(Seq(S)) /\ Len(more) = Len(p) + 1 /\ Len(p) \in Nat
          /\ more[Len(p) + 1] = x /\ \A i \in 1..Len(p) : more[i] = p[i]
      BY AppendProperties, LenProperties
    <2>2. FlattenSeq(more) = FlattenSeq(p) \o x /\ FlattenSeq(p) \in Seq(S)
      BY FlattenNext, FlattenIsSeq
    <2>3. SUFFICES ASSUME Good(more) PROVE TurnsOf(FlattenSeq(more)) = more
      BY <2>1
    <2> HIDE DEF more
    <2>4. Good(p)
      <3>1. 1..Len(p) \subseteq 1..Len(more) /\ 2..Len(p) \subseteq 2..Len(more) /\ 2..Len(p) \subseteq 1..Len(p)
        BY <2>1
      <3> QED BY <2>1, <2>3, <3>1
    <2>5. OneTurn(x)
      <3>1. Len(p) + 1 \in 1..Len(more)
        BY <2>1
      <3> QED BY <2>1, <2>3, <3>1
    <2>6. FlattenSeq(p) = <<>> \/ x[1] \in RoleMarkers
      <3>1. CASE p = <<>>
        BY <3>1, FlattenEmpty
      <3>2. CASE p # <<>>
        <4>1. Len(p) + 1 \in 2..Len(more)
          BY <2>1, <3>2, EmptySeq
        <4> QED BY <2>1, <2>3, <4>1
      <3> QED BY <3>1, <3>2
    <2>7. TurnsOf(FlattenSeq(p)) = p
      BY <1>2, <2>4
    <2>8. TurnsOf(FlattenSeq(p) \o x) = Append(TurnsOf(FlattenSeq(p)), x)
      BY <2>2, <2>5, <2>6, TurnRead
    <2> QED BY <2>2, <2>7, <2>8 DEF more
  <1>3. Seq(Seq(S)) \subseteq T
    BY <1>1, <1>2, SeqSets
  <1>4. parts \in T
    BY <1>3
  <1> QED BY <1>4

(* FlattenSeq and Without, part by part.                                   *)
LEMMA FlattenWithout ==
  ASSUME NEW S, NEW parts \in Seq(Seq(S)), NEW out
  PROVE  Without(FlattenSeq(parts), out)
           = FlattenSeq([i \in 1..Len(parts) |-> Without(parts[i], out)])
  <1> DEFINE f == [s \in Seq(S) |-> Without(s, out)]
             Of(p) == [i \in 1..Len(p) |-> f[p[i]]]
             T == {p \in Seq(Seq(S)) : Without(FlattenSeq(p), out) = FlattenSeq(Of(p))}
  <1>1. f \in [Seq(S) -> Seq(S)]
    BY WithoutIs
  <1>2. <<>> \in T
    <2>1. Of(<<>>) = <<>>
      OBVIOUS
    <2> QED BY <2>1, EmptySeq, FlattenEmpty, WithoutEmpty
  <1>3. ASSUME NEW p \in Seq(Seq(S)), NEW x \in Seq(S), p \in T PROVE Append(p, x) \in T
    <2>1. FlattenSeq(Append(p, x)) = FlattenSeq(p) \o x /\ FlattenSeq(p) \in Seq(S)
      BY FlattenNext, FlattenIsSeq
    <2>2. Without(FlattenSeq(p) \o x, out) = Without(FlattenSeq(p), out) \o Without(x, out)
      BY <2>1, WithoutConcat
    <2> HIDE DEF f
    <2>3. Of(p) \in Seq(Seq(S)) /\ Append(p, x) \in Seq(Seq(S)) /\ Of(Append(p, x)) = Append(Of(p), f[x])
      BY <1>1, MapNext
    <2>4. f[x] = Without(x, out) /\ f[x] \in Seq(S)
      BY <1>1 DEF f
    <2> HIDE DEF Of
    <2>5. FlattenSeq(Append(Of(p), f[x])) = FlattenSeq(Of(p)) \o f[x]
      BY <2>3, <2>4, FlattenNext
    <2>6. Without(FlattenSeq(p), out) = FlattenSeq(Of(p))
      BY <1>3
    <2> QED BY <2>1, <2>2, <2>3, <2>4, <2>5, <2>6
  <1>4. parts \in T
    BY <1>2, <1>3, SeqSets
  <1>5. Of(parts) = [i \in 1..Len(parts) |-> Without(parts[i], out)]
    BY ElementOfSeq
  <1> QED BY <1>4, <1>5

LEMMA FlattenToSet ==
  ASSUME NEW S, NEW parts \in Seq(Seq(S))
  PROVE  ToSet(FlattenSeq(parts)) = UNION {ToSet(parts[i]) : i \in 1..Len(parts)}
  <1> DEFINE T == {p \in Seq(Seq(S)) : ToSet(FlattenSeq(p)) = UNION {ToSet(p[i]) : i \in 1..Len(p)}}
  <1>1. <<>> \in T
    BY EmptySeq, FlattenEmpty, EmptySet
  <1>2. ASSUME NEW p \in Seq(Seq(S)), NEW x \in Seq(S), p \in T PROVE Append(p, x) \in T
    <2> DEFINE more == Append(p, x)
    <2>1. /\ more \in Seq(Seq(S)) /\ Len(more) = Len(p) + 1 /\ Len(p) \in Nat
          /\ more[Len(p) + 1] = x /\ \A i \in 1..Len(p) : more[i] = p[i]
      BY AppendProperties, LenProperties
    <2>2. FlattenSeq(more) = FlattenSeq(p) \o x /\ FlattenSeq(p) \in Seq(S)
      BY FlattenNext, FlattenIsSeq
    <2>3. ToSet(FlattenSeq(more)) = ToSet(FlattenSeq(p)) \cup ToSet(x)
      BY <2>2, ConcatSet
    <2>4. ToSet(FlattenSeq(p)) = UNION {ToSet(p[i]) : i \in 1..Len(p)}
      BY <1>2
    <2> HIDE DEF more
    <2>5. {ToSet(more[i]) : i \in 1..Len(more)} = {ToSet(p[i]) : i \in 1..Len(p)} \cup {ToSet(x)}
      <3>1. 1..Len(more) = (1..Len(p)) \cup {Len(p) + 1}
        BY <2>1
      <3> QED BY <2>1, <3>1
    <2>6. more \in T
      BY <2>1, <2>3, <2>4, <2>5
    <2> QED BY <2>6 DEF more
  <1>3. parts \in T
    BY <1>1, <1>2, SeqSets
  <1> QED BY <1>3

(* A part more in front, or one that got longer, makes the whole longer by *)
(* just that.                                                              *)
LEMMA FlattenFirst ==
  ASSUME NEW S, NEW parts \in Seq(Seq(S)), NEW x \in Seq(S)
  PROVE  FlattenSeq(<<x>> \o parts) = x \o FlattenSeq(parts)
  <1> DEFINE T == {p \in Seq(Seq(S)) : FlattenSeq(<<x>> \o p) = x \o FlattenSeq(p)}
  <1>0. <<x>> \in Seq(Seq(S)) /\ <<>> \in Seq(Seq(S)) /\ FlattenSeq(<<x>>) = x
    <2>1. <<x>> = Append(<<>>, x) /\ <<>> \in Seq(Seq(S))
      BY EmptySeq
    <2>2. FlattenSeq(<<x>>) = <<>> \o x
      BY <2>1, FlattenNext, FlattenEmpty
    <2> QED BY <2>1, <2>2, ConcatEmptySeq
  <1>1. <<>> \in T
    <2>1. <<x>> \o <<>> = <<x>> /\ x \o <<>> = x
      BY <1>0, ConcatEmptySeq
    <2> QED BY <1>0, <2>1, FlattenEmpty
  <1>2. ASSUME NEW p \in Seq(Seq(S)), NEW y \in Seq(S), p \in T PROVE Append(p, y) \in T
    <2> DEFINE front == <<x>> \o p
    <2>1. front \in Seq(Seq(S)) /\ Append(p, y) \in Seq(Seq(S)) /\ FlattenSeq(p) \in Seq(S)
      BY <1>0, ConcatProperties, AppendProperties, FlattenIsSeq
    <2>2. <<x>> \o Append(p, y) = Append(front, y)
      <3>1. Append(p, y) = p \o <<y>> /\ Append(front, y) = front \o <<y>> /\ <<y>> \in Seq(Seq(S))
        BY <2>1, AppendIsConcat
      <3> QED BY <1>0, <3>1, ConcatAssociative
    <2>3. FlattenSeq(front) = x \o FlattenSeq(p)
      BY <1>2
    <2> HIDE DEF front
    <2>4. FlattenSeq(Append(front, y)) = FlattenSeq(front) \o y /\ FlattenSeq(Append(p, y)) = FlattenSeq(p) \o y
      BY <2>1, FlattenNext
    <2>5. (x \o FlattenSeq(p)) \o y = x \o (FlattenSeq(p) \o y)
      BY <2>1, ConcatAssociative
    <2> QED BY <2>1, <2>2, <2>3, <2>4, <2>5
  <1>3. parts \in T
    BY <1>1, <1>2, SeqSets
  <1> QED BY <1>3

Grows(old, new, k, x) ==
  /\ Len(new) = Len(old) /\ new[k] = old[k] \o x
  /\ \A i \in 1..Len(old) : i # k => new[i] = old[i]

Inserted(S, old, new, x) == \E a, b \in Seq(S) : old = a \o b /\ new = (a \o x) \o b

LEMMA FlattenGrown ==
  ASSUME NEW S, NEW parts \in Seq(Seq(S)), NEW k \in 1..Len(parts), NEW x \in Seq(S)
  PROVE  \A grown \in Seq(Seq(S)) :
           Grows(parts, grown, k, x) => Inserted(S, FlattenSeq(parts), FlattenSeq(grown), x)
  <1> DEFINE Longer(p, j) == [p EXCEPT ![j] = p[j] \o x]
             Cut(p, j) == \E a, b \in Seq(S) : /\ FlattenSeq(p) = a \o b
                                               /\ FlattenSeq(Longer(p, j)) = (a \o x) \o b
             T == {p \in Seq(Seq(S)) : \A j \in 1..Len(p) : Cut(p, j)}
  <1>1. <<>> \in T
    BY EmptySeq
  <1>2. ASSUME NEW p \in Seq(Seq(S)), NEW y \in Seq(S), p \in T PROVE Append(p, y) \in T
    <2> DEFINE more == Append(p, y)
               n == Len(p)
    <2>1. /\ more \in Seq(Seq(S)) /\ Len(more) = n + 1 /\ n \in Nat
          /\ more[n + 1] = y /\ \A i \in 1..n : more[i] = p[i]
      BY AppendProperties, LenProperties
    <2>2. FlattenSeq(more) = FlattenSeq(p) \o y /\ FlattenSeq(p) \in Seq(S)
      BY FlattenNext, FlattenIsSeq
    <2>3. SUFFICES ASSUME NEW j \in 1..(n + 1) PROVE Cut(more, j)
      BY <2>1
    <2>4. more[j] \in Seq(S) /\ more[j] \o x \in Seq(S)
      BY <2>1, ElementOfSeq, ConcatProperties
    <2>5. /\ Longer(more, j) \in Seq(Seq(S)) /\ Len(Longer(more, j)) = n + 1
          /\ \A i \in 1..(n + 1) : Longer(more, j)[i] = IF i = j THEN more[j] \o x ELSE more[i]
      <3> HIDE DEF more
      <3> QED BY <2>1, <2>4, ExceptSeq
    <2>6. CASE j = n + 1
      <3> DEFINE right == Append(p, y \o x)
      <3>1. /\ right \in Seq(Seq(S)) /\ Len(right) = n + 1 /\ y \o x \in Seq(S)
            /\ right[n + 1] = y \o x /\ \A i \in 1..n : right[i] = p[i]
        BY ConcatProperties, AppendProperties
      <3> HIDE DEF right, more
      <3>2. \A i \in 1..(n + 1) : Longer(more, j)[i] = right[i]
        <4>0. n \in Nat
          BY <2>1
        <4>1. \A i \in 1..(n + 1) : i = n + 1 \/ (i \in 1..n /\ i # j)
          <5> HIDE DEF n
          <5> QED BY <4>0, <2>6
        <4> HIDE DEF Longer
        <4> QED BY <2>1, <2>5, <2>6, <3>1, <4>1
      <3> HIDE DEF Longer
      <3>3. Longer(more, j) = right
        BY <2>5, <3>1, <3>2, SeqEqual
      <3>4. FlattenSeq(right) = FlattenSeq(p) \o (y \o x)
        BY <3>1, FlattenNext DEF right
      <3> DEFINE a == FlattenSeq(p) \o y
      <3>5. a \in Seq(S) /\ <<>> \in Seq(S) /\ a \o <<>> = a /\ (a \o x) \o <<>> = a \o x
        BY <2>2, ConcatProperties, ConcatEmptySeq, EmptySeq
      <3>6. FlattenSeq(p) \o (y \o x) = a \o x
        <4> DEFINE flat == FlattenSeq(p)
        <4>1. flat \in Seq(S)
          BY <2>2
        <4> HIDE DEF flat
        <4>2. (flat \o y) \o x = flat \o (y \o x)
          BY <4>1, ConcatAssociative, SMTT(60)
        <4> QED BY <4>2 DEF flat
      <3>7. FlattenSeq(more) = a \o <<>> /\ FlattenSeq(Longer(more, j)) = (a \o x) \o <<>>
        BY <2>2, <3>3, <3>4, <3>5, <3>6
      <3> HIDE DEF a
      <3> QED BY <3>5, <3>7
    <2>7. CASE j \in 1..n
      <3>1. PICK a, b \in Seq(S) : FlattenSeq(p) = a \o b /\ FlattenSeq(Longer(p, j)) = (a \o x) \o b
        BY <1>2, <2>7
      <3> DEFINE left == Longer(p, j)
                 right == Append(left, y)
      <3>2. /\ left \in Seq(Seq(S)) /\ Len(left) = n
            /\ \A i \in 1..n : left[i] = IF i = j THEN p[j] \o x ELSE p[i]
        <4>1. p[j] \o x \in Seq(S)
          BY <2>7, ElementOfSeq, ConcatProperties
        <4> QED BY <2>7, <4>1, ExceptSeq
      <3> HIDE DEF left
      <3>3. /\ right \in Seq(Seq(S)) /\ Len(right) = n + 1
            /\ right[n + 1] = y /\ \A i \in 1..n : right[i] = left[i]
        BY <3>2, AppendProperties
      <3> HIDE DEF right, more
      <3>4. \A i \in 1..(n + 1) : Longer(more, j)[i] = right[i]
        <4>1. \A i \in 1..(n + 1) : i = n + 1 \/ i \in 1..n
          BY <2>1
        <4> QED BY <2>1, <2>5, <2>7, <3>2, <3>3, <4>1
      <3> HIDE DEF Longer
      <3>5. Longer(more, j) = right
        BY <2>5, <3>3, <3>4, SeqEqual
      <3>6. FlattenSeq(right) = FlattenSeq(left) \o y
        BY <3>2, FlattenNext DEF right
      <3>7. FlattenSeq(left) = (a \o x) \o b
        BY <3>1 DEF left
      <3>8. ((a \o x) \o b) \o y = (a \o x) \o (b \o y) /\ (a \o b) \o y = a \o (b \o y) /\ b \o y \in Seq(S)
        <4> DEFINE c == a \o x
        <4>1. c \in Seq(S) /\ b \o y \in Seq(S)
          BY <3>1, ConcatProperties
        <4> HIDE DEF c
        <4>2. (a \o b) \o y = a \o (b \o y)
          BY <3>1, ConcatAssociative, SMTT(60)
        <4>3. (c \o b) \o y = c \o (b \o y)
          BY <3>1, <4>1, ConcatAssociative, SMTT(60)
        <4> QED BY <4>1, <4>2, <4>3 DEF c
      <3> QED BY <2>2, <3>1, <3>5, <3>6, <3>7, <3>8
    <2>8. j = n + 1 \/ j \in 1..n
      BY <2>1
    <2> QED BY <2>6, <2>7, <2>8
  <1>3. parts \in T
    BY <1>1, <1>2, SeqSets
  <1> DEFINE new == Longer(parts, k)
  <1>4. \E a, b \in Seq(S) : FlattenSeq(parts) = a \o b /\ FlattenSeq(new) = (a \o x) \o b
    BY <1>3
  <1>5. /\ new \in Seq(Seq(S)) /\ Len(new) = Len(parts)
        /\ \A i \in 1..Len(parts) : new[i] = IF i = k THEN parts[k] \o x ELSE parts[i]
    <2>1. parts[k] \o x \in Seq(S)
      BY ElementOfSeq, ConcatProperties
    <2> QED BY <2>1, ExceptSeq
  <1> HIDE DEF new, T, Longer, Cut
  <1>6. ASSUME NEW grown \in Seq(Seq(S)), Len(grown) = Len(parts), grown[k] = parts[k] \o x,
               \A i \in 1..Len(parts) : i # k => grown[i] = parts[i]
        PROVE  \E a, b \in Seq(S) : FlattenSeq(parts) = a \o b /\ FlattenSeq(grown) = (a \o x) \o b
    <2>1. \A i \in 1..Len(parts) : new[i] = grown[i]
      BY <1>5, <1>6
    <2>2. new = grown
      BY <1>5, <1>6, <2>1, SeqEqual
    <2> QED BY <1>4, <2>2
  <1> QED BY <1>6 DEF Grows, Inserted

(* What is left of a sequence when everything, when nothing of interest,   *)
(* is taken out.                                                           *)
LEMMA WithoutAll ==
  ASSUME NEW S, NEW s \in Seq(S), NEW out, ToSet(s) \subseteq out
  PROVE  Without(s, out) = <<>>
  <1> DEFINE w == Without(s, out)
  <1>1. w \in Seq(S) /\ ToSet(w) = {}
    BY WithoutIs
  <1> HIDE DEF w
  <1>2. ASSUME w # <<>> PROVE FALSE
    <2>1. 1 \in 1..Len(w)
      BY <1>1, <1>2, EmptySeq, LenProperties
    <2> QED BY <1>1, <2>1 DEF ToSet
  <1> QED BY <1>2 DEF w

LEMMA WithoutNone ==
  ASSUME NEW S, NEW s \in Seq(S), NEW out, S \cap out = {}
  PROVE  Without(s, out) = s
  <1> DEFINE T == {t \in Seq(S) : Without(t, out) = t}
  <1>1. <<>> \in T
    BY EmptySeq, WithoutEmpty
  <1>2. ASSUME NEW t \in Seq(S), NEW x \in S, t \in T PROVE Append(t, x) \in T
    <2>1. Without(Append(t, x), out) = t \o <<x>>
      <3>1. x \notin out /\ Without(t, out) = t
        BY <1>2
      <3> QED BY <3>1, WithoutNext
    <2>2. Append(t, x) = t \o <<x>> /\ Append(t, x) \in Seq(S)
      BY AppendIsConcat, AppendProperties
    <2> QED BY <2>1, <2>2
  <1>3. s \in T
    BY <1>1, <1>2, SeqSets
  <1> QED BY <1>3

LEMMA WithoutSame ==
  ASSUME NEW S, NEW s \in Seq(S), NEW A, NEW B, \A x \in ToSet(s) : x \in A <=> x \in B
  PROVE  Without(s, A) = Without(s, B)
  <1>1. \A i \in 1..Len(s) : s[i] \in A <=> s[i] \in B
    BY DEF ToSet
  <1>2. [i \in 1..Len(s) |-> IF s[i] \in A THEN <<>> ELSE <<s[i]>>]
          = [i \in 1..Len(s) |-> IF s[i] \in B THEN <<>> ELSE <<s[i]>>]
    BY <1>1
  <1> QED BY <1>2 DEF Without

LEMMA MaskedIs ==
  ASSUME NEW S, NEW s \in Seq(S), "marker" \in S
  PROVE  /\ Masked(s) \in Seq(S) /\ Len(Masked(s)) = Len(s)
         /\ \A i \in 1..Len(s) : Masked(s)[i] = IF s[i] \in Markers THEN "marker" ELSE s[i]
  <1>1. Len(s) \in Nat /\ \A i \in 1..Len(s) : s[i] \in S
    BY LenProperties, ElementOfSeq
  <1>2. \A i \in 1..Len(s) : (IF s[i] \in Markers THEN "marker" ELSE s[i]) \in S
    BY <1>1
  <1> QED BY <1>1, <1>2, IsASeq DEF Masked

LEMMA WithoutMasked ==
  ASSUME NEW S, NEW s \in Seq(S), "marker" \in S, NEW out, Markers \cup {"marker"} \subseteq out
  PROVE  Without(Masked(s), out) = Without(s, out)
  <1> DEFINE n == Len(s)
             w == Masked(s)
  <1>1. w \in Seq(S) /\ Len(w) = n
        /\ \A i \in 1..n : w[i] = IF s[i] \in Markers THEN "marker" ELSE s[i]
    BY MaskedIs
  <1> HIDE DEF w, n
  <1>2. ASSUME NEW i \in 1..n
        PROVE  (IF w[i] \in out THEN <<>> ELSE <<w[i]>>) = IF s[i] \in out THEN <<>> ELSE <<s[i]>>
    <2>1. CASE s[i] \in Markers
      <3>1. w[i] \in out /\ s[i] \in out
        BY <1>1, <2>1
      <3> QED BY <3>1
    <2>2. CASE s[i] \notin Markers
      <3>1. w[i] = s[i]
        BY <1>1, <2>2
      <3> QED BY <3>1
    <2> QED BY <2>1, <2>2
  <1>3. [i \in 1..n |-> IF w[i] \in out THEN <<>> ELSE <<w[i]>>]
          = [i \in 1..n |-> IF s[i] \in out THEN <<>> ELSE <<s[i]>>]
    BY <1>2
  <1> QED BY <1>1, <1>3 DEF Without, w, n

LEMMA TrimLeaves ==
  ASSUME NEW S, NEW text \in Seq(S)
  PROVE  /\ Trim(text) \in Seq(S) /\ ToSet(Trim(text)) \subseteq ToSet(text)
         /\ \A out : Blank \in out => Without(Trim(text), out) = Without(text, out)
  <1> DEFINE n == Len(text)
             ink == {i \in 1..n : text[i] # Blank}
  <1>1. n \in Nat /\ \A i \in 1..n : text[i] \in S
    BY LenProperties, ElementOfSeq
  <1>2. CASE ink = {}
    <2>1. Trim(text) = <<>>
      BY <1>2 DEF Trim
    <2>2. ASSUME NEW out, Blank \in out PROVE Without(Trim(text), out) = Without(text, out)
      <3>1. ToSet(text) \subseteq {Blank}
        BY <1>2 DEF ToSet
      <3>2. Without(text, out) = <<>>
        BY <2>2, <3>1, WithoutAll
      <3> QED BY <2>1, <3>2, WithoutEmpty
    <2> QED BY <2>1, <2>2, EmptySeq, EmptySet
  <1>3. CASE ink # {}
    <2> DEFINE lo == Min(ink)
               hi == Max(ink)
               front == SubSeq(text, 1, lo - 1)
               middle == SubSeq(text, lo, hi)
               back == SubSeq(text, hi + 1, n)
    <2>1. Trim(text) = middle
      BY <1>3 DEF Trim
    <2>2. ink \in SUBSET Nat /\ ink \in SUBSET (0..n)
      BY <1>1
    <2>3. lo \in ink /\ \A i \in ink : lo <= i
      BY <1>3, <2>2, MinIs
    <2>4. hi \in ink /\ \A i \in ink : i <= hi
      BY <1>1, <1>3, <2>2, MaxIs
    <2>5. lo \in 1..n /\ hi \in 1..n /\ lo <= hi /\ lo \in Int /\ hi \in Int
      BY <1>1, <2>3, <2>4
    <2>6. \A i \in 1..n : i < lo \/ i > hi => text[i] = Blank
      <3>1. \A i \in 1..n : i \in ink => lo <= i /\ i <= hi
        BY <2>3, <2>4
      <3> QED BY <1>1, <2>5, <3>1
    <2> HIDE DEF ink, lo, hi, n
    <2>7. /\ middle \in Seq(S) /\ Len(middle) = hi - lo + 1
          /\ \A i \in 1..(hi - lo + 1) : middle[i] = text[lo + i - 1]
      BY <1>1, <2>5, SubSeqIs DEF n
    <2>8. /\ front \in Seq(S) /\ Len(front) = lo - 1
          /\ \A i \in 1..(lo - 1) : front[i] = text[i]
      <3>1. lo - 1 \in 0..n /\ 1 <= lo - 1 + 1 /\ 1 \in 1..(n + 1)
        BY <1>1, <2>5
      <3>2. /\ SubSeq(text, 1, lo - 1) \in Seq(S) /\ Len(SubSeq(text, 1, lo - 1)) = lo - 1 - 1 + 1
            /\ \A i \in 1..(lo - 1 - 1 + 1) : SubSeq(text, 1, lo - 1)[i] = text[1 + i - 1]
        BY <1>1, <3>1, SubSeqIs DEF n
      <3> QED BY <2>5, <3>2
    <2>9. /\ back \in Seq(S) /\ Len(back) = n - hi
          /\ \A i \in 1..(n - hi) : back[i] = text[hi + i]
      <3>1. hi + 1 \in 1..(n + 1) /\ n \in 0..n /\ hi + 1 <= n + 1
        BY <1>1, <2>5
      <3>2. /\ SubSeq(text, hi + 1, n) \in Seq(S) /\ Len(SubSeq(text, hi + 1, n)) = n - (hi + 1) + 1
            /\ \A i \in 1..(n - (hi + 1) + 1) : SubSeq(text, hi + 1, n)[i] = text[hi + 1 + i - 1]
        BY <1>1, <3>1, SubSeqIs DEF n
      <3> QED BY <1>1, <2>5, <3>2
    <2> HIDE DEF front, middle, back
    <2> DEFINE whole == (front \o middle) \o back
    <2>10. /\ front \o middle \in Seq(S) /\ Len(front \o middle) = hi
           /\ \A i \in 1..hi : (front \o middle)[i] = IF i <= lo - 1 THEN front[i] ELSE middle[i - (lo - 1)]
      <3>1. /\ front \o middle \in Seq(S) /\ Len(front \o middle) = Len(front) + Len(middle)
            /\ \A i \in 1..(Len(front) + Len(middle)) :
                 (front \o middle)[i] = IF i <= Len(front) THEN front[i] ELSE middle[i - Len(front)]
        BY <2>7, <2>8, ConcatProperties
      <3>2. Len(front) = lo - 1 /\ Len(front) + Len(middle) = hi
        BY <2>5, <2>7, <2>8
      <3> QED BY <3>1, <3>2
    <2>11. /\ whole \in Seq(S) /\ Len(whole) = n
           /\ \A i \in 1..n : whole[i] = IF i <= hi THEN (front \o middle)[i] ELSE back[i - hi]
      <3> DEFINE fm == front \o middle
      <3>1. fm \in Seq(S) /\ Len(fm) = hi
        BY <2>10
      <3> HIDE DEF fm
      <3>2. /\ fm \o back \in Seq(S) /\ Len(fm \o back) = n
            /\ \A i \in 1..n : (fm \o back)[i] = IF i <= hi THEN fm[i] ELSE back[i - hi]
        <4>1. /\ fm \o back \in Seq(S) /\ Len(fm \o back) = Len(fm) + Len(back)
              /\ \A i \in 1..(Len(fm) + Len(back)) :
                   (fm \o back)[i] = IF i <= Len(fm) THEN fm[i] ELSE back[i - Len(fm)]
          BY <2>9, <3>1, ConcatProperties
        <4>2. Len(fm) = hi /\ Len(fm) + Len(back) = n
          BY <1>1, <2>5, <2>9, <3>1
        <4> QED BY <4>1, <4>2
      <3> QED BY <3>2 DEF fm
    <2>12. ASSUME NEW i \in 1..n PROVE whole[i] = text[i]
      <3>1. CASE i <= lo - 1
        <4>1. i <= hi /\ i \in 1..(lo - 1) /\ i \in 1..hi
          BY <2>5, <3>1
        <4> QED BY <2>8, <2>10, <2>11, <3>1, <4>1
      <3>2. CASE lo <= i /\ i <= hi
        <4>1. i - (lo - 1) \in 1..(hi - lo + 1) /\ lo + (i - (lo - 1)) - 1 = i /\ i \in 1..hi /\ ~(i <= lo - 1)
          BY <2>5, <3>2
        <4>2. middle[i - (lo - 1)] = text[i]
          BY <2>7, <4>1
        <4> QED BY <2>10, <2>11, <3>2, <4>1, <4>2
      <3>3. CASE i > hi
        <4>1. i - hi \in 1..(n - hi) /\ hi + (i - hi) = i /\ ~(i <= hi)
          BY <1>1, <2>5, <3>3
        <4>2. back[i - hi] = text[i]
          BY <2>9, <4>1
        <4> QED BY <2>11, <4>1, <4>2
      <3>4. i <= lo - 1 \/ (lo <= i /\ i <= hi) \/ i > hi
        BY <2>5
      <3> QED BY <3>1, <3>2, <3>3, <3>4
    <2> HIDE DEF whole
    <2>13. whole = text
      BY <2>11, <2>12, SeqEqual DEF n
    <2>14. ToSet(front) \subseteq {Blank} /\ ToSet(back) \subseteq {Blank}
      <3>1. \A i \in 1..(lo - 1) : i \in 1..n /\ i < lo
        BY <1>1, <2>5
      <3>2. \A i \in 1..(n - hi) : hi + i \in 1..n /\ hi + i > hi
        BY <1>1, <2>5
      <3>3. \A i \in 1..Len(front) : front[i] = Blank
        BY <2>6, <2>8, <3>1
      <3>4. \A i \in 1..Len(back) : back[i] = Blank
        BY <2>6, <2>9, <3>2
      <3> QED BY <3>3, <3>4 DEF ToSet
    <2>15. ASSUME NEW out, Blank \in out PROVE Without(middle, out) = Without(text, out)
      <3>1. Without(front, out) = <<>> /\ Without(back, out) = <<>>
        BY <2>8, <2>9, <2>14, <2>15, WithoutAll
      <3>2. Without(whole, out) = Without(front \o middle, out) \o Without(back, out)
        <4> DEFINE fm == front \o middle
        <4>1. fm \in Seq(S)
          BY <2>10
        <4> HIDE DEF fm
        <4>2. Without(fm \o back, out) = Without(fm, out) \o Without(back, out)
          BY <2>9, <4>1, WithoutConcat
        <4> QED BY <4>2 DEF whole, fm
      <3>3. Without(front \o middle, out) = Without(front, out) \o Without(middle, out)
        BY <2>7, <2>8, WithoutConcat
      <3> DEFINE w == Without(middle, out)
      <3>4. w \in Seq(S)
        BY <2>7, WithoutIs
      <3> HIDE DEF w
      <3>5. <<>> \o w = w /\ w \o <<>> = w
        BY <3>4, ConcatEmptySeq
      <3> QED BY <2>13, <3>1, <3>2, <3>3, <3>5 DEF w
    <2>16. ToSet(middle) \subseteq ToSet(text)
      <3>1. \A i \in 1..(hi - lo + 1) : lo + i - 1 \in 1..n
        BY <1>1, <2>5
      <3>2. \A i \in 1..Len(middle) : middle[i] \in ToSet(text)
        BY <2>7, <3>1 DEF ToSet, n
      <3> QED BY <3>2 DEF ToSet
    <2> QED BY <2>1, <2>7, <2>15, <2>16
  <1> QED BY <1>2, <1>3

(* The symbols a prompt is made of.                                        *)
Instructions == Tools \cup {"json", "tools", "must", "may"}
Around == Markers \cup Template \cup {Blank}
Alphabet == STRING \cup Instructions \cup Around

(* The names are apart from whatever else the gateway writes.              *)
LEMMA ImagesAre ==
  /\ Len(ImageNames) = 5 /\ \A k \in 1..5 : ImageNames[k] \in Names
  /\ Names = {"logo.png", "scan", "my+cv", "image-1", "image-2", "image-3", "image-4", "image-5"}
  <1>1. /\ Len(ImageNames) = 5
        /\ ImageNames[1] = "image-1" /\ ImageNames[2] = "image-2" /\ ImageNames[3] = "image-3"
        /\ ImageNames[4] = "image-4" /\ ImageNames[5] = "image-5"
    BY DEF ImageNames
  <1>2. \A k \in 1..5 : k = 1 \/ k = 2 \/ k = 3 \/ k = 4 \/ k = 5
    OBVIOUS
  <1>3. ToSet(ImageNames) = {"image-1", "image-2", "image-3", "image-4", "image-5"}
    <2>1. ToSet(ImageNames) = {ImageNames[k] : k \in 1..5}
      BY <1>1 DEF ToSet
    <2>2. {ImageNames[k] : k \in 1..5}
            = {ImageNames[1], ImageNames[2], ImageNames[3], ImageNames[4], ImageNames[5]}
      BY <1>2
    <2> QED BY <1>1, <2>1, <2>2
  <1>4. \A k \in 1..5 : ImageNames[k] \in ToSet(ImageNames)
    BY <1>1 DEF ToSet
  <1> QED BY <1>1, <1>3, <1>4 DEF Names

LEMMA LettersAre ==
  /\ Names \cap Markers = {} /\ "marker" \notin Names \cup Markers
  /\ "attached" \notin Names \cup Markers /\ "newline" \notin Names \cup Markers
  /\ "instructions" \notin Names \cup Markers
  /\ {"marker", "attached", "newline", "instructions"} \subseteq Template /\ Names \subseteq Template
  /\ Instructions \cap Names = {}
  BY ImagesAre DEF Markers, Template, Instructions, Tools

LEMMA InAlphabet ==
  /\ Around \subseteq Alphabet /\ Instructions \subseteq Alphabet
  /\ Markers \subseteq Alphabet /\ Template \subseteq Alphabet /\ Names \subseteq Alphabet
  /\ Markers \subseteq Around /\ Template \subseteq Around /\ Blank \in Around
  BY LettersAre DEF Alphabet, Around

LEMMA InstructionsStay == "json" \in Alphabet \ Around /\ "tools" \in Alphabet \ Around
  <1>1. "json" \notin Markers \cup Template /\ "tools" \notin Markers \cup Template
    BY ImagesAre DEF Markers, Template
  <1>2. "json" # Blank /\ "tools" # Blank
    BY Zenon DEF Blank
  <1>3. "json" \in Instructions /\ "tools" \in Instructions
    BY DEF Instructions
  <1> QED BY <1>1, <1>2, <1>3, InAlphabet DEF Around

(* A message of a conversation, before or after instructions were added.   *)
IsMessage(m) ==
  /\ m \in [role : Roles, text : Seq(Alphabet), files : Seq(Media)]
  /\ Len(m.files) <= Len(ImageNames)
  /\ ToSet(m.text) \cap Template = {}
  /\ m.files = <<>> => m.text # <<>>

Body(m) == Masked(ContentToPrompt(m))

(* The names in a text, in their order.                                    *)
NamesIn(text) == Without(text, Alphabet \ Names)

LEMMA ListedIs == ASSUME NEW text \in Seq(Alphabet) PROVE Listed(text) = NamesIn(text)
  <1>1. ToSet(text) \subseteq Alphabet
    BY ElementOfSeq DEF ToSet
  <1> QED BY <1>1, WithoutSame DEF Listed, NamesIn

LEMMA NamesOf ==
  ASSUME NEW s \in Seq(Alphabet)
  PROVE  /\ NamesIn(s) \in Seq(Alphabet)
         /\ ToSet(s) \cap Names = {} => NamesIn(s) = <<>>
         /\ s \in Seq(Names) => NamesIn(s) = s
         /\ \A t \in Seq(Alphabet) : NamesIn(s \o t) = NamesIn(s) \o NamesIn(t)
  <1> DEFINE out == Alphabet \ Names
  <1>1. ToSet(s) \subseteq Alphabet
    BY ElementOfSeq DEF ToSet
  <1>2. ToSet(s) \cap Names = {} => ToSet(s) \subseteq out
    BY <1>1
  <1>3. Names \cap out = {}
    OBVIOUS
  <1> HIDE DEF out
  <1>4. Without(s, out) \in Seq(Alphabet)
    BY WithoutIs
  <1>5. ToSet(s) \cap Names = {} => Without(s, out) = <<>>
    BY <1>2, WithoutAll
  <1>6. s \in Seq(Names) => Without(s, out) = s
    BY <1>3, WithoutNone
  <1>7. \A t \in Seq(Alphabet) : Without(s \o t, out) = Without(s, out) \o Without(t, out)
    BY WithoutConcat
  <1> QED BY <1>4, <1>5, <1>6, <1>7 DEF NamesIn, out

LEMMA MaskedNames == ASSUME NEW s \in Seq(Alphabet) PROVE NamesIn(Masked(s)) = NamesIn(s)
  <1> DEFINE out == Alphabet \ Names
  <1>1. "marker" \in Alphabet /\ Markers \cup {"marker"} \subseteq out
    BY LettersAre, InAlphabet
  <1> HIDE DEF out
  <1>2. Without(Masked(s), out) = Without(s, out)
    BY <1>1, WithoutMasked
  <1> QED BY <1>2 DEF NamesIn, out

LEMMA CalledIs ==
  ASSUME NEW m, IsMessage(m)
  PROVE  Called(m) \in Seq(Names) /\ (m.files = <<>> => Called(m) = <<>>)
  <1>1. m.files \in Seq(Media) /\ Len(m.files) \in Nat /\ Len(m.files) <= 5
    BY ImagesAre, LenProperties DEF IsMessage
  <1>2. ASSUME NEW k \in 1..Len(m.files) PROVE mediaPartFilename(m.files[k], k) \in Names
    <2>1. m.files[k] \in Media
      BY <1>1, ElementOfSeq
    <2>2. m.files[k].name \in Names \cup {Unnamed} /\ k \in 1..5
      BY <1>1, <2>1 DEF Media
    <2> QED BY <2>2, ImagesAre DEF mediaPartFilename
  <1>3. [k \in 1..Len(m.files) |-> mediaPartFilename(m.files[k], k)] \in Seq(Names)
    BY <1>1, <1>2, IsASeq
  <1>4. m.files = <<>> => [k \in 1..Len(m.files) |-> mediaPartFilename(m.files[k], k)] = <<>>
    OBVIOUS
  <1> QED BY <1>3, <1>4 DEF Called

LEMMA ContentIs ==
  ASSUME NEW m, IsMessage(m)
  PROVE  /\ ContentToPrompt(m) \in Seq(Alphabet) /\ ContentToPrompt(m) # <<>>
         /\ NamesIn(ContentToPrompt(m)) = Called(m)
         /\ \A out : Around \subseteq out => Without(ContentToPrompt(m), out) = Without(m.text, out)
  <1>1. m.text \in Seq(Alphabet) /\ ToSet(m.text) \cap Template = {}
    BY DEF IsMessage
  <1>4. Called(m) \in Seq(Names) /\ (m.files = <<>> => Called(m) = <<>>)
    BY CalledIs
  <1>5. ToSet(m.text) \cap Names = {}
    BY <1>1, LettersAre
  <1>2. CASE m.files = <<>>
    <2>1. ContentToPrompt(m) = m.text /\ m.text # <<>>
      BY <1>2 DEF ContentToPrompt, IsMessage
    <2>2. NamesIn(m.text) = Called(m)
      BY <1>1, <1>2, <1>4, <1>5, NamesOf
    <2> QED BY <1>1, <2>1, <2>2
  <1>3. CASE m.files # <<>>
    <2> DEFINE text == Trim(m.text)
               label == Label(m)
    <2>1. /\ label = <<"attached">> \o Called(m)
          /\ ContentToPrompt(m) = IF text = <<>> THEN label ELSE text \o <<"newline">> \o label
      BY <1>3 DEF ContentToPrompt, Label
    <2>2. text \in Seq(Alphabet) /\ ToSet(text) \subseteq ToSet(m.text)
          /\ \A out : Blank \in out => Without(text, out) = Without(m.text, out)
      BY <1>1, TrimLeaves
    <2>3. <<"attached">> \in Seq(Alphabet) /\ <<"newline">> \in Seq(Alphabet) /\ Called(m) \in Seq(Alphabet)
      <3>1. "attached" \in Alphabet /\ "newline" \in Alphabet
        BY LettersAre, InAlphabet
      <3>2. Seq(Names) \subseteq Seq(Alphabet)
        BY InAlphabet, SeqMonotonic
      <3> QED BY <1>4, <3>1, <3>2
    <2>4. ToSet(<<"attached">>) = {"attached"} /\ ToSet(<<"newline">>) = {"newline"}
      BY DEF ToSet
    <2>5. ToSet(Called(m)) \subseteq Names
      BY <1>4, ElementOfSeq DEF ToSet
    <2>6. /\ label \in Seq(Alphabet) /\ ToSet(label) = {"attached"} \cup ToSet(Called(m)) /\ Len(label) > 0
          /\ NamesIn(label) = Called(m)
      <3> DEFINE first == <<"attached">>
                 called == Called(m)
      <3>0. first \in Seq(Alphabet) /\ ToSet(first) = {"attached"} /\ Len(first) = 1
        BY <2>3, <2>4
      <3>2. called \in Seq(Alphabet) /\ called \in Seq(Names) /\ Len(called) \in Nat
        BY <1>4, <2>3, LenProperties
      <3>3. label = first \o called
        BY <2>1
      <3> HIDE DEF first, called, label
      <3>4. first \o called \in Seq(Alphabet) /\ Len(first \o called) = Len(first) + Len(called)
        BY <3>0, <3>2, ConcatProperties
      <3>5. ToSet(first \o called) = ToSet(first) \cup ToSet(called)
        BY <3>0, <3>2, ConcatSet
      <3>6. NamesIn(first \o called) = NamesIn(first) \o NamesIn(called)
        BY <3>0, <3>2, NamesOf
      <3>7. NamesIn(first) = <<>> /\ NamesIn(called) = called
        BY <3>0, <3>2, LettersAre, NamesOf
      <3>8. <<>> \o called = called
        BY <3>2, ConcatEmptySeq
      <3>9. Len(first \o called) > 0
        BY <3>0, <3>2, <3>4
      <3> QED BY <3>0, <3>3, <3>4, <3>5, <3>6, <3>7, <3>8, <3>9 DEF called
    <2> HIDE DEF text, label
    <2>7. label # <<>>
      BY <2>6, EmptySeq
    <2>8. ASSUME NEW out, Around \subseteq out PROVE Without(label, out) = <<>> /\ Without(<<"newline">>, out) = <<>>
      <3>1. ToSet(label) \subseteq out /\ ToSet(<<"newline">>) \subseteq out
        BY <2>4, <2>5, <2>6, <2>8, LettersAre, InAlphabet
      <3> QED BY <2>3, <2>6, <3>1, WithoutAll
    <2>9. NamesIn(text) = <<>>
      BY <1>5, <2>2, NamesOf
    <2>10. CASE text = <<>>
      <3>1. ContentToPrompt(m) = label
        BY <2>1, <2>10
      <3>2. \A out : Around \subseteq out => Without(m.text, out) = <<>>
        BY <2>2, <2>10, WithoutEmpty, InAlphabet
      <3> QED BY <2>6, <2>7, <2>8, <2>9, <3>1, <3>2
    <2>11. CASE text # <<>>
      <3> DEFINE front == text \o <<"newline">>
      <3>1. ContentToPrompt(m) = front \o label
        BY <2>1, <2>11
      <3>2. /\ front \in Seq(Alphabet) /\ ToSet(front) = ToSet(text) \cup {"newline"}
            /\ \A out : Without(front, out) = Without(text, out) \o Without(<<"newline">>, out)
            /\ NamesIn(front) = <<>>
        <4> DEFINE gap == <<"newline">>
        <4>1. gap \in Seq(Alphabet) /\ ToSet(gap) = {"newline"}
          BY <2>3, <2>4
        <4> HIDE DEF gap
        <4>2. text \o gap \in Seq(Alphabet)
          BY <2>2, <4>1, ConcatProperties
        <4>3. ToSet(text \o gap) = ToSet(text) \cup {"newline"}
          BY <2>2, <4>1, ConcatSet
        <4>4. \A out : Without(text \o gap, out) = Without(text, out) \o Without(gap, out)
          BY <2>2, <4>1, WithoutConcat
        <4>5. NamesIn(text \o gap) = NamesIn(text) \o NamesIn(gap)
          BY <2>2, <4>1, NamesOf
        <4>6. NamesIn(gap) = <<>>
          BY <4>1, LettersAre, NamesOf
        <4>7. <<>> \o <<>> = <<>>
          OBVIOUS
        <4>8. NamesIn(text \o gap) = <<>>
          BY <2>9, <4>5, <4>6, <4>7
        <4> QED BY <4>2, <4>3, <4>4, <4>8 DEF gap
      <3> HIDE DEF front
      <3>3. /\ front \o label \in Seq(Alphabet) /\ ToSet(front \o label) = ToSet(front) \cup ToSet(label)
            /\ Len(front \o label) = Len(front) + Len(label) /\ Len(front) \in Nat
            /\ \A out : Without(front \o label, out) = Without(front, out) \o Without(label, out)
        BY <2>6, <3>2, ConcatProperties, ConcatSet, WithoutConcat, LenProperties
      <3>4. front \o label # <<>>
        BY <2>6, <3>3, EmptySeq
      <3>5. NamesIn(front \o label) = Called(m)
        <4> DEFINE called == Called(m)
        <4>1. called \in Seq(Names) /\ NamesIn(label) = called
          BY <1>4, <2>6
        <4> HIDE DEF called
        <4>2. NamesIn(front \o label) = NamesIn(front) \o NamesIn(label)
          BY <2>6, <3>2, NamesOf
        <4>3. <<>> \o called = called
          BY <4>1, ConcatEmptySeq
        <4> QED BY <3>2, <4>1, <4>2, <4>3 DEF called
      <3>6. ASSUME NEW out, Around \subseteq out PROVE Without(front \o label, out) = Without(m.text, out)
        <4> DEFINE w == Without(text, out)
        <4>1. w \in Seq(Alphabet)
          BY <2>2, WithoutIs
        <4>2. Without(front \o label, out) = (w \o <<>>) \o <<>>
          BY <2>8, <3>2, <3>3, <3>6
        <4>3. w = Without(m.text, out)
          BY <2>2, <3>6, InAlphabet
        <4> HIDE DEF w
        <4> QED BY <4>1, <4>2, <4>3, ConcatEmptySeq
      <3> QED BY <3>1, <3>3, <3>4, <3>5, <3>6
    <2> QED BY <2>10, <2>11
  <1> QED BY <1>2, <1>3

LEMMA BodyIs ==
  ASSUME NEW m, IsMessage(m)
  PROVE  /\ Body(m) \in Seq(Alphabet) /\ Body(m) # <<>>
         /\ \A i \in 1..Len(Body(m)) : Body(m)[i] \notin Markers
         /\ NamesIn(Body(m)) = Called(m)
         /\ \A out : Around \subseteq out => Without(Body(m), out) = Without(m.text, out)
  <1> DEFINE text == ContentToPrompt(m)
             body_ == Body(m)
  <1>1. /\ text \in Seq(Alphabet) /\ text # <<>>
        /\ NamesIn(text) = Called(m)
        /\ \A out : Around \subseteq out => Without(text, out) = Without(m.text, out)
    BY ContentIs
  <1>2. "marker" \in Alphabet
    BY LettersAre, InAlphabet
  <1>3. /\ body_ \in Seq(Alphabet) /\ Len(body_) = Len(text)
        /\ \A i \in 1..Len(text) : body_[i] = IF text[i] \in Markers THEN "marker" ELSE text[i]
    BY <1>1, <1>2, MaskedIs DEF Body
  <1>4. \A out : Around \subseteq out => Without(body_, out) = Without(text, out)
    <2>1. Markers \cup {"marker"} \subseteq Around
      BY LettersAre, InAlphabet
    <2> QED BY <1>1, <1>2, <2>1, WithoutMasked DEF Body
  <1>8. NamesIn(body_) = NamesIn(text)
    BY <1>1, MaskedNames DEF Body
  <1> HIDE DEF text, body_
  <1>5. body_ # <<>>
    BY <1>1, <1>3, EmptySeq, LenProperties
  <1>9. \A i \in 1..Len(body_) : body_[i] \notin Markers
    BY <1>3, LettersAre
  <1> QED BY <1>1, <1>3, <1>4, <1>5, <1>8, <1>9 DEF body_

(* What the gateway writes before and after a text leaves its words and    *)
(* names as they are.                                                      *)
LEMMA LedBy ==
  ASSUME NEW pre \in Seq(Alphabet), ToSet(pre) \subseteq Markers \cup {"instructions"},
         NEW text \in Seq(Alphabet)
  PROVE  /\ pre \o text \in Seq(Alphabet) /\ Len(pre \o text) = Len(pre) + Len(text)
         /\ \A i \in 1..(Len(pre) + Len(text)) :
              (pre \o text)[i] = IF i <= Len(pre) THEN pre[i] ELSE text[i - Len(pre)]
         /\ NamesIn(pre \o text) = NamesIn(text)
         /\ \A out : Around \subseteq out => Without(pre \o text, out) = Without(text, out)
  <1>1. /\ pre \o text \in Seq(Alphabet) /\ Len(pre \o text) = Len(pre) + Len(text)
        /\ \A i \in 1..(Len(pre) + Len(text)) :
             (pre \o text)[i] = IF i <= Len(pre) THEN pre[i] ELSE text[i - Len(pre)]
    BY ConcatProperties
  <1>2. NamesIn(pre \o text) = NamesIn(text)
    <2>1. NamesIn(pre \o text) = NamesIn(pre) \o NamesIn(text)
      BY NamesOf
    <2>2. NamesIn(pre) = <<>>
      BY LettersAre, NamesOf
    <2> DEFINE names == NamesIn(text)
    <2>3. names \in Seq(Alphabet)
      BY NamesOf
    <2> HIDE DEF names
    <2>4. <<>> \o names = names
      BY <2>3, ConcatEmptySeq
    <2> QED BY <2>1, <2>2, <2>4 DEF names
  <1>3. ASSUME NEW out, Around \subseteq out PROVE Without(pre \o text, out) = Without(text, out)
    <2> DEFINE w == Without(text, out)
    <2>1. Without(pre \o text, out) = Without(pre, out) \o w
      BY WithoutConcat
    <2>2. ToSet(pre) \subseteq out
      BY <1>3, InAlphabet, LettersAre
    <2>3. Without(pre, out) = <<>> /\ w \in Seq(Alphabet)
      BY <2>2, WithoutAll, WithoutIs
    <2> HIDE DEF w
    <2> QED BY <2>1, <2>3, ConcatEmptySeq DEF w
  <1> QED BY <1>1, <1>2, <1>3

LEMMA EndedBy ==
  ASSUME NEW text \in Seq(Alphabet)
  PROVE  LET ended == text \o <<"<End>">>
         IN  /\ ended \in Seq(Alphabet) /\ Len(ended) = Len(text) + 1 /\ ended[Len(text) + 1] = "<End>"
             /\ \A i \in 1..Len(text) : ended[i] = text[i]
             /\ NamesIn(ended) = NamesIn(text)
             /\ \A out : Around \subseteq out => Without(ended, out) = Without(text, out)
  <1> DEFINE ended == Append(text, "<End>")
  <1>1. "<End>" \in Markers
    BY DEF Markers
  <1>2. "<End>" \in Alphabet /\ "<End>" \notin Names
    BY <1>1, InAlphabet, LettersAre
  <1>3. text \o <<"<End>">> = ended
    BY <1>2, AppendIsConcat
  <1>4. /\ ended \in Seq(Alphabet) /\ Len(ended) = Len(text) + 1 /\ ended[Len(text) + 1] = "<End>"
        /\ \A i \in 1..Len(text) : ended[i] = text[i]
    BY <1>2, AppendProperties
  <1>5. NamesIn(ended) = NamesIn(text)
    <2> DEFINE out == Alphabet \ Names
    <2>1. "<End>" \in out
      BY <1>2
    <2> HIDE DEF out
    <2>2. Without(ended, out) = Without(text, out)
      BY <1>2, <2>1, WithoutNext
    <2> QED BY <2>2 DEF NamesIn, out
  <1>6. \A out : Around \subseteq out => Without(ended, out) = Without(text, out)
    <2>1. SUFFICES ASSUME NEW out, Around \subseteq out PROVE Without(ended, out) = Without(text, out)
      OBVIOUS
    <2>2. "<End>" \in out
      BY <1>1, <2>1, InAlphabet
    <2> QED BY <1>2, <2>2, WithoutNext
  <1> QED BY <1>3, <1>4, <1>5, <1>6

(* A turn of the prompt: told apart from its neighbours, by its speaker,   *)
(* with its words and its names.                                           *)
TurnIs(turn, m) ==
  /\ turn \in Seq(Alphabet) /\ OneTurn(turn)
  /\ turn[1] = "<Assistant>" <=> m.role = "assistant"
  /\ turn[Len(turn)] = "<End>" <=> m.role = "assistant"
  /\ NamesIn(turn) = Called(m)
  /\ \A out : Around \subseteq out => Without(turn, out) = Without(m.text, out)

LEMMA LedTurn ==
  ASSUME NEW m, IsMessage(m), m.role # "assistant",
         NEW pre \in Seq(Alphabet), ToSet(pre) \subseteq Markers \cup {"instructions"},
         pre # <<>> => pre[1] = "<User>",
         \A i \in 2..Len(pre) : pre[i] \notin RoleMarkers
  PROVE  TurnIs(pre \o Body(m), m)
  <1> DEFINE text == Body(m)
             turn == pre \o text
             p == Len(pre)
             n == Len(text)
  <1>1. /\ text \in Seq(Alphabet) /\ text # <<>> /\ \A i \in 1..n : text[i] \notin Markers
        /\ NamesIn(text) = Called(m)
        /\ \A out : Around \subseteq out => Without(text, out) = Without(m.text, out)
    BY BodyIs
  <1> HIDE DEF text
  <1>2. /\ turn \in Seq(Alphabet) /\ Len(turn) = p + n
        /\ \A i \in 1..(p + n) : turn[i] = IF i <= p THEN pre[i] ELSE text[i - p]
        /\ NamesIn(turn) = NamesIn(text)
        /\ \A out : Around \subseteq out => Without(turn, out) = Without(text, out)
    BY <1>1, LedBy
  <1>3. p \in Nat /\ n \in Nat \ {0}
    BY <1>1, EmptySeq, LenProperties
  <1>4. \A i \in 1..p : pre[i] \in ToSet(pre)
    BY DEF ToSet
  <1>5. RoleMarkers \subseteq Markers /\ "<End>" \in Markers /\ "<Assistant>" \in Markers
        /\ "<User>" # "<Assistant>"
    BY DEF RoleMarkers, Markers
  <1> HIDE DEF turn, p, n
  <1>6. \A i \in 1..(p + n) : i > p => turn[i] \notin Markers
    <2>1. \A i \in 1..(p + n) : i > p => i - p \in 1..n /\ ~(i <= p)
      BY <1>3
    <2> QED BY <1>1, <1>2, <2>1
  <1>7. turn # <<>>
    BY <1>2, <1>3, EmptySeq
  <1>8. \A i \in 2..Len(turn) : turn[i] \notin RoleMarkers
    <2>1. ASSUME NEW i \in 2..Len(turn) PROVE turn[i] \notin RoleMarkers
      <3>1. i \in 1..(p + n)
        BY <1>2
      <3>2. CASE i <= p
        <4>1. i \in 2..p /\ turn[i] = pre[i]
          BY <1>2, <3>1, <3>2
        <4> QED BY <4>1 DEF p
      <3>3. CASE i > p
        BY <1>5, <1>6, <3>1, <3>3
      <3> QED BY <1>3, <3>1, <3>2, <3>3
    <2> QED BY <2>1
  <1>9. turn[1] # "<Assistant>"
    <2>1. CASE p = 0
      BY <1>3, <1>5, <1>6, <2>1
    <2>2. CASE p > 0
      <3>1. turn[1] = pre[1] /\ pre # <<>>
        BY <1>2, <1>3, <2>2, EmptySeq DEF p
      <3> QED BY <1>5, <3>1
    <2> QED BY <1>3, <2>1, <2>2
  <1>10. turn[Len(turn)] # "<End>"
    BY <1>2, <1>3, <1>5, <1>6
  <1>11. TurnIs(turn, m)
    BY <1>1, <1>2, <1>7, <1>8, <1>9, <1>10 DEF TurnIs, OneTurn
  <1> QED BY <1>11 DEF turn, text

LEMMA AssistantTurn ==
  ASSUME NEW m, IsMessage(m), m.role = "assistant"
  PROVE  TurnIs(<<"<Assistant>">> \o Body(m) \o <<"<End>">>, m)
  <1> DEFINE pre == <<"<Assistant>">>
             text == Body(m)
             led == pre \o text
             turn == led \o <<"<End>">>
             n == Len(text)
  <1>1. /\ text \in Seq(Alphabet) /\ text # <<>> /\ \A i \in 1..n : text[i] \notin Markers
        /\ NamesIn(text) = Called(m)
        /\ \A out : Around \subseteq out => Without(text, out) = Without(m.text, out)
    BY BodyIs
  <1>2. RoleMarkers \subseteq Markers /\ "<End>" \in Markers /\ "<Assistant>" \in Markers
        /\ "<End>" \notin RoleMarkers
    BY DEF RoleMarkers, Markers
  <1>3. pre \in Seq(Alphabet) /\ ToSet(pre) \subseteq Markers \cup {"instructions"} /\ Len(pre) = 1
        /\ pre[1] = "<Assistant>"
    <2>1. "<Assistant>" \in Alphabet
      BY <1>2, InAlphabet
    <2> QED BY <1>2, <2>1 DEF ToSet
  <1> HIDE DEF pre, text
  <1>4. n \in Nat \ {0}
    BY <1>1, EmptySeq, LenProperties
  <1>5. /\ led \in Seq(Alphabet) /\ Len(led) = n + 1
        /\ \A i \in 1..(n + 1) : led[i] = IF i = 1 THEN "<Assistant>" ELSE text[i - 1]
        /\ NamesIn(led) = NamesIn(text)
        /\ \A out : Around \subseteq out => Without(led, out) = Without(text, out)
    <2>1. /\ led \in Seq(Alphabet) /\ Len(led) = Len(pre) + n
          /\ \A i \in 1..(Len(pre) + n) : led[i] = IF i <= Len(pre) THEN pre[i] ELSE text[i - Len(pre)]
          /\ NamesIn(led) = NamesIn(text)
          /\ \A out : Around \subseteq out => Without(led, out) = Without(text, out)
      BY <1>1, <1>3, LedBy
    <2> HIDE DEF led, n
    <2>2. \A i \in 1..(n + 1) : i <= 1 <=> i = 1
      BY <1>4
    <2> QED BY <1>3, <1>4, <2>1, <2>2
  <1> HIDE DEF led
  <1>6. /\ turn \in Seq(Alphabet) /\ Len(turn) = n + 2 /\ turn[n + 2] = "<End>"
        /\ \A i \in 1..(n + 1) : turn[i] = led[i]
        /\ NamesIn(turn) = NamesIn(led)
        /\ \A out : Around \subseteq out => Without(turn, out) = Without(led, out)
    <2>1. /\ turn \in Seq(Alphabet) /\ Len(turn) = Len(led) + 1 /\ turn[Len(led) + 1] = "<End>"
          /\ \A i \in 1..Len(led) : turn[i] = led[i]
          /\ NamesIn(turn) = NamesIn(led)
          /\ \A out : Around \subseteq out => Without(turn, out) = Without(led, out)
      BY <1>5, EndedBy
    <2> HIDE DEF turn, n
    <2>2. Len(led) = n + 1 /\ n + 1 + 1 = n + 2
      BY <1>4, <1>5
    <2> QED BY <2>1, <2>2
  <1> HIDE DEF turn, n
  <1>7. turn # <<>>
    BY <1>4, <1>6, EmptySeq
  <1>8. ASSUME NEW i \in 2..Len(turn) PROVE turn[i] \notin RoleMarkers
    <2>1. CASE i = n + 2
      BY <1>2, <1>6, <2>1
    <2>2. CASE i \in 2..(n + 1)
      <3>1. i - 1 \in 1..n /\ i \in 1..(n + 1) /\ i # 1
        BY <1>4, <2>2
      <3>2. turn[i] = text[i - 1]
        BY <1>5, <1>6, <3>1
      <3> QED BY <1>1, <1>2, <3>1, <3>2 DEF n
    <2>3. i = n + 2 \/ i \in 2..(n + 1)
      BY <1>4, <1>6
    <2> QED BY <2>1, <2>2, <2>3
  <1>9. turn[1] = "<Assistant>" /\ turn[Len(turn)] = "<End>"
    <2>1. 1 \in 1..(n + 1)
      BY <1>4
    <2> QED BY <1>5, <1>6, <2>1
  <1>10. TurnIs(turn, m)
    BY <1>1, <1>5, <1>6, <1>7, <1>8, <1>9 DEF TurnIs, OneTurn
  <1>11. turn = <<"<Assistant>">> \o Body(m) \o <<"<End>">>
    BY DEF turn, led, pre, text
  <1> QED BY <1>10, <1>11

LEMMA TurnOf ==
  ASSUME NEW m, IsMessage(m), NEW i \in Nat \ {0}
  PROVE  TurnIs(Turn(i, m), m) /\ (i > 1 => Turn(i, m)[1] \in RoleMarkers)
  <1>0. m.role \in {"system", "user", "assistant"}
    BY DEF IsMessage, Roles
  <1> DEFINE text == Body(m)
  <1>1. text \in Seq(Alphabet)
    BY BodyIs
  <1>2. "<User>" \in RoleMarkers /\ "<Assistant>" \in RoleMarkers /\ RoleMarkers \subseteq Markers
        /\ "instructions" \notin RoleMarkers
    BY DEF RoleMarkers, Markers
  <1>3. "<User>" \in Alphabet /\ "instructions" \in Alphabet
    BY <1>2, LettersAre, InAlphabet
  <1>4. CASE m.role = "assistant"
    <2>1. Turn(i, m) = <<"<Assistant>">> \o text \o <<"<End>">>
      BY <1>4 DEF Turn, Body
    <2>2. TurnIs(Turn(i, m), m)
      BY <1>4, <2>1, AssistantTurn
    <2>3. Turn(i, m)[1] = "<Assistant>"
      BY <1>4, <2>2 DEF TurnIs
    <2> QED BY <1>2, <2>2, <2>3
  <1>5. CASE m.role # "assistant" /\ i = 1
    <2>1. Turn(i, m) = text
      BY <1>0, <1>5 DEF Turn, Body
    <2>2. <<>> \in Seq(Alphabet) /\ ToSet(<<>>) = {} /\ Len(<<>>) = 0 /\ <<>> \o text = text
      BY <1>1, EmptySeq, EmptySet, ConcatEmptySeq
    <2> DEFINE pre == <<>>
    <2>3. pre \in Seq(Alphabet) /\ ToSet(pre) \subseteq Markers \cup {"instructions"} /\ ~(pre # <<>>)
          /\ \A j \in 2..Len(pre) : pre[j] \notin RoleMarkers
      BY <2>2
    <2> HIDE DEF pre
    <2>4. TurnIs(pre \o text, m)
      BY <1>5, <2>3, LedTurn
    <2>5. pre \o text = text
      BY <2>2 DEF pre
    <2> QED BY <1>5, <2>1, <2>4, <2>5
  <1>6. CASE m.role = "system" /\ i # 1
    <2> DEFINE pre == <<"<User>", "instructions">>
    <2>1. Turn(i, m) = pre \o text
      <3>1. i > 1
        BY <1>6
      <3> QED BY <1>6, <3>1 DEF Turn, Body
    <2>2. pre \in Seq(Alphabet) /\ Len(pre) = 2 /\ pre[1] = "<User>" /\ pre[2] = "instructions" /\ pre # <<>>
      BY <1>3
    <2> HIDE DEF pre
    <2>3. ToSet(pre) \subseteq Markers \cup {"instructions"}
      BY <1>2, <2>2 DEF ToSet
    <2>4. \A j \in 2..Len(pre) : pre[j] \notin RoleMarkers
      BY <1>2, <2>2
    <2>5. TurnIs(pre \o text, m)
      BY <1>6, <2>2, <2>3, <2>4, LedTurn
    <2>6. (pre \o text)[1] = "<User>"
      <3>1. \A j \in 1..(Len(pre) + Len(text)) : (pre \o text)[j] = IF j <= Len(pre) THEN pre[j] ELSE text[j - Len(pre)]
        BY <1>1, <2>2, ConcatProperties
      <3>2. Len(text) \in Nat
        BY <1>1, LenProperties
      <3> HIDE DEF text
      <3> QED BY <2>2, <3>1, <3>2
    <2> QED BY <1>2, <2>1, <2>5, <2>6
  <1>7. CASE m.role = "user" /\ i # 1
    <2> DEFINE pre == <<"<User>">>
    <2>1. Turn(i, m) = pre \o text
      <3>1. i > 1
        BY <1>7
      <3> QED BY <1>7, <3>1 DEF Turn, Body
    <2>2. pre \in Seq(Alphabet) /\ Len(pre) = 1 /\ pre[1] = "<User>" /\ pre # <<>>
      BY <1>3
    <2> HIDE DEF pre
    <2>3. ToSet(pre) \subseteq Markers \cup {"instructions"}
      BY <1>2, <2>2 DEF ToSet
    <2>4. \A j \in 2..Len(pre) : pre[j] \notin RoleMarkers
      BY <2>2
    <2>5. TurnIs(pre \o text, m)
      BY <1>7, <2>2, <2>3, <2>4, LedTurn
    <2>6. (pre \o text)[1] = "<User>"
      <3>1. \A j \in 1..(Len(pre) + Len(text)) : (pre \o text)[j] = IF j <= Len(pre) THEN pre[j] ELSE text[j - Len(pre)]
        BY <1>1, <2>2, ConcatProperties
      <3>2. Len(text) \in Nat
        BY <1>1, LenProperties
      <3> HIDE DEF text
      <3> QED BY <2>2, <3>1, <3>2
    <2> QED BY <1>2, <2>1, <2>5, <2>6
  <1> QED BY <1>0, <1>4, <1>5, <1>6, <1>7

(* Messages with what the gateway may have added.                          *)
WideMessage == [role : Roles, text : Seq(Alphabet), files : Seq(Media)]

Said(messages) == FlattenSeq([i \in 1..Len(messages) |-> messages[i].text])

(* The messages of a are those of b, with instructions after the texts of  *)
(* systems, or with a system in front if there is none.                    *)
Adds(b, a, e) ==
  /\ e \in {0, 1} /\ a \in Seq(WideMessage) /\ b \in Seq(WideMessage) /\ Len(b) = Len(a) + e
  /\ e = 1 => /\ b[1].role = "system" /\ b[1].files = <<>>
              /\ b[1].text \in Seq(Instructions) \ {<<>>}
              /\ \A i \in 1..Len(a) : a[i].role # "system"
  /\ \A i \in 1..Len(a) :
       /\ b[i + e].role = a[i].role /\ b[i + e].files = a[i].files
       /\ \E w \in Seq(Instructions) : /\ b[i + e].text = a[i].text \o w
                                       /\ a[i].role # "system" => w = <<>>

LEMMA MessageOf ==
  ASSUME NEW a \in Seq(WideMessage), NEW i \in 1..Len(a)
  PROVE  a[i] \in WideMessage /\ a[i].text \in Seq(Alphabet) /\ a[i].text \o <<>> = a[i].text
  <1>1. a[i] \in WideMessage
    BY ElementOfSeq
  <1>2. a[i].text \in Seq(Alphabet)
    BY <1>1 DEF WideMessage
  <1> QED BY <1>1, <1>2, ConcatEmptySeq

LEMMA AddsNothing == ASSUME NEW a \in Seq(WideMessage), NEW e \in {0} PROVE Adds(a, a, e)
  <1>1. Len(a) \in Nat /\ <<>> \in Seq(Instructions) /\ e = 0
    BY LenProperties, EmptySeq
  <1>2. ASSUME NEW i \in 1..Len(a)
        PROVE  /\ a[i + e].role = a[i].role /\ a[i + e].files = a[i].files
               /\ \E w \in Seq(Instructions) : /\ a[i + e].text = a[i].text \o w
                                               /\ a[i].role # "system" => w = <<>>
    <2>1. i + e = i
      BY <1>1
    <2>2. a[i].text = a[i].text \o <<>>
      BY MessageOf
    <2> QED BY <1>1, <2>1, <2>2
  <1>3. ~(e = 1) /\ Len(a) = Len(a) + e /\ e \in {0, 1}
    BY <1>1
  <1> QED BY <1>2, <1>3 DEF Adds

LEMMA InstructionsAreLetters == Seq(Instructions) \subseteq Seq(Alphabet)
  BY InAlphabet, SeqMonotonic

LEMMA AddsMore ==
  ASSUME NEW a, NEW b, NEW c, NEW e, NEW f, Adds(b, a, e), Adds(c, b, f)
  PROVE  \E g : Adds(c, a, g)
  <1>1. /\ e \in {0, 1} /\ f \in {0, 1} /\ a \in Seq(WideMessage) /\ b \in Seq(WideMessage) /\ c \in Seq(WideMessage)
        /\ Len(b) = Len(a) + e /\ Len(c) = Len(b) + f /\ Len(a) \in Nat /\ Len(b) \in Nat
    BY LenProperties DEF Adds
  <1>2. e = 0 \/ f = 0
    <2>1. SUFFICES ASSUME e = 1, f = 1 PROVE FALSE
      BY <1>1
    <2>2. b[1].role = "system" /\ 1 \in 1..Len(b)
      BY <1>1, <2>1 DEF Adds
    <2> QED BY <2>1, <2>2 DEF Adds
  <1>3. ASSUME NEW i \in 1..Len(a)
        PROVE  /\ i + e \in 1..Len(b) /\ i + (e + f) = (i + e) + f
               /\ c[i + (e + f)].role = a[i].role /\ c[i + (e + f)].files = a[i].files
               /\ \E w \in Seq(Instructions) : /\ c[i + (e + f)].text = a[i].text \o w
                                               /\ a[i].role # "system" => w = <<>>
    <2>1. i + e \in 1..Len(b) /\ i + (e + f) = (i + e) + f
      BY <1>1
    <2>2. PICK u \in Seq(Instructions) : /\ b[i + e].text = a[i].text \o u
                                         /\ a[i].role # "system" => u = <<>>
      BY DEF Adds
    <2>3. PICK v \in Seq(Instructions) : /\ c[(i + e) + f].text = b[i + e].text \o v
                                         /\ b[i + e].role # "system" => v = <<>>
      BY <2>1 DEF Adds
    <2>4. /\ b[i + e].role = a[i].role /\ b[i + e].files = a[i].files
          /\ c[(i + e) + f].role = b[i + e].role /\ c[(i + e) + f].files = b[i + e].files
      BY <2>1 DEF Adds
    <2>5. (a[i].text \o u) \o v = a[i].text \o (u \o v) /\ u \o v \in Seq(Instructions)
      <3>1. a[i].text \in Seq(Alphabet) /\ u \in Seq(Alphabet) /\ v \in Seq(Alphabet)
        BY <1>1, <2>2, <2>3, MessageOf, InstructionsAreLetters
      <3>2. u \o v \in Seq(Instructions)
        BY <2>2, <2>3, ConcatProperties
      <3> DEFINE text == a[i].text
      <3>3. text \in Seq(Alphabet)
        BY <3>1
      <3> HIDE DEF text
      <3>4. (text \o u) \o v = text \o (u \o v)
        BY <3>1, <3>3, ConcatAssociative, SMTT(60)
      <3> QED BY <3>2, <3>4 DEF text
    <2>6. a[i].role # "system" => u \o v = <<>>
      <3>1. SUFFICES ASSUME a[i].role # "system" PROVE u \o v = <<>>
        OBVIOUS
      <3>2. u = <<>> /\ v = <<>>
        BY <2>2, <2>3, <2>4, <3>1
      <3> QED BY <3>2, <2>2, ConcatEmptySeq
    <2> DEFINE w == u \o v
    <2>7. w \in Seq(Instructions) /\ c[i + (e + f)].text = a[i].text \o w /\ (a[i].role # "system" => w = <<>>)
      BY <2>1, <2>2, <2>3, <2>5, <2>6
    <2> HIDE DEF w
    <2> QED BY <2>1, <2>4, <2>7
  <1>4. e + f \in {0, 1} /\ Len(c) = Len(a) + (e + f)
    BY <1>1, <1>2
  <1>5. e + f = 1 => /\ c[1].role = "system" /\ c[1].files = <<>>
                     /\ c[1].text \in Seq(Instructions) \ {<<>>}
                     /\ \A i \in 1..Len(a) : a[i].role # "system"
    <2>1. CASE e = 0 /\ f = 1
      <3>1. \A i \in 1..Len(a) : b[i + e].role = a[i].role /\ i + e \in 1..Len(b)
        BY <1>3 DEF Adds
      <3>2. /\ c[1].role = "system" /\ c[1].files = <<>> /\ c[1].text \in Seq(Instructions) \ {<<>>}
            /\ \A i \in 1..Len(b) : b[i].role # "system"
        BY <2>1 DEF Adds
      <3> QED BY <3>1, <3>2
    <2>2. CASE e = 1 /\ f = 0
      <3>1. /\ b[1].role = "system" /\ b[1].files = <<>> /\ b[1].text \in Seq(Instructions) \ {<<>>}
            /\ \A i \in 1..Len(a) : a[i].role # "system"
        BY <2>2 DEF Adds
      <3>2. 1 \in 1..Len(b) /\ 1 + f = 1
        BY <1>1, <2>2
      <3>3. PICK v \in Seq(Instructions) : c[1 + f].text = b[1].text \o v
        BY <3>2 DEF Adds
      <3>4. c[1 + f].role = b[1].role /\ c[1 + f].files = b[1].files
        BY <3>2 DEF Adds
      <3> DEFINE first == b[1].text
                 all == first \o v
      <3>5. all \in Seq(Instructions) /\ all # <<>>
        <4>1. first \in Seq(Instructions) /\ first # <<>>
          BY <3>1
        <4> HIDE DEF first
        <4>2. all \in Seq(Instructions) /\ Len(all) = Len(first) + Len(v)
          BY <3>3, <4>1, ConcatProperties
        <4>3. Len(first) \in Nat \ {0} /\ Len(v) \in Nat
          BY <3>3, <4>1, EmptySeq, LenProperties
        <4> HIDE DEF all
        <4> QED BY <4>2, <4>3, EmptySeq
      <3>6. c[1].text = all
        BY <3>2, <3>3
      <3> HIDE DEF all
      <3> QED BY <3>1, <3>2, <3>4, <3>5, <3>6
    <2> QED BY <1>1, <1>2, <2>1, <2>2
  <1>6. Adds(c, a, e + f)
    BY <1>1, <1>3, <1>4, <1>5 DEF Adds
  <1> QED BY <1>6

LEMMA PutInFront ==
  ASSUME NEW S, NEW x \in S, NEW s \in Seq(S)
  PROVE  /\ <<x>> \o s \in Seq(S) /\ Len(<<x>> \o s) = Len(s) + 1 /\ (<<x>> \o s)[1] = x
         /\ \A i \in 1..Len(s) : (<<x>> \o s)[i + 1] = s[i]
  <1> DEFINE one == <<x>>
  <1>1. one \in Seq(S) /\ Len(one) = 1 /\ one[1] = x /\ Len(s) \in Nat
    BY LenProperties
  <1> HIDE DEF one
  <1>2. /\ one \o s \in Seq(S) /\ Len(one \o s) = Len(one) + Len(s)
        /\ \A i \in 1..(Len(one) + Len(s)) : (one \o s)[i] = IF i <= Len(one) THEN one[i] ELSE s[i - Len(one)]
    BY <1>1, ConcatProperties
  <1>3. 1 \in 1..(1 + Len(s)) /\ 1 + Len(s) = Len(s) + 1
        /\ \A i \in 1..Len(s) : i + 1 \in 1..(1 + Len(s)) /\ ~(i + 1 <= 1) /\ (i + 1) - 1 = i
    BY <1>1
  <1>4. (one \o s)[1] = x
    BY <1>1, <1>2, <1>3
  <1>5. ASSUME NEW i \in 1..Len(s) PROVE (one \o s)[i + 1] = s[i]
    <2>1. (one \o s)[i + 1] = s[(i + 1) - 1]
      BY <1>1, <1>2, <1>3
    <2> QED BY <1>3, <2>1
  <1>6. Len(one \o s) = Len(s) + 1
    BY <1>1, <1>2
  <1> QED BY <1>2, <1>4, <1>5, <1>6 DEF one

LEMMA SaidIs ==
  ASSUME NEW a \in Seq(WideMessage)
  PROVE  /\ [i \in 1..Len(a) |-> a[i].text] \in Seq(Seq(Alphabet))
         /\ Len([i \in 1..Len(a) |-> a[i].text]) = Len(a)
         /\ Said(a) \in Seq(Alphabet)
  <1> DEFINE texts == [i \in 1..Len(a) |-> a[i].text]
  <1>1. Len(a) \in Nat /\ \A i \in 1..Len(a) : a[i].text \in Seq(Alphabet)
    BY LenProperties, MessageOf
  <1>2. texts \in Seq(Seq(Alphabet)) /\ Len(texts) = Len(a)
    BY <1>1, IsASeq
  <1>3. FlattenSeq(texts) \in Seq(Alphabet)
    BY <1>2, FlattenIsSeq
  <1> QED BY <1>2, <1>3 DEF Said

(* An instruction is added to what is said, and to nothing else.           *)
LEMMA InstructedIs ==
  ASSUME NEW a \in Seq(WideMessage), NEW ins \in Seq(Instructions), ins # <<>>
  PROVE  /\ \E e : Adds(Instructed(a, ins), a, e)
         /\ \E x, y \in Seq(Alphabet) : Said(a) = x \o y /\ Said(Instructed(a, ins)) = (x \o ins) \o y
  <1> DEFINE systems == {i \in 1..Len(a) : a[i].role = "system"}
             n == Len(a)
             texts == [i \in 1..n |-> a[i].text]
             b == Instructed(a, ins)
  <1>1. n \in Nat /\ ins \in Seq(Alphabet) /\ <<>> \in Seq(Instructions) /\ <<>> \in Seq(Alphabet)
    BY LenProperties, InstructionsAreLetters, EmptySeq
  <1>2. texts \in Seq(Seq(Alphabet)) /\ Len(texts) = n /\ Said(a) = FlattenSeq(texts) /\ Said(a) \in Seq(Alphabet)
    BY SaidIs DEF Said
  <1>3. CASE systems = {}
    <2> DEFINE first == [role |-> "system", text |-> ins, files |-> <<>>]
    <2>1. b = <<first>> \o a
      BY <1>3 DEF Instructed
    <2>2. first \in WideMessage
      BY <1>1, EmptySeq DEF WideMessage, Roles
    <2>3. first.role = "system" /\ first.text = ins /\ first.files = <<>>
      OBVIOUS
    <2> HIDE DEF first, systems
    <2>6. /\ b \in Seq(WideMessage) /\ Len(b) = n + 1 /\ b[1] = first
          /\ \A i \in 1..n : b[i + 1] = a[i]
      BY <2>1, <2>2, PutInFront
    <2> HIDE DEF b
    <2>7. Adds(b, a, 1)
      <3>1. \A i \in 1..n : a[i].role # "system"
        BY <1>3 DEF systems
      <3>2. \A i \in 1..n : a[i].text = a[i].text \o <<>>
        BY MessageOf
      <3>3. ASSUME NEW i \in 1..n
            PROVE  \E w \in Seq(Instructions) : /\ b[i + 1].text = a[i].text \o w
                                                /\ a[i].role # "system" => w = <<>>
        BY <1>1, <2>6, <3>2
      <3>4. b[1].text \in Seq(Instructions) \ {<<>>} /\ b[1].role = "system" /\ b[1].files = <<>>
        BY <2>3, <2>6
      <3>5. \A i \in 1..n : b[i + 1].role = a[i].role /\ b[i + 1].files = a[i].files
        BY <2>6
      <3> HIDE DEF n
      <3> QED BY <2>6, <3>1, <3>3, <3>4, <3>5 DEF Adds, n
    <2>8. Said(b) = ins \o Said(a)
      <3> DEFINE longer == [i \in 1..Len(b) |-> b[i].text]
                 right == <<ins>> \o texts
      <3>1. longer \in Seq(Seq(Alphabet)) /\ Len(longer) = n + 1 /\ \A i \in 1..(n + 1) : longer[i] = b[i].text
        BY <2>6, SaidIs
      <3>2. \A i \in 1..n : texts[i] = a[i].text
        OBVIOUS
      <3> HIDE DEF texts, longer
      <3>3. /\ right \in Seq(Seq(Alphabet)) /\ Len(right) = Len(texts) + 1 /\ right[1] = ins
            /\ \A i \in 1..Len(texts) : right[i + 1] = texts[i]
        BY <1>1, <1>2, PutInFront
      <3> HIDE DEF right, n
      <3>4. ASSUME NEW i \in 1..(n + 1) PROVE longer[i] = right[i]
        <4>1. CASE i = 1
          BY <2>3, <2>6, <3>1, <3>3, <4>1
        <4>2. CASE i # 1
          <5>1. PICK j \in 1..n : i = j + 1
            <6>1. i - 1 \in 1..n /\ i = (i - 1) + 1
              BY <1>1, <4>2
            <6> QED BY <6>1
          <5>2. right[i] = a[j].text
            BY <1>2, <3>2, <3>3, <5>1
          <5>3. longer[i] = a[j].text
            BY <2>6, <3>1, <5>1
          <5> QED BY <5>2, <5>3
        <4> QED BY <4>1, <4>2
      <3>5. Len(right) = n + 1
        BY <1>2, <3>3
      <3>6. longer = right
        BY <3>1, <3>3, <3>4, <3>5, SeqEqual, SMTT(60)
      <3>7. FlattenSeq(right) = ins \o FlattenSeq(texts)
        BY <1>1, <1>2, FlattenFirst DEF right
      <3> QED BY <1>2, <3>6, <3>7 DEF longer, Said
    <2>9. Said(a) = <<>> \o Said(a) /\ Said(b) = (<<>> \o ins) \o Said(a)
      BY <1>1, <1>2, <2>8, ConcatEmptySeq
    <2>10. b = Instructed(a, ins)
      BY DEF b
    <2>11. \E x, y \in Seq(Alphabet) : Said(a) = x \o y /\ Said(b) = (x \o ins) \o y
      BY <1>1, <1>2, <2>9
    <2>12. \E e : Adds(b, a, e)
      BY <2>7
    <2> QED BY <2>10, <2>11, <2>12
  <1>4. CASE systems # {}
    <2> DEFINE k == Min(systems)
               old == a[k]
               new == [old EXCEPT !.text = old.text \o ins]
    <2>1. k \in systems
      <3>1. systems \in SUBSET Nat
        BY <1>1
      <3> HIDE DEF systems
      <3> QED BY <1>4, <3>1, MinIs
    <2>2. k \in 1..n /\ old.role = "system" /\ old \in WideMessage
      BY <2>1, MessageOf
    <2>3. b = [a EXCEPT ![k].text = @ \o ins]
      BY <1>4 DEF Instructed
    <2> HIDE DEF systems, k
    <2>4. b = [a EXCEPT ![k] = new]
      BY <2>3
    <2>5. old.text \in Seq(Alphabet) /\ old.text \o ins \in Seq(Alphabet)
      BY <1>1, <2>2, ConcatProperties DEF WideMessage
    <2>6. new \in WideMessage /\ new.role = old.role /\ new.files = old.files /\ new.text = old.text \o ins
      <3> HIDE DEF old
      <3> QED BY <2>2, <2>5 DEF WideMessage
    <2> HIDE DEF old, new, b
    <2>7. /\ b \in Seq(WideMessage) /\ Len(b) = n /\ \A i \in 1..n : b[i] = IF i = k THEN new ELSE a[i]
      BY <2>2, <2>4, <2>6, ExceptSeq
    <2>8. Adds(b, a, 0)
      <3>1. \A i \in 1..n : a[i].text = a[i].text \o <<>>
        BY MessageOf
      <3> DEFINE z == 0
      <3>2. z = 0
        OBVIOUS
      <3> HIDE DEF z
      <3>3. ASSUME NEW i \in 1..n
            PROVE  /\ b[i + z].role = a[i].role /\ b[i + z].files = a[i].files
                   /\ \E w \in Seq(Instructions) : /\ b[i + z].text = a[i].text \o w
                                                   /\ a[i].role # "system" => w = <<>>
        <4>1. i + z = i
          BY <3>2
        <4>2. CASE i = k
          <5>1. b[i] = new /\ a[i] = old
            BY <2>7, <4>2 DEF old
          <5> QED BY <2>2, <2>6, <4>1, <5>1
        <4>3. CASE i # k
          <5>1. b[i] = a[i]
            BY <2>7, <4>3
          <5> QED BY <1>1, <3>1, <4>1, <5>1
        <4> QED BY <4>2, <4>3
      <3>4. ~(z = 1) /\ n = n + z /\ z \in {0, 1}
        BY <1>1, <3>2
      <3> HIDE DEF n
      <3>5. Adds(b, a, z)
        BY <2>7, <3>3, <3>4 DEF Adds, n
      <3> QED BY <3>5 DEF z
    <2>9. \E x, y \in Seq(Alphabet) : Said(a) = x \o y /\ Said(b) = (x \o ins) \o y
      <3> DEFINE longer == [i \in 1..Len(b) |-> b[i].text]
      <3>1. longer \in Seq(Seq(Alphabet)) /\ Len(longer) = n /\ \A i \in 1..n : longer[i] = b[i].text
        BY <2>7, SaidIs
      <3>2. \A i \in 1..n : texts[i] = a[i].text
        OBVIOUS
      <3>3. old.text = a[k].text
        BY DEF old
      <3> HIDE DEF texts, longer
      <3>4. longer[k] = texts[k] \o ins /\ \A i \in 1..Len(texts) : i # k => longer[i] = texts[i]
        BY <1>2, <2>2, <2>6, <2>7, <3>1, <3>2, <3>3
      <3>5. k \in 1..Len(texts) /\ Len(longer) = Len(texts)
        BY <1>2, <2>2, <3>1
      <3>6. \E x, y \in Seq(Alphabet) : FlattenSeq(texts) = x \o y /\ FlattenSeq(longer) = (x \o ins) \o y
        <4> HIDE DEF n
        <4>0. texts \in Seq(Seq(Alphabet)) /\ ins \in Seq(Alphabet) /\ longer \in Seq(Seq(Alphabet))
          BY <1>1, <1>2, <3>1
        <4>1. Grows(texts, longer, k, ins)
          BY <3>4, <3>5 DEF Grows
        <4>2. Inserted(Alphabet, FlattenSeq(texts), FlattenSeq(longer), ins)
          BY <3>5, <4>0, <4>1, FlattenGrown
        <4> QED BY <4>2 DEF Inserted
      <3>7. Said(b) = FlattenSeq(longer)
        BY DEF Said, longer
      <3> QED BY <1>2, <3>6, <3>7
    <2>10. b = Instructed(a, ins)
      BY DEF b
    <2>11. \E e : Adds(b, a, e)
      BY <2>8
    <2> QED BY <2>9, <2>10, <2>11
  <1> QED BY <1>3, <1>4

(* How often a symbol is in a text.                                        *)
CountIn(text, symbol) == Len(Without(text, Alphabet \ {symbol}))

LEMMA CountIs ==
  ASSUME NEW text \in Seq(Alphabet), NEW symbol
  PROVE  Count(text, symbol) = CountIn(text, symbol) /\ CountIn(text, symbol) \in Nat
  <1>1. ToSet(text) \subseteq Alphabet
    BY ElementOfSeq DEF ToSet
  <1>2. Without(text, ToSet(text) \ {symbol}) = Without(text, Alphabet \ {symbol})
    BY <1>1, WithoutSame
  <1>3. Without(text, Alphabet \ {symbol}) \in Seq(Alphabet)
    BY WithoutIs
  <1> QED BY <1>2, <1>3, LenProperties DEF Count, CountIn

LEMMA CountAdds ==
  ASSUME NEW s \in Seq(Alphabet), NEW t \in Seq(Alphabet), NEW symbol
  PROVE  CountIn(s \o t, symbol) = CountIn(s, symbol) + CountIn(t, symbol)
  <1> DEFINE v == Without(s, Alphabet \ {symbol})
             w == Without(t, Alphabet \ {symbol})
  <1>1. Without(s \o t, Alphabet \ {symbol}) = v \o w
    BY WithoutConcat
  <1>2. v \in Seq(Alphabet) /\ w \in Seq(Alphabet)
    BY WithoutIs
  <1> HIDE DEF v, w
  <1>3. Len(v \o w) = Len(v) + Len(w)
    BY <1>2, ConcatProperties
  <1> QED BY <1>1, <1>3 DEF CountIn, v, w

LEMMA CountNone ==
  ASSUME NEW s \in Seq(Alphabet), NEW symbol, symbol \notin ToSet(s)
  PROVE  CountIn(s, symbol) = 0
  <1>1. ToSet(s) \subseteq Alphabet \ {symbol}
    BY ElementOfSeq DEF ToSet
  <1>2. Without(s, Alphabet \ {symbol}) = <<>>
    BY <1>1, WithoutAll
  <1> QED BY <1>2 DEF CountIn

LEMMA CountOne ==
  ASSUME NEW symbol \in Alphabet, NEW other
  PROVE  CountIn(<<symbol>>, other) = IF symbol = other THEN 1 ELSE 0
  <1>1. <<>> \in Seq(Alphabet) /\ <<symbol>> = Append(<<>>, symbol)
    BY EmptySeq
  <1>2. Without(<<symbol>>, Alphabet \ {other}) = IF symbol \in Alphabet \ {other} THEN <<>> ELSE <<>> \o <<symbol>>
    <2> DEFINE empty == <<>>
    <2>1. empty \in Seq(Alphabet)
      BY <1>1
    <2> HIDE DEF empty
    <2>2. Without(Append(empty, symbol), Alphabet \ {other})
            = IF symbol \in Alphabet \ {other} THEN Without(empty, Alphabet \ {other})
              ELSE Without(empty, Alphabet \ {other}) \o <<symbol>>
      <3> DEFINE out == Alphabet \ {other}
      <3> HIDE DEF out
      <3>1. Without(Append(empty, symbol), out)
              = IF symbol \in out THEN Without(empty, out) ELSE Without(empty, out) \o <<symbol>>
        BY <2>1, WithoutNext
      <3> QED BY <3>1 DEF out
    <2>3. Without(empty, Alphabet \ {other}) = <<>>
      BY WithoutEmpty DEF empty
    <2>4. Append(empty, symbol) = <<symbol>>
      BY <1>1 DEF empty
    <2> QED BY <2>2, <2>3, <2>4
  <1>3. CASE symbol = other
    <2>1. Without(<<symbol>>, Alphabet \ {other}) = <<symbol>>
      <3>1. <<>> \o <<symbol>> = <<symbol>>
        OBVIOUS
      <3> QED BY <1>2, <1>3, <3>1
    <2> QED BY <1>3, <2>1 DEF CountIn
  <1>4. CASE symbol # other
    <2>1. Without(<<symbol>>, Alphabet \ {other}) = <<>>
      BY <1>2, <1>4
    <2> QED BY <1>4, <2>1 DEF CountIn
  <1> QED BY <1>3, <1>4

(* An instruction adds its own symbols.                                    *)
LEMMA InstructedCounts ==
  ASSUME NEW a \in Seq(WideMessage), NEW ins \in Seq(Instructions), ins # <<>>, NEW symbol
  PROVE  CountIn(Said(Instructed(a, ins)), symbol) = CountIn(Said(a), symbol) + CountIn(ins, symbol)
  <1>1. PICK x, y \in Seq(Alphabet) : Said(a) = x \o y /\ Said(Instructed(a, ins)) = (x \o ins) \o y
    BY InstructedIs
  <1>2. ins \in Seq(Alphabet)
    BY InstructionsAreLetters
  <1>3. x \o ins \in Seq(Alphabet)
    BY <1>1, <1>2, ConcatProperties
  <1>4. CountIn(x \o y, symbol) = CountIn(x, symbol) + CountIn(y, symbol)
    BY <1>1, CountAdds
  <1>5. CountIn((x \o ins) \o y, symbol) = CountIn(x \o ins, symbol) + CountIn(y, symbol)
    <2> DEFINE front == x \o ins
    <2>1. front \in Seq(Alphabet)
      BY <1>3
    <2> HIDE DEF front
    <2>2. CountIn(front \o y, symbol) = CountIn(front, symbol) + CountIn(y, symbol)
      BY <1>1, <2>1, CountAdds
    <2> QED BY <2>2 DEF front
  <1>6. CountIn(x \o ins, symbol) = CountIn(x, symbol) + CountIn(ins, symbol)
    BY <1>1, <1>2, CountAdds
  <1>7. CountIn(x, symbol) \in Nat /\ CountIn(y, symbol) \in Nat /\ CountIn(ins, symbol) \in Nat
    BY <1>1, <1>2, CountIs
  <1> QED BY <1>1, <1>4, <1>5, <1>6, <1>7

ToldJson(a) == \E i \in 1..Len(a) : a[i].role = "system" /\ Contains(a[i].text, "json")

LEMMA JsonModeIs ==
  ASSUME NEW q, NEW a \in Seq(WideMessage)
  PROVE  /\ \E e : Adds(WithJsonMode(q, a), a, e)
         /\ CountIn(Said(WithJsonMode(q, a)), "json")
              = CountIn(Said(a), "json") + IF q.json /\ ~ToldJson(a) THEN 1 ELSE 0
         /\ CountIn(Said(WithJsonMode(q, a)), "tools") = CountIn(Said(a), "tools")
  <1>1. Said(a) \in Seq(Alphabet)
    BY SaidIs
  <1>2. CountIn(Said(a), "json") \in Nat /\ CountIn(Said(a), "tools") \in Nat
    BY <1>1, CountIs
  <1>3. CASE q.json /\ ~ToldJson(a)
    <2> DEFINE ins == <<"json">>
    <2>1. "json" \in Instructions /\ "json" \in Alphabet /\ "json" # "tools"
      BY InstructionsStay DEF Instructions
    <2>2. ins \in Seq(Instructions) /\ ins # <<>>
      BY <2>1
    <2>3. CountIn(ins, "json") = 1 /\ CountIn(ins, "tools") = 0
      BY <2>1, CountOne
    <2>4. WithJsonMode(q, a) = Instructed(a, ins)
      BY <1>3 DEF WithJsonMode, ToldJson
    <2> HIDE DEF ins
    <2>5. \E e : Adds(Instructed(a, ins), a, e)
      BY <2>2, InstructedIs
    <2>6. /\ CountIn(Said(Instructed(a, ins)), "json") = CountIn(Said(a), "json") + CountIn(ins, "json")
          /\ CountIn(Said(Instructed(a, ins)), "tools") = CountIn(Said(a), "tools") + CountIn(ins, "tools")
      BY <2>2, InstructedCounts
    <2> QED BY <1>2, <1>3, <2>3, <2>4, <2>5, <2>6
  <1>4. CASE ~(q.json /\ ~ToldJson(a))
    <2>1. WithJsonMode(q, a) = a
      BY <1>4 DEF WithJsonMode, ToldJson
    <2>2. \E e : Adds(a, a, e)
      BY AddsNothing
    <2> QED BY <1>2, <1>4, <2>1, <2>2
  <1> QED BY <1>3, <1>4

LEMMA ToolInstructionIs ==
  ASSUME NEW q, q.tools \in Seq(Tools \cup {"nameless"}), q.tool_choice \in ToolChoices
  PROVE  /\ ToolInstruction(q) \in Seq(Instructions) /\ ToolInstruction(q) # <<>>
         /\ CountIn(ToolInstruction(q), "tools") = 1 /\ CountIn(ToolInstruction(q), "json") = 0
         /\ toolNames(q.tools) = ToSet(q.tools) \ {"nameless"}
  <1> DEFINE front == <<"tools">>
             list == Usable(q.tools)
             back == CASE q.tool_choice \in Tools -> <<"must", q.tool_choice>>
                       [] q.tool_choice = "required" -> <<"must">>
                       [] OTHER -> <<"may">>
             ins == ToolInstruction(q)
  <1>1. /\ Tools \subseteq Instructions /\ "must" \in Instructions /\ "may" \in Instructions
        /\ "tools" \in Instructions /\ "tools" \notin Tools \cup {"must", "may"}
        /\ "json" \notin Tools \cup {"must", "may", "tools"}
    BY DEF Instructions, Tools
  <1>2. list \in Seq(Tools \cup {"nameless"}) /\ ToSet(list) = ToSet(q.tools) \ {"nameless"}
    BY WithoutIs DEF Usable
  <1>3. ToSet(q.tools) \subseteq Tools \cup {"nameless"}
    BY ElementOfSeq DEF ToSet
  <1>4. list \in Seq(Tools) /\ list \in Seq(Instructions)
    <2>1. \A i \in 1..Len(list) : list[i] \in Tools /\ list[i] \in Instructions
      <3>1. \A i \in 1..Len(list) : list[i] \in ToSet(list)
        BY DEF ToSet
      <3> QED BY <1>1, <1>2, <1>3, <3>1
    <2>2. list = [i \in 1..Len(list) |-> list[i]] /\ Len(list) \in Nat
      BY <1>2, LenProperties
    <2> HIDE DEF list
    <2> QED BY <2>1, <2>2, IsASeq
  <1>5. back \in Seq(Instructions) /\ ToSet(back) \subseteq Tools \cup {"must", "may"}
    <2>1. CASE q.tool_choice \in Tools
      <3>1. back = <<"must", q.tool_choice>>
        <4>1. q.tool_choice # "required"
          BY <2>1 DEF Tools
        <4> QED BY <2>1, <4>1
      <3>2. ToSet(<<"must", q.tool_choice>>) = {"must", q.tool_choice}
        BY DEF ToSet
      <3>3. <<"must", q.tool_choice>> \in Seq(Instructions)
        BY <1>1, <2>1
      <3> HIDE DEF back
      <3> QED BY <2>1, <3>1, <3>2, <3>3
    <2>2. CASE q.tool_choice \notin Tools
      <3>1. back = <<"must">> \/ back = <<"may">>
        BY <2>2
      <3>2. ToSet(<<"must">>) = {"must"} /\ ToSet(<<"may">>) = {"may"}
        BY DEF ToSet
      <3>3. <<"must">> \in Seq(Instructions) /\ <<"may">> \in Seq(Instructions)
        BY <1>1
      <3> HIDE DEF back
      <3> QED BY <3>1, <3>2, <3>3
    <2> QED BY <2>1, <2>2
  <1>6. front \in Seq(Instructions) /\ Len(front) = 1
    BY <1>1
  <1>7. ins = (front \o list) \o back
    BY DEF ToolInstruction
  <1>8. CountIn(front, "tools") = 1 /\ CountIn(front, "json") = 0
    BY CountOne, InstructionsStay
  <1> HIDE DEF front, list, back, ins
  <1> DEFINE led == front \o list
  <1>9. led \in Seq(Instructions) /\ Len(led) = 1 + Len(list) /\ Len(list) \in Nat
    BY <1>4, <1>6, ConcatProperties, LenProperties
  <1>10. /\ CountIn(led, "tools") = CountIn(front, "tools") + CountIn(list, "tools")
         /\ CountIn(led, "json") = CountIn(front, "json") + CountIn(list, "json")
    BY <1>4, <1>6, CountAdds, InstructionsAreLetters
  <1>11. CountIn(list, "tools") = 0 /\ CountIn(list, "json") = 0
    BY <1>1, <1>2, <1>3, <1>4, CountNone, InstructionsAreLetters
  <1>12. CountIn(back, "tools") = 0 /\ CountIn(back, "json") = 0
    BY <1>1, <1>5, CountNone, InstructionsAreLetters
  <1> HIDE DEF led
  <1>13. led \o back \in Seq(Instructions) /\ Len(led \o back) = Len(led) + Len(back) /\ Len(back) \in Nat
    BY <1>5, <1>9, ConcatProperties, LenProperties
  <1>14. /\ CountIn(led \o back, "tools") = CountIn(led, "tools") + CountIn(back, "tools")
         /\ CountIn(led \o back, "json") = CountIn(led, "json") + CountIn(back, "json")
    BY <1>5, <1>9, CountAdds, InstructionsAreLetters
  <1>15. led \o back # <<>>
    BY <1>9, <1>13, EmptySeq
  <1>16. ins = led \o back
    BY <1>7 DEF led
  <1>17. CountIn(ins, "tools") = 1 /\ CountIn(ins, "json") = 0
    BY <1>8, <1>10, <1>11, <1>12, <1>14, <1>16
  <1>18. toolNames(q.tools) = ToSet(q.tools) \ {"nameless"}
    BY <1>2 DEF toolNames, list
  <1> QED BY <1>13, <1>15, <1>16, <1>17, <1>18 DEF ins

LEMMA ToolsModeIs ==
  ASSUME NEW q, q.tools \in Seq(Tools \cup {"nameless"}), q.tool_choice \in ToolChoices,
         NEW a \in Seq(WideMessage)
  PROVE  /\ \E e : Adds(WithTools(q, a), a, e)
         /\ CountIn(Said(WithTools(q, a)), "json") = CountIn(Said(a), "json")
         /\ CountIn(Said(WithTools(q, a)), "tools") = CountIn(Said(a), "tools")
              + IF wantsTools(q) /\ ToSet(q.tools) # {"nameless"} THEN 1 ELSE 0
  <1>1. Said(a) \in Seq(Alphabet)
    BY SaidIs
  <1>2. CountIn(Said(a), "json") \in Nat /\ CountIn(Said(a), "tools") \in Nat
    BY <1>1, CountIs
  <1>3. /\ ToolInstruction(q) \in Seq(Instructions) /\ ToolInstruction(q) # <<>>
        /\ CountIn(ToolInstruction(q), "tools") = 1 /\ CountIn(ToolInstruction(q), "json") = 0
        /\ toolNames(q.tools) = ToSet(q.tools) \ {"nameless"}
    BY ToolInstructionIs
  <1>4. wantsTools(q) => (toolNames(q.tools) # {} <=> ToSet(q.tools) # {"nameless"})
    <2>1. SUFFICES ASSUME wantsTools(q) PROVE toolNames(q.tools) # {} <=> ToSet(q.tools) # {"nameless"}
      OBVIOUS
    <2>2. q.tools # <<>>
      BY <2>1 DEF wantsTools
    <2>3. ToSet(q.tools) # {}
      <3>1. Len(q.tools) \in Nat /\ Len(q.tools) # 0
        BY <2>2, LenProperties, EmptySeq
      <3>2. 1 \in 1..Len(q.tools)
        BY <3>1
      <3>3. q.tools[1] \in ToSet(q.tools)
        BY <3>2 DEF ToSet
      <3> QED BY <3>3
    <2> QED BY <1>3, <2>3
  <1>5. CASE wantsTools(q) /\ toolNames(q.tools) # {}
    <2> DEFINE ins == ToolInstruction(q)
    <2>1. WithTools(q, a) = Instructed(a, ins)
      BY <1>5 DEF WithTools
    <2> HIDE DEF ins
    <2>2. ins \in Seq(Instructions) /\ ins # <<>> /\ CountIn(ins, "tools") = 1 /\ CountIn(ins, "json") = 0
      BY <1>3 DEF ins
    <2>3. \E e : Adds(Instructed(a, ins), a, e)
      BY <2>2, InstructedIs
    <2>4. /\ CountIn(Said(Instructed(a, ins)), "json") = CountIn(Said(a), "json") + CountIn(ins, "json")
          /\ CountIn(Said(Instructed(a, ins)), "tools") = CountIn(Said(a), "tools") + CountIn(ins, "tools")
      BY <2>2, InstructedCounts
    <2> QED BY <1>2, <1>4, <1>5, <2>1, <2>2, <2>3, <2>4
  <1>6. CASE ~(wantsTools(q) /\ toolNames(q.tools) # {})
    <2>1. WithTools(q, a) = a
      BY <1>6 DEF WithTools
    <2>2. \E e : Adds(a, a, e)
      BY AddsNothing
    <2> QED BY <1>2, <1>4, <1>6, <2>1, <2>2
  <1> QED BY <1>5, <1>6

(* What parseChatRequest sends on: the messages, with the instructions the *)
(* client asked for.                                                       *)
LEMMA SentIs ==
  ASSUME NEW q, ChatRequest(q)
  PROVE  /\ q.messages \in Seq(WideMessage)
         /\ \E e : Adds(Sent(q), q.messages, e)
         /\ CountIn(Said(Sent(q)), "json")
              = CountIn(Said(q.messages), "json") + IF q.json /\ ~ToldJson(q.messages) THEN 1 ELSE 0
         /\ CountIn(Said(Sent(q)), "tools") = CountIn(Said(q.messages), "tools")
              + IF wantsTools(q) /\ ToSet(q.tools) # {"nameless"} THEN 1 ELSE 0
  <1>1. q.messages \in Seq(WideMessage)
    <2>1. Seq(STRING) \subseteq Seq(Alphabet)
      <3>1. STRING \subseteq Alphabet
        BY DEF Alphabet
      <3> QED BY <3>1, SeqMonotonic
    <2>2. Message \subseteq WideMessage
      BY <2>1 DEF Message, WideMessage
    <2>3. Seq(Message) \subseteq Seq(WideMessage)
      BY <2>2, SeqMonotonic
    <2> QED BY <2>3 DEF ChatRequest
  <1> DEFINE a == q.messages
             b == WithJsonMode(q, a)
             c == WithTools(q, b)
  <1>2. q.tools \in Seq(Tools \cup {"nameless"}) /\ q.tool_choice \in ToolChoices
    BY DEF ChatRequest
  <1>3. /\ \E e : Adds(b, a, e)
        /\ CountIn(Said(b), "json") = CountIn(Said(a), "json") + IF q.json /\ ~ToldJson(a) THEN 1 ELSE 0
        /\ CountIn(Said(b), "tools") = CountIn(Said(a), "tools")
    BY <1>1, JsonModeIs
  <1> HIDE DEF b
  <1>4. PICK e : Adds(b, a, e)
    BY <1>3
  <1>5. b \in Seq(WideMessage)
    BY <1>4 DEF Adds
  <1>6. /\ \E f : Adds(c, b, f)
        /\ CountIn(Said(c), "json") = CountIn(Said(b), "json")
        /\ CountIn(Said(c), "tools") = CountIn(Said(b), "tools")
             + IF wantsTools(q) /\ ToSet(q.tools) # {"nameless"} THEN 1 ELSE 0
    BY <1>2, <1>5, ToolsModeIs
  <1>7. \E g : Adds(c, a, g)
    BY <1>4, <1>6, AddsMore
  <1>8. Sent(q) = c
    BY DEF Sent, b
  <1> QED BY <1>1, <1>3, <1>6, <1>7, <1>8

LEMMA InstructionsApart == Instructions \cap Template = {}
  BY ImagesAre DEF Instructions, Tools, Template

LEMMA AskedIs ==
  ASSUME NEW q, ChatRequest(q), NEW i \in 1..Len(q.messages)
  PROVE  /\ q.messages[i] \in WideMessage /\ q.messages[i].text \in Seq(Alphabet)
         /\ ToSet(q.messages[i].text) \cap Template = {}
         /\ q.messages[i].files = <<>> => q.messages[i].text # <<>>
         /\ Len(q.messages[i].files) <= Len(ImageNames)
  <1> DEFINE m == q.messages[i]
  <1>1. m \in WideMessage /\ m.text \in Seq(Alphabet)
    BY SentIs, MessageOf
  <1>2. WellFormed(m)
    BY DEF ChatRequest
  <1> HIDE DEF m
  <1>3. m.files = <<>> => m.text # <<>>
    <2>1. SUFFICES ASSUME m.files = <<>> PROVE m.text # <<>>
      OBVIOUS
    <2>2. \E k \in 1..Len(m.text) : m.text[k] # Blank
      BY <1>2, <2>1 DEF WellFormed
    <2>3. 1..Len(m.text) # {}
      BY <2>2
    <2>4. Len(m.text) \in Nat
      BY <1>1, LenProperties
    <2> QED BY <2>3, <2>4, EmptySeq
  <1>4. ToSet(m.text) \cap Template = {}
    BY <1>2 DEF WellFormed
  <1>5. Len(m.files) <= Len(ImageNames)
    BY <1>2 DEF WellFormed
  <1> QED BY <1>1, <1>3, <1>4, <1>5 DEF m

LEMMA SentMessages ==
  ASSUME NEW q, ChatRequest(q), NEW b, NEW e, Adds(b, q.messages, e), NEW j \in 1..Len(b)
  PROVE  IsMessage(b[j])
  <1> DEFINE a == q.messages
             m == b[j]
  <1>1. /\ e \in {0, 1} /\ a \in Seq(WideMessage) /\ b \in Seq(WideMessage) /\ Len(b) = Len(a) + e
        /\ Len(a) \in Nat
    BY LenProperties DEF Adds
  <1>2. m \in WideMessage
    BY <1>1, MessageOf
  <1>3. CASE e = 1 /\ j = 1
    <2>1. m.text \in Seq(Instructions) \ {<<>>} /\ m.files = <<>>
      BY <1>3 DEF Adds
    <2>2. ToSet(m.text) \subseteq Instructions
      BY <2>1, ElementOfSeq DEF ToSet
    <2>4. Len(m.files) <= Len(ImageNames)
      BY <2>1, ImagesAre
    <2> HIDE DEF m
    <2>3. IsMessage(m)
      BY <1>2, <2>1, <2>2, <2>4, InstructionsApart DEF IsMessage, WideMessage
    <2> QED BY <2>3 DEF m
  <1>4. CASE ~(e = 1 /\ j = 1)
    <2>1. PICK i \in 1..Len(a) : j = i + e
      <3>1. j - e \in 1..Len(a) /\ j = (j - e) + e
        BY <1>1, <1>4
      <3> QED BY <3>1
    <2>2. m.files = a[i].files
      BY <2>1 DEF Adds
    <2>3. PICK w \in Seq(Instructions) : m.text = a[i].text \o w
      BY <2>1 DEF Adds
    <2> DEFINE text == a[i].text
    <2>4. text \in Seq(Alphabet) /\ ToSet(text) \cap Template = {} /\ (m.files = <<>> => text # <<>>)
      BY <2>1, <2>2, AskedIs
    <2>0. Len(m.files) <= Len(ImageNames)
      BY <2>1, <2>2, AskedIs
    <2>5. w \in Seq(Alphabet) /\ ToSet(w) \subseteq Instructions
      <3>1. ToSet(w) \subseteq Instructions
        BY <2>3, ElementOfSeq DEF ToSet
      <3> QED BY <2>3, <3>1, InstructionsAreLetters
    <2>6. m.text = text \o w
      BY <2>3
    <2> HIDE DEF text, m, a
    <2>7. ToSet(text \o w) = ToSet(text) \cup ToSet(w) /\ Len(text \o w) = Len(text) + Len(w)
          /\ Len(text) \in Nat /\ Len(w) \in Nat
      BY <2>4, <2>5, ConcatSet, ConcatProperties, LenProperties
    <2>8. ToSet(m.text) \cap Template = {}
      BY <2>4, <2>5, <2>6, <2>7, InstructionsApart
    <2>9. m.files = <<>> => m.text # <<>>
      <3>1. SUFFICES ASSUME m.files = <<>> PROVE m.text # <<>>
        OBVIOUS
      <3>2. Len(text) # 0
        BY <2>4, <3>1, EmptySeq
      <3>3. Len(m.text) # 0
        BY <2>6, <2>7, <3>2
      <3> QED BY <3>3
    <2>10. IsMessage(m)
      BY <1>2, <2>0, <2>8, <2>9 DEF IsMessage, WideMessage
    <2> QED BY <2>10 DEF m
  <1> QED BY <1>3, <1>4

(* The turns of the prompt are those of the messages.                      *)
Parts(b) == [i \in 1..Len(b) |-> Turn(i, b[i])]

LEMMA PartsAre ==
  ASSUME NEW b \in Seq(WideMessage), \A j \in 1..Len(b) : IsMessage(b[j])
  PROVE  /\ Parts(b) \in Seq(Seq(Alphabet)) /\ Len(Parts(b)) = Len(b)
         /\ \A i \in 1..Len(b) : Parts(b)[i] = Turn(i, b[i]) /\ TurnIs(Parts(b)[i], b[i])
         /\ TurnsOf(messagesToPrompt(b)) = Parts(b)
  <1> DEFINE parts == Parts(b)
             n == Len(b)
  <1>1. n \in Nat
    BY LenProperties
  <1>2. \A i \in 1..n : TurnIs(Turn(i, b[i]), b[i]) /\ (i > 1 => Turn(i, b[i])[1] \in RoleMarkers)
    <2>1. \A i \in 1..n : i \in Nat \ {0} /\ IsMessage(b[i])
      BY <1>1
    <2> QED BY <2>1, TurnOf
  <1>3. \A i \in 1..n : Turn(i, b[i]) \in Seq(Alphabet) /\ OneTurn(Turn(i, b[i]))
    BY <1>2 DEF TurnIs
  <1>4. parts \in Seq(Seq(Alphabet)) /\ Len(parts) = n
    BY <1>1, <1>3, IsASeq DEF Parts
  <1>5. \A i \in 1..n : parts[i] = Turn(i, b[i])
    BY DEF Parts
  <1>6. messagesToPrompt(b) = FlattenSeq(parts)
    BY DEF messagesToPrompt, Parts
  <1> HIDE DEF parts, n
  <1>7. \A i \in 1..Len(parts) : OneTurn(parts[i])
    BY <1>3, <1>4, <1>5
  <1>8. \A i \in 2..Len(parts) : parts[i][1] \in RoleMarkers
    <2>1. \A i \in 2..n : i \in 1..n /\ i > 1
      BY <1>1
    <2> QED BY <1>2, <1>4, <1>5, <2>1
  <1>9. TurnsOf(FlattenSeq(parts)) = parts
    BY <1>4, <1>7, <1>8, TurnsReadBack
  <1> QED BY <1>2, <1>4, <1>5, <1>6, <1>9 DEF parts, n

(* A word is in the prompt as often as it was said.                        *)
LEMMA PromptCount ==
  ASSUME NEW b \in Seq(WideMessage), \A j \in 1..Len(b) : IsMessage(b[j]),
         NEW symbol \in Alphabet \ Around
  PROVE  Count(messagesToPrompt(b), symbol) = CountIn(Said(b), symbol)
  <1> DEFINE out == Alphabet \ {symbol}
             parts == Parts(b)
             texts == [i \in 1..Len(b) |-> b[i].text]
  <1>1. Around \subseteq out
    BY InAlphabet
  <1>2. /\ parts \in Seq(Seq(Alphabet)) /\ Len(parts) = Len(b)
        /\ \A i \in 1..Len(b) : TurnIs(parts[i], b[i])
    BY PartsAre
  <1>3. texts \in Seq(Seq(Alphabet)) /\ Len(texts) = Len(b) /\ \A i \in 1..Len(b) : texts[i] = b[i].text
    BY SaidIs
  <1>4. messagesToPrompt(b) = FlattenSeq(parts) /\ Said(b) = FlattenSeq(texts)
    BY DEF messagesToPrompt, Parts, Said
  <1>5. FlattenSeq(parts) \in Seq(Alphabet)
    BY <1>2, FlattenIsSeq
  <1> HIDE DEF out, parts, texts
  <1>6. \A i \in 1..Len(b) : Without(parts[i], out) = Without(texts[i], out)
    BY <1>1, <1>2, <1>3 DEF TurnIs
  <1>7. /\ Without(FlattenSeq(parts), out) = FlattenSeq([i \in 1..Len(parts) |-> Without(parts[i], out)])
        /\ Without(FlattenSeq(texts), out) = FlattenSeq([i \in 1..Len(texts) |-> Without(texts[i], out)])
    BY <1>2, <1>3, FlattenWithout
  <1>8. [i \in 1..Len(parts) |-> Without(parts[i], out)] = [i \in 1..Len(texts) |-> Without(texts[i], out)]
    BY <1>2, <1>3, <1>6
  <1>9. CountIn(messagesToPrompt(b), symbol) = CountIn(Said(b), symbol)
    BY <1>4, <1>7, <1>8 DEF CountIn, out
  <1> QED BY <1>4, <1>5, <1>9, CountIs

LEMMA AllFilesAre ==
  ASSUME NEW a \in Seq(WideMessage)
  PROVE  /\ AllFiles(a) \in Seq(Media)
         /\ ToSet(AllFiles(a)) = UNION {ToSet(a[i].files) : i \in 1..Len(a)}
  <1> DEFINE lists == [i \in 1..Len(a) |-> a[i].files]
  <1>1. \A i \in 1..Len(a) : a[i].files \in Seq(Media)
    BY MessageOf DEF WideMessage
  <1>2. lists \in Seq(Seq(Media)) /\ Len(lists) = Len(a)
    BY <1>1, LenProperties, IsASeq
  <1>3. \A i \in 1..Len(a) : lists[i] = a[i].files
    OBVIOUS
  <1>4. AllFiles(a) = FlattenSeq(lists)
    BY DEF AllFiles
  <1> HIDE DEF lists
  <1>5. FlattenSeq(lists) \in Seq(Media) /\ ToSet(FlattenSeq(lists)) = UNION {ToSet(lists[i]) : i \in 1..Len(lists)}
    BY <1>2, FlattenIsSeq, FlattenToSet
  <1>6. {ToSet(lists[i]) : i \in 1..Len(lists)} = {ToSet(a[i].files) : i \in 1..Len(a)}
    BY <1>2, <1>3
  <1> QED BY <1>4, <1>5, <1>6

(* Each file once.                                                         *)
LEMMA DistinctNext ==
  ASSUME NEW S, NEW files \in Seq(S), NEW x \in S
  PROVE  Distinct(Append(files, x))
           = IF Holds(files, x.data) THEN Distinct(files) ELSE Distinct(files) \o <<x>>
  <1> DEFINE Part(s, i) == IF Holds(SubSeq(s, 1, i - 1), s[i].data) THEN <<>> ELSE <<s[i]>>
             more == Append(files, x)
             n == Len(files)
             old == [i \in 1..n |-> Part(files, i)]
             new == [i \in 1..(n + 1) |-> Part(more, i)]
             last == IF Holds(files, x.data) THEN <<>> ELSE <<x>>
  <1>1. /\ more \in Seq(S) /\ Len(more) = n + 1 /\ n \in Nat
        /\ more[n + 1] = x /\ \A i \in 1..n : more[i] = files[i] /\ files[i] \in S
    BY AppendProperties, LenProperties, ElementOfSeq
  <1>2. Distinct(files) = FlattenSeq(old)
    BY DEF Distinct
  <1>3. Distinct(more) = FlattenSeq(new)
    BY <1>1 DEF Distinct
  <1> HIDE DEF more, n
  <1>4. ASSUME NEW i \in 1..(n + 1) PROVE SubSeq(more, 1, i - 1) = SubSeq(files, 1, i - 1)
    <2> DEFINE left == SubSeq(more, 1, i - 1)
               right == SubSeq(files, 1, i - 1)
               k == i - 1
    <2>1. k \in 0..n /\ 1 \in 1..(n + 1) /\ 1 \in 1..(n + 1 + 1) /\ k \in 0..(n + 1) /\ 1 <= k + 1 /\ k - 1 + 1 = k
          /\ \A j \in 1..k : 1 + j - 1 = j /\ j \in 1..n
      BY <1>1
    <2> HIDE DEF k
    <2>2. /\ SubSeq(more, 1, k) \in Seq(S) /\ Len(SubSeq(more, 1, k)) = k - 1 + 1
          /\ \A j \in 1..(k - 1 + 1) : SubSeq(more, 1, k)[j] = more[1 + j - 1]
      BY <1>1, <2>1, SubSeqIs
    <2>3. /\ SubSeq(files, 1, k) \in Seq(S) /\ Len(SubSeq(files, 1, k)) = k - 1 + 1
          /\ \A j \in 1..(k - 1 + 1) : SubSeq(files, 1, k)[j] = files[1 + j - 1]
      BY <1>1, <2>1, SubSeqIs DEF n
    <2>4. \A j \in 1..k : SubSeq(more, 1, k)[j] = SubSeq(files, 1, k)[j]
      <3>1. ASSUME NEW j \in 1..k PROVE SubSeq(more, 1, k)[j] = SubSeq(files, 1, k)[j]
        <4>1. 1 + j - 1 = j /\ j \in 1..n /\ j \in 1..(k - 1 + 1)
          BY <2>1
        <4>2. SubSeq(more, 1, k)[j] = more[j] /\ SubSeq(files, 1, k)[j] = files[j]
          BY <2>2, <2>3, <4>1
        <4> QED BY <1>1, <4>1, <4>2
      <3> QED BY <3>1
    <2> DEFINE u == SubSeq(more, 1, k)
               v == SubSeq(files, 1, k)
    <2>5. u \in Seq(S) /\ v \in Seq(S) /\ Len(u) = k /\ Len(v) = k /\ \A j \in 1..k : u[j] = v[j]
      BY <2>1, <2>2, <2>3, <2>4
    <2> HIDE DEF u, v
    <2>6. u = v
      BY <2>5, SeqEqual
    <2> QED BY <2>6 DEF u, v, k
  <1>5. \A i \in 1..n : Part(more, i) = Part(files, i)
    <2>1. ASSUME NEW i \in 1..n PROVE Part(more, i) = Part(files, i)
      <3>1. SubSeq(more, 1, i - 1) = SubSeq(files, 1, i - 1)
        BY <1>1, <1>4
      <3> QED BY <1>1, <3>1
    <2> QED BY <2>1
  <1>6. Part(more, n + 1) = last
    <2>1. SubSeq(more, 1, (n + 1) - 1) = SubSeq(files, 1, n)
      <3>1. n + 1 \in 1..(n + 1) /\ (n + 1) - 1 = n
        BY <1>1
      <3>2. SubSeq(more, 1, (n + 1) - 1) = SubSeq(files, 1, (n + 1) - 1)
        BY <1>4, <3>1
      <3> QED BY <3>1, <3>2
    <2>2. SubSeq(files, 1, n) = files
      <3> DEFINE whole == SubSeq(files, 1, n)
      <3>1. whole \in Seq(S) /\ Len(whole) = n - 1 + 1 /\ \A j \in 1..(n - 1 + 1) : whole[j] = files[1 + j - 1]
        <4>1. 1 \in 1..(n + 1) /\ n \in 0..n /\ 1 <= n + 1
          BY <1>1
        <4> QED BY <1>1, <4>1, SubSeqIs DEF n
      <3>2. n - 1 + 1 = n /\ \A j \in 1..n : 1 + j - 1 = j
        BY <1>1
      <3> HIDE DEF whole
      <3>3. Len(whole) = n /\ \A j \in 1..n : whole[j] = files[j]
        BY <3>1, <3>2
      <3>4. whole = files
        BY <3>1, <3>3, SeqEqual DEF n
      <3> QED BY <3>4 DEF whole
    <2> QED BY <1>1, <2>1, <2>2
  <1>7. \A i \in 1..(n + 1) : Part(more, i) \in Seq(S)
    <2>1. ASSUME NEW i \in 1..(n + 1) PROVE Part(more, i) \in Seq(S)
      <3>1. more[i] \in S
        BY <1>1, ElementOfSeq
      <3>2. <<more[i]>> \in Seq(S) /\ <<>> \in Seq(S)
        BY <3>1, EmptySeq
      <3> QED BY <3>2
    <2> QED BY <2>1
  <1>8. last \in Seq(S)
    BY EmptySeq
  <1> HIDE DEF Part
  <1>9. new \in Seq(Seq(S)) /\ Len(new) = n + 1
    <2>1. n + 1 \in Nat
      BY <1>1
    <2> QED BY <1>7, <2>1, IsASeq
  <1>10. old \in Seq(Seq(S)) /\ Len(old) = n
    <2>1. \A i \in 1..n : Part(files, i) \in Seq(S)
      <3>1. \A i \in 1..n : i \in 1..(n + 1)
        BY <1>1
      <3> QED BY <1>5, <1>7, <3>1
    <2> QED BY <1>1, <2>1, IsASeq
  <1>11. \A i \in 1..(n + 1) : new[i] = IF i = n + 1 THEN last ELSE old[i]
    <2>1. \A i \in 1..(n + 1) : i = n + 1 \/ i \in 1..n
      BY <1>1
    <2> HIDE DEF last
    <2> QED BY <1>5, <1>6, <2>1
  <1> DEFINE right == Append(old, last)
  <1> HIDE DEF old, new, last
  <1>12. /\ right \in Seq(Seq(S)) /\ Len(right) = n + 1
         /\ right[n + 1] = last /\ \A i \in 1..n : right[i] = old[i]
    BY <1>8, <1>10, AppendProperties
  <1> HIDE DEF right
  <1>13. \A i \in 1..(n + 1) : new[i] = right[i]
    <2>1. \A i \in 1..(n + 1) : i = n + 1 \/ (i \in 1..n /\ i # n + 1)
      BY <1>1
    <2> QED BY <1>11, <1>12, <2>1
  <1>14. new = right
    BY <1>9, <1>12, <1>13, SeqEqual
  <1>15. FlattenSeq(right) = FlattenSeq(old) \o last
    BY <1>8, <1>10, FlattenNext DEF right
  <1>16. FlattenSeq(old) \in Seq(S)
    BY <1>10, FlattenIsSeq
  <1>17. Distinct(more) = Distinct(files) \o last /\ Distinct(files) \in Seq(S)
    BY <1>2, <1>3, <1>14, <1>15, <1>16
  <1>18. Distinct(files) \o <<>> = Distinct(files)
    BY <1>17, ConcatEmptySeq
  <1> QED BY <1>17, <1>18 DEF more, last

(* The content of every file, each once, and no other.                     *)
LEMMA DistinctIs ==
  ASSUME NEW S, NEW files \in Seq(S)
  PROVE  /\ Distinct(files) \in Seq(S) /\ ToSet(Distinct(files)) \subseteq ToSet(files)
         /\ \A f \in ToSet(files) : Holds(Distinct(files), f.data)
         /\ \A i, j \in 1..Len(Distinct(files)) : Distinct(files)[i].data = Distinct(files)[j].data => i = j
  <1> DEFINE Single(s) == \A i, j \in 1..Len(s) : s[i].data = s[j].data => i = j
             Whole(d, s) == \A f \in ToSet(s) : Holds(d, f.data)
             T == {s \in Seq(S) : /\ Distinct(s) \in Seq(S) /\ ToSet(Distinct(s)) \subseteq ToSet(s)
                                  /\ Whole(Distinct(s), s) /\ Single(Distinct(s))}
  <1>1. <<>> \in T
    <2>1. Distinct(<<>>) = FlattenSeq(<<>>)
      <3>1. [n \in 1..Len(<<>>) |-> IF Holds(SubSeq(<<>>, 1, n - 1), <<>>[n].data) THEN <<>> ELSE <<<<>>[n]>>] = <<>>
        OBVIOUS
      <3> QED BY <3>1 DEF Distinct
    <2>2. Distinct(<<>>) = <<>> /\ <<>> \in Seq(S) /\ Single(<<>>) /\ ToSet(<<>>) = {}
      BY <2>1, FlattenEmpty, EmptySeq, EmptySet
    <2> HIDE DEF Single
    <2> QED BY <2>2
  <1>2. ASSUME NEW s \in Seq(S), NEW x \in S, s \in T PROVE Append(s, x) \in T
    <2> DEFINE d == Distinct(s)
               e == Distinct(Append(s, x))
    <2>1. e = IF Holds(s, x.data) THEN d ELSE d \o <<x>>
      BY DistinctNext
    <2>2. d \in Seq(S) /\ ToSet(d) \subseteq ToSet(s) /\ Whole(d, s) /\ Single(d)
      BY <1>2
    <2>3. Append(s, x) \in Seq(S) /\ ToSet(Append(s, x)) = ToSet(s) \cup {x}
      BY SetOfAppended
    <2> HIDE DEF d, e
    <2>4. CASE Holds(s, x.data)
      <3>1. PICK n \in 1..Len(s) : s[n].data = x.data
        BY <2>4 DEF Holds
      <3>2. s[n] \in ToSet(s)
        BY <3>1 DEF ToSet
      <3>3. Holds(d, x.data)
        BY <2>2, <3>1, <3>2
      <3>4. Whole(d, Append(s, x))
        BY <2>2, <2>3, <3>3
      <3> QED BY <2>1, <2>2, <2>3, <2>4, <3>4 DEF d, e
    <2>5. CASE ~Holds(s, x.data)
      <3>1. e = Append(d, x)
        BY <2>1, <2>2, <2>5, AppendIsConcat
      <3>2. e \in Seq(S) /\ ToSet(e) = ToSet(d) \cup {x}
        BY <2>2, <3>1, SetOfAppended
      <3>3. /\ Len(e) = Len(d) + 1 /\ Len(d) \in Nat
            /\ e[Len(d) + 1] = x /\ \A i \in 1..Len(d) : e[i] = d[i]
        BY <2>2, <3>1, AppendProperties, LenProperties
      <3>4. ASSUME NEW i \in 1..Len(d) PROVE d[i].data # x.data
        <4>1. d[i] \in ToSet(s)
          <5>1. d[i] \in ToSet(d)
            BY DEF ToSet
          <5> QED BY <2>2, <5>1
        <4>2. PICK n \in 1..Len(s) : d[i] = s[n]
          BY <4>1 DEF ToSet
        <4> QED BY <2>5, <4>2 DEF Holds
      <3>5. Single(e)
        <4>1. \A i \in 1..Len(e) : i = Len(d) + 1 \/ i \in 1..Len(d)
          BY <3>3
        <4> QED BY <2>2, <3>3, <3>4, <4>1
      <3>6. Whole(e, Append(s, x))
        <4>1. 1..Len(d) \subseteq 1..Len(e) /\ Len(d) + 1 \in 1..Len(e)
          BY <3>3
        <4>2. \A v : Holds(d, v) => Holds(e, v)
          BY <3>3, <4>1 DEF Holds
        <4>3. Holds(e, x.data)
          BY <3>3, <4>1 DEF Holds
        <4> QED BY <2>2, <2>3, <4>2, <4>3
      <3> HIDE DEF Single, Whole
      <3> QED BY <2>2, <2>3, <3>2, <3>5, <3>6 DEF e
    <2> QED BY <2>4, <2>5
  <1>3. files \in T
    BY <1>1, <1>2, SeqSets
  <1> QED BY <1>3

(* What is uploaded for messages: every content, each once, by the name of *)
(* a part that holds it.                                                   *)
Uploads(a) == [n \in 1..Len(Distinct(AllFiles(a))) |-> Upload(Distinct(AllFiles(a))[n])]

LEMMA UploadsAre ==
  ASSUME NEW a \in Seq(WideMessage)
  PROVE  /\ \A i \in 1..Len(a) : \A k \in 1..Len(a[i].files) : Holds(Uploads(a), a[i].files[k].data)
         /\ \A i, j \in 1..Len(Uploads(a)) : Uploads(a)[i].data = Uploads(a)[j].data => i = j
         /\ \A n \in 1..Len(Uploads(a)) : \E i \in 1..Len(a) : \E k \in 1..Len(a[i].files) :
              NamedAfter(Uploads(a)[n], a[i], k)
  <1> DEFINE all == AllFiles(a)
             once == Distinct(all)
             files == Uploads(a)
  <1>1. all \in Seq(Media) /\ ToSet(all) = UNION {ToSet(a[i].files) : i \in 1..Len(a)}
    BY AllFilesAre
  <1>2. /\ once \in Seq(Media) /\ ToSet(once) \subseteq ToSet(all)
        /\ \A f \in ToSet(all) : Holds(once, f.data)
        /\ \A i, j \in 1..Len(once) : once[i].data = once[j].data => i = j
    BY <1>1, DistinctIs
  <1>3. Len(files) = Len(once) /\ \A n \in 1..Len(once) : files[n] = Upload(once[n])
    <2>1. files = [n \in 1..Len(once) |-> Upload(once[n])]
      BY DEF Uploads
    <2>2. Len(once) \in Nat
      BY <1>2, LenProperties
    <2> HIDE DEF files, once
    <2> QED BY <2>1, <2>2
  <1> HIDE DEF all, once, files
  <1>4. \A n \in 1..Len(once) : files[n].data = once[n].data
    <2>1. ASSUME NEW part PROVE Upload(part).data = part.data
      BY DEF Upload
    <2> QED BY <1>3, <2>1
  <1>5. ASSUME NEW i \in 1..Len(a), NEW k \in 1..Len(a[i].files) PROVE Holds(files, a[i].files[k].data)
    <2>1. a[i].files[k] \in ToSet(a[i].files)
      BY DEF ToSet
    <2>2. Holds(once, a[i].files[k].data)
      BY <1>1, <1>2, <2>1
    <2> QED BY <1>3, <1>4, <2>2 DEF Holds
  <1>6. \A i, j \in 1..Len(files) : files[i].data = files[j].data => i = j
    BY <1>2, <1>3, <1>4
  <1>7. ASSUME NEW n \in 1..Len(files)
        PROVE  \E i \in 1..Len(a) : \E k \in 1..Len(a[i].files) : NamedAfter(files[n], a[i], k)
    <2>1. once[n] \in ToSet(all)
      <3>1. once[n] \in ToSet(once)
        BY <1>3 DEF ToSet
      <3> QED BY <1>2, <3>1
    <2>2. PICK i \in 1..Len(a) : once[n] \in ToSet(a[i].files)
      BY <1>1, <2>1
    <2>3. PICK k \in 1..Len(a[i].files) : a[i].files[k] = once[n]
      BY <2>2 DEF ToSet
    <2> DEFINE m == a[i]
               part == once[n]
    <2>4. m.files[k] = part /\ k \in 1..Len(m.files)
      BY <2>3
    <2>5. files[n] = Upload(part)
      BY <1>3
    <2> HIDE DEF m, part
    <2>6. files[n].data = part.data
          /\ files[n].name = safeMediaFilename(mediaPartFilename(part, part.place), part.data.suffix)
      BY <2>5 DEF Upload
    <2>7. Called(m)[k] = mediaPartFilename(part, k)
      BY <2>4 DEF Called
    <2>8. part.name # Unnamed \/ part.place = k => mediaPartFilename(part, part.place) = mediaPartFilename(part, k)
      BY DEF mediaPartFilename
    <2>9. NamedAfter(files[n], m, k)
      BY <2>4, <2>6, <2>7, <2>8 DEF NamedAfter
    <2> QED BY <2>9 DEF m
  <1> QED BY <1>5, <1>6, <1>7 DEF files

LEMMA PrefixOfLonger ==
  ASSUME NEW S, NEW s \in Seq(S), NEW t \in Seq(S)
  PROVE  IsPrefix(s, s \o t)
  <1> DEFINE n == Len(s)
             all == s \o t
             m == Len(all)
             left == SubSeq(s, 1, n)
             right == SubSeq(all, 1, n)
  <1>1. /\ all \in Seq(S) /\ n \in Nat /\ m \in Nat /\ n <= m
        /\ \A i \in 1..n : all[i] = s[i]
    <2>1. /\ s \o t \in Seq(S) /\ Len(s \o t) = Len(s) + Len(t) /\ Len(s) \in Nat /\ Len(t) \in Nat
          /\ \A i \in 1..(Len(s) + Len(t)) : (s \o t)[i] = IF i <= Len(s) THEN s[i] ELSE t[i - Len(s)]
      BY ConcatProperties, LenProperties
    <2> QED BY <2>1
  <1> HIDE DEF n, m, all
  <1>2. /\ 1 \in 1..(n + 1) /\ n \in 0..n /\ 1 <= n + 1 /\ 1 \in 1..(m + 1) /\ n \in 0..m
        /\ n - 1 + 1 = n /\ \A i \in 1..n : 1 + i - 1 = i
    BY <1>1
  <1>3. /\ left \in Seq(S) /\ Len(left) = n - 1 + 1
        /\ \A i \in 1..(n - 1 + 1) : left[i] = s[1 + i - 1]
    BY <1>1, <1>2, SubSeqIs DEF n
  <1>4. /\ right \in Seq(S) /\ Len(right) = n - 1 + 1
        /\ \A i \in 1..(n - 1 + 1) : right[i] = all[1 + i - 1]
    BY <1>1, <1>2, SubSeqIs DEF m
  <1> HIDE DEF left, right
  <1>5. Len(left) = n /\ Len(right) = n /\ \A i \in 1..n : left[i] = s[i] /\ right[i] = all[i]
    BY <1>2, <1>3, <1>4
  <1>6. \A i \in 1..n : left[i] = right[i]
    BY <1>1, <1>5
  <1>7. left = right
    BY <1>3, <1>4, <1>5, <1>6, SeqEqual
  <1> QED BY <1>1, <1>7 DEF IsPrefix, left, right, n, m, all

(* A message's turn says its words, and instructions only after a system's.*)
LEMMA TurnTells ==
  ASSUME NEW asked \in WideMessage, ToSet(asked.text) \cap Template = {},
         NEW sent, sent.role = asked.role, sent.files = asked.files,
         NEW w \in Seq(Instructions), sent.text = asked.text \o w,
         asked.role # "system" => w = <<>>,
         NEW turn, TurnIs(turn, sent)
  PROVE  /\ SpeakerOf(turn) = "assistant" <=> asked.role = "assistant"
         /\ Last(turn) = "<End>" <=> asked.role = "assistant"
         /\ IsPrefix(Words(asked), Spoken(turn))
         /\ asked.role # "system" => Spoken(turn) = Words(asked)
         /\ Listed(turn) = Called(asked)
  <1> DEFINE text == asked.text
             words == Without(text, Around)
             more == Without(w, Around)
  <1>1. text \in Seq(Alphabet) /\ ToSet(text) \cap Template = {}
    BY DEF WideMessage
  <1>2. w \in Seq(Alphabet)
    BY InstructionsAreLetters
  <1>3. /\ turn \in Seq(Alphabet) /\ turn # <<>>
        /\ turn[1] = "<Assistant>" <=> sent.role = "assistant"
        /\ turn[Len(turn)] = "<End>" <=> sent.role = "assistant"
        /\ NamesIn(turn) = Called(sent)
        /\ Without(turn, Around) = Without(sent.text, Around)
    BY DEF TurnIs, OneTurn
  <1>13. Listed(turn) = Called(asked)
    <2>1. Called(sent) = Called(asked)
      BY DEF Called
    <2> QED BY <1>3, <2>1, ListedIs
  <1> HIDE DEF text
  <1>4. Spoken(turn) = words \o more
    <2>1. Spoken(turn) = Without(turn, Around)
      BY DEF Spoken, Around
    <2>2. Without(text \o w, Around) = words \o more
      BY <1>1, <1>2, WithoutConcat
    <2> QED BY <1>3, <2>1, <2>2 DEF text
  <1>5. Words(asked) = words
    <2>1. Words(asked) = Without(text, Markers \cup {Blank})
      BY DEF Words, text
    <2>2. \A x \in ToSet(text) : x \in Markers \cup {Blank} <=> x \in Around
      BY <1>1 DEF Around
    <2> DEFINE out == Markers \cup {Blank}
    <2>3. \A x \in ToSet(text) : x \in out <=> x \in Around
      BY <2>2
    <2> HIDE DEF out
    <2>4. Without(text, out) = Without(text, Around)
      BY <1>1, <2>3, WithoutSame
    <2> QED BY <2>1, <2>4 DEF out
  <1>6. words \in Seq(Alphabet) /\ more \in Seq(Alphabet)
    BY <1>1, <1>2, WithoutIs
  <1>7. w = <<>> => more = <<>>
    BY WithoutEmpty
  <1> HIDE DEF words, more
  <1>8. IsPrefix(words, words \o more) /\ words \o <<>> = words
    BY <1>6, PrefixOfLonger, ConcatEmptySeq
  <1>9. Head(turn) = turn[1]
    BY <1>3
  <1>10. SpeakerOf(turn) = "assistant" <=> turn[1] = "<Assistant>"
    BY <1>9 DEF SpeakerOf
  <1>11. Last(turn) = turn[Len(turn)]
    BY DEF Last
  <1>12. asked.role # "system" => Spoken(turn) = Words(asked)
    BY <1>4, <1>5, <1>7, <1>8
  <1> QED BY <1>3, <1>4, <1>5, <1>8, <1>10, <1>11, <1>12, <1>13

LEMMA PromptTells ==
  ASSUME NEW q, ChatRequest(q)
  PROVE  Tells(q, messagesToPrompt(Sent(q)), Uploads(q.messages))
  <1> DEFINE a == q.messages
             b == Sent(q)
             text == messagesToPrompt(b)
             files == Uploads(a)
             listed == wantsTools(q) /\ ToSet(q.tools) # {"nameless"}
  <1>1. PICK e : Adds(b, a, e)
    BY SentIs
  <1>2. /\ CountIn(Said(b), "json") = CountIn(Said(a), "json") + IF q.json /\ ~ToldJson(a) THEN 1 ELSE 0
        /\ CountIn(Said(b), "tools") = CountIn(Said(a), "tools") + IF listed THEN 1 ELSE 0
    BY SentIs
  <1>3. \A j \in 1..Len(b) : IsMessage(b[j])
    BY <1>1, SentMessages
  <1>4. /\ e \in {0, 1} /\ a \in Seq(WideMessage) /\ b \in Seq(WideMessage) /\ Len(b) = Len(a) + e
        /\ Len(a) \in Nat
        /\ e = 1 => \A i \in 1..Len(a) : a[i].role # "system"
    BY <1>1, LenProperties DEF Adds
  <1> HIDE DEF b, listed
  <1>5. /\ TurnsOf(text) = Parts(b) /\ Len(Parts(b)) = Len(b)
        /\ \A j \in 1..Len(b) : TurnIs(Parts(b)[j], b[j])
    BY <1>3, <1>4, PartsAre
  <1>6. \A i \in 1..Len(a) : a[i] \in WideMessage /\ ToSet(a[i].text) \cap Template = {}
    BY AskedIs
  <1> HIDE DEF a, text, files
  <1>7. Len(TurnsOf(text)) - Len(a) = e
    BY <1>4, <1>5
  <1>8. ASSUME NEW i \in 1..Len(a)
        PROVE  /\ SpeakerOf(TurnsOf(text)[i + e]) = "assistant" <=> a[i].role = "assistant"
               /\ Last(TurnsOf(text)[i + e]) = "<End>" <=> a[i].role = "assistant"
               /\ IsPrefix(Words(a[i]), Spoken(TurnsOf(text)[i + e]))
               /\ a[i].role # "system" => Spoken(TurnsOf(text)[i + e]) = Words(a[i])
               /\ Listed(TurnsOf(text)[i + e]) = Called(a[i])
    <2> DEFINE asked == a[i]
               sent == b[i + e]
               turn == TurnsOf(text)[i + e]
    <2>1. i + e \in 1..Len(b)
      BY <1>4
    <2>2. sent.role = asked.role /\ sent.files = asked.files
      BY <1>1 DEF Adds
    <2>3. PICK w \in Seq(Instructions) : /\ sent.text = asked.text \o w
                                         /\ asked.role # "system" => w = <<>>
      BY <1>1 DEF Adds
    <2>4. TurnIs(turn, sent)
      BY <1>5, <2>1
    <2>5. asked \in WideMessage /\ ToSet(asked.text) \cap Template = {}
      BY <1>6
    <2> HIDE DEF asked, sent, turn
    <2>6. /\ SpeakerOf(turn) = "assistant" <=> asked.role = "assistant"
          /\ Last(turn) = "<End>" <=> asked.role = "assistant"
          /\ IsPrefix(Words(asked), Spoken(turn))
          /\ asked.role # "system" => Spoken(turn) = Words(asked)
          /\ Listed(turn) = Called(asked)
      BY <2>2, <2>3, <2>4, <2>5, TurnTells
    <2> QED BY <2>6 DEF asked, turn
  <1>9. Said(a) \in Seq(Alphabet)
    BY <1>4, SaidIs
  <1>10. /\ Count(text, "json") = Count(Said(a), "json") + IF q.json /\ ~ToldJson(a) THEN 1 ELSE 0
         /\ Count(text, "tools") = Count(Said(a), "tools") + IF listed THEN 1 ELSE 0
    <2>1. Count(text, "json") = CountIn(Said(b), "json") /\ Count(text, "tools") = CountIn(Said(b), "tools")
      BY <1>3, <1>4, InstructionsStay, PromptCount DEF text
    <2>2. Count(Said(a), "json") = CountIn(Said(a), "json") /\ Count(Said(a), "tools") = CountIn(Said(a), "tools")
      BY <1>9, CountIs
    <2> QED BY <1>2, <2>1, <2>2 DEF a
  <1>11. /\ \A i \in 1..Len(a) : \A k \in 1..Len(a[i].files) : Holds(files, a[i].files[k].data)
         /\ \A i, j \in 1..Len(files) : files[i].data = files[j].data => i = j
         /\ \A n \in 1..Len(files) : \E i \in 1..Len(a) : \E k \in 1..Len(a[i].files) :
              NamedAfter(files[n], a[i], k)
    BY <1>4, UploadsAre DEF files
  <1>14. Tells(q, text, files)
    BY <1>4, <1>7, <1>8, <1>10, <1>11 DEF Tells, a, listed, Said, ToldJson
  <1> QED BY <1>14 DEF text, files, b, a

(* The prompt tells the conversation, whatever the client asks.            *)
THEOREM ConversationPrompt == ConversationSpec => PromptTellsTheConversation
  <1>1. ASSUME ConversationInv, [ConversationNext]_textVars,
               <<request, prompt, refs>>' # <<request, prompt, refs>>
        PROVE  Tells(request', prompt', refs')
    <2>1. CASE Send
      <3>1. /\ request' = request /\ prompt' = messagesToPrompt(Sent(request))
            /\ refs' = Uploads(request.messages)
        BY <2>1 DEF Send, Uploads
      <3>2. ChatRequest(request)
        BY <1>1, ConversationAssumption DEF ConversationInv
      <3>3. Tells(request, messagesToPrompt(Sent(request)), Uploads(request.messages))
        BY <3>2, PromptTells
      <3> QED BY <3>1, <3>3
    <2>2. ASSUME ~Send PROVE FALSE
      <3>1. <<request, prompt, refs>>' = <<request, prompt, refs>>
        BY <1>1, <2>2 DEF ConversationNext, Reject, Collect, FinishStream, Hear, textVars
      <3> QED BY <1>1, <3>1
    <2> QED BY <2>1, <2>2
  <1>2. ConversationInv /\ [ConversationNext]_textVars
          => (<<request, prompt, refs>>' # <<request, prompt, refs>> => Tells(request', prompt', refs'))
    BY <1>1
  <1>3. ConversationSpec => []ConversationInv
    BY ConversationInvariant
  <1> QED BY <1>2, <1>3, PTL DEF ConversationSpec, PromptTellsTheConversation
=============================================================================
