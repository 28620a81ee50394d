---------------------------- MODULE ChatRequest -----------------------------
(***************************************************************************)
(* One chat request from admission to its last event: executeChat of       *)
(* src/server/routes/openai.ts, the attempts forwarder.ts makes for it,    *)
(* the DeepSeekStreamHandler that turns the provider's stream (the source) *)
(* into the client's (the output), and the priming and idle timers of      *)
(* streaming.ts.  Which account an attempt gets is Router's business.      *)
(*                                                                         *)
(* An action is one event of the loop with all it leads to before the next *)
(* one: a promise that is settled runs its continuation, a stream that is  *)
(* destroyed emits its error and close events.                             *)
(***************************************************************************)
EXTENDS Naturals

CONSTANT MaxAttempts  \* the accounts that can be tried

ASSUME ChatAssumption == MaxAttempts \in Nat

VARIABLES
  up,         \* the process runs
  client,     \* the client is connected
  stream,     \* chat.stream
  route,      \* the await the request is at
  cur,        \* attempts begun; the current one
  permits,    \* which gates' permits the request has
  log,        \* the status in its request log row, "gone" once newer rows replace it
  committed,  \* the HTTP 200 and the first chunk were written
  reply,      \* how the response ended
  verdict,    \* what RoutedResult.release was told
  source,     \* the provider's stream of each attempt
  output,     \* the handler's PassThrough of each attempt
  unread,     \* the current output holds content not yet relayed
  spoken,     \* the current handler's hasOutput, or citations that end its output
  outcome,    \* what each handler's cleanup was told
  lease       \* the upstream session of each attempt

upstream == <<source, output, outcome, lease>>
reporting == <<log, committed, reply, verdict>>
vars == <<up, client, stream, route, cur, permits, unread, spoken, reporting, upstream>>

Attempts == 1..MaxAttempts

TypeOK ==
  /\ up \in BOOLEAN /\ client \in BOOLEAN /\ stream \in BOOLEAN
  /\ route \in {"admission", "queued", "calling", "rejected", "reading", "settling",
                "priming", "relaying", "finalizing", "answered"}
  /\ cur \in 0..MaxAttempts
  /\ permits \subseteq {"global", "account"}
  /\ log \in {"none", "pending", "success", "error", "gone"}
  /\ committed \in BOOLEAN
  /\ reply \in {"none", "whole", "error", "cut"}
  /\ verdict \in {"none", "good", "bad"}
  /\ source \in [Attempts -> {"none", "open", "over"}]
  /\ output \in [Attempts -> {"none", "open", "ended", "closed"}]
  /\ unread \in BOOLEAN /\ spoken \in BOOLEAN
  /\ outcome \in [Attempts -> {"none", "success", "provider_error", "interrupted"}]
  /\ lease \in [Attempts -> {"none", "held", "returning", "returned"}]

Init ==
  /\ up = TRUE /\ client = TRUE /\ stream \in BOOLEAN
  /\ route = "admission" /\ cur = 0 /\ permits = {}
  /\ log = "none" /\ committed = FALSE /\ reply = "none" /\ verdict = "none"
  /\ source = [a \in Attempts |-> "none"] /\ output = [a \in Attempts |-> "none"]
  /\ unread = FALSE /\ spoken = FALSE
  /\ outcome = [a \in Attempts |-> "none"] /\ lease = [a \in Attempts |-> "none"]

-----------------------------------------------------------------------------
(* The ways on from forward()'s loop, and the ends of a request.           *)

(* The row is written once, before the first look for an account.          *)
startRequestLog == log' = IF log = "none" THEN "pending" ELSE log

(* The update of a row that is gone changes nothing.                       *)
finishRequestLog(status) == log' = IF log = "gone" THEN log ELSE status

End(status, ends, health) ==
  /\ route' = "answered" /\ permits' = {}
  /\ finishRequestLog(status) /\ reply' = ends /\ verdict' = health
  /\ UNCHANGED committed

(* An account's permit at once: the provider is called.                    *)
Call ==
  /\ cur < MaxAttempts
  /\ cur' = cur + 1 /\ route' = "calling"
  /\ permits' = {"global", "account"}
  /\ startRequestLog /\ spoken' = FALSE
  /\ UNCHANGED <<committed, reply, verdict>>

(* A place in an account's queue.                                          *)
Wait ==
  /\ cur < MaxAttempts
  /\ route' = "queued" /\ permits' = {"global"} /\ startRequestLog
  /\ UNCHANGED <<cur, spoken, committed, reply, verdict>>

RefuseKeepingPermit ==
  /\ route' = "answered" /\ permits' = {"global"}
  /\ log' = "error" /\ reply' = "error"
  /\ UNCHANGED <<verdict, committed, cur, spoken>>

(* A RoutingFailure: a JSON error.                                         *)
Refuse == End("error", "error", verdict) /\ UNCHANGED <<cur, spoken>>

Loop == Call \/ Wait \/ Refuse

(* The global gate resolves.                                               *)
Admitted ==
  /\ route = "admission" /\ client
  /\ Loop
  /\ UNCHANGED <<client, stream, unread, upstream>>

(* No global permit: nothing was logged yet.                               *)
TurnedAway ==
  /\ route = "admission"
  /\ End("none", "error", "none")
  /\ UNCHANGED <<client, stream, cur, unread, spoken, upstream>>

(* The account's gate resolves, with a permit or without.                  *)
WaitEnds ==
  /\ route = "queued"
  /\ Call \/ Refuse
  /\ UNCHANGED <<client, stream, unread, upstream>>

-----------------------------------------------------------------------------
(* An attempt until its answer.                                            *)

(* chatCompletion throws, having given its lease back (see SessionPool).   *)
CallFails ==
  /\ route = "calling"
  /\ Loop
  /\ UNCHANGED <<client, stream, unread, upstream>>

CallAnswersCommitting ==
  /\ route = "calling"
  /\ lease' = [lease EXCEPT ![cur] = "held"]
  /\ source' = [source EXCEPT ![cur] = "open"]
  /\ route' = IF stream THEN "priming" ELSE "reading"
  /\ committed' = stream
  /\ output' = IF stream THEN [output EXCEPT ![cur] = "open"] ELSE output
  /\ UNCHANGED <<client, stream, cur, permits, log, reply, verdict, unread, spoken, outcome>>

(* The provider's headers arrive: a body that says why it refuses, an SSE  *)
(* stream to collect, or one to pass on.                                   *)
CallAnswers ==
  /\ route = "calling"
  /\ lease' = [lease EXCEPT ![cur] = "held"]
  /\ source' = [source EXCEPT ![cur] = "open"]
  /\ \/ route' = "rejected" /\ UNCHANGED output
     \/ ~stream /\ route' = "reading" /\ UNCHANGED output
     \/ stream /\ route' = "priming" /\ output' = [output EXCEPT ![cur] = "open"]
  /\ UNCHANGED <<client, stream, cur, permits, reporting, unread, spoken, outcome>>

NoCleanup(a, result) == UNCHANGED <<lease, outcome>>

(* cleanup and finalizeSession: the first caller's outcome decides whether *)
(* the session is released or invalidated; its upstream part is awaited.   *)
Cleanup(a, result) ==
  IF lease[a] = "held"
  THEN /\ lease' = [lease EXCEPT ![a] = "returning"]
       /\ outcome' = [outcome EXCEPT ![a] = result]
  ELSE UNCHANGED <<lease, outcome>>

(* The body of a refusal is read, or breaks off.                           *)
RefusalRead ==
  /\ route = "rejected"
  /\ source' = [source EXCEPT ![cur] = "over"]
  /\ \E result \in {"provider_error", "interrupted"} : Cleanup(cur, result)
  /\ route' = "settling"
  /\ UNCHANGED <<client, stream, cur, permits, reporting, output, unread, spoken>>

(* handleNonStream collects the answer; an empty one is a provider error.  *)
AnswerRead ==
  /\ route = "reading"
  /\ source' = [source EXCEPT ![cur] = "over"]
  /\ \/ spoken' = TRUE /\ \E result \in {"success", "provider_error", "interrupted"} :
                            Cleanup(cur, result)
     \/ UNCHANGED spoken /\ \E result \in {"provider_error", "interrupted"} :
                              Cleanup(cur, result)
  /\ route' = "settling"
  /\ UNCHANGED <<client, stream, cur, permits, reporting, output, unread>>

(* The session's return is over: forwardChatCompletion answers.            *)
Settled ==
  /\ route = "settling" /\ lease[cur] = "returned"
  /\ \/ /\ outcome[cur] = "success"
        /\ End("success", IF client THEN "whole" ELSE "cut", "good")
        /\ UNCHANGED <<cur, spoken>>
     \/ outcome[cur] # "success" /\ Loop
  /\ UNCHANGED <<client, stream, unread, upstream>>

LeaseReturned(a) ==
  /\ lease[a] = "returning"
  /\ lease' = [lease EXCEPT ![a] = "returned"]
  /\ UNCHANGED <<client, stream, route, cur, permits, reporting, unread, spoken,
                 source, output, outcome>>

-----------------------------------------------------------------------------
(* The stream of the current attempt.                                      *)

Streaming == route \in {"priming", "relaying"}

isDone == output[cur] = "ended"

(* The first chunk ends the priming: executeChat writes the head and the   *)
(* chunk and starts the pipeline.                                          *)
Prime ==
  /\ route' = "relaying" /\ committed' = TRUE
  /\ UNCHANGED <<cur, permits, log, reply, verdict>>

SourceSpeaks ==
  /\ Streaming /\ source[cur] = "open" /\ ~isDone
  /\ spoken' = TRUE /\ unread' = (route = "relaying")
  /\ Prime
  /\ UNCHANGED <<client, stream, upstream>>

FinishAlways == Cleanup(cur, "success")

(* finishStream: a stream without output or citations is a provider error. *)
Finish == IF spoken' THEN Cleanup(cur, "success") ELSE Cleanup(cur, "provider_error")

(* [DONE], the end of the source, or an error in its body: the terminal    *)
(* chunks are written, citations among them, and the output ends.          *)
SourceEnds ==
  /\ Streaming /\ source[cur] = "open"
  /\ source' = [source EXCEPT ![cur] = "over"]
  /\ \/ \E citations \in BOOLEAN : spoken' = (spoken \/ citations) /\ Finish
     \/ UNCHANGED spoken /\ Cleanup(cur, "provider_error")
  /\ output' = [output EXCEPT ![cur] = "ended"]
  /\ Prime
  /\ UNCHANGED <<client, stream, unread>>

DestroyWithoutCleanup ==
  /\ output' = [output EXCEPT ![cur] = "closed"]
  /\ source' = [source EXCEPT ![cur] = "over"]
  /\ unread' = FALSE
  /\ UNCHANGED <<lease, outcome>>

(* The output is destroyed: its close event destroys the source and starts *)
(* the cleanup, if those are not over.                                     *)
Destroy ==
  /\ output' = [output EXCEPT ![cur] = "closed"]
  /\ source' = [source EXCEPT ![cur] = "over"]
  /\ unread' = FALSE
  /\ Cleanup(cur, "interrupted")

(* The pipeline's callback with an error: executeChat does not wait for    *)
(* the handler's outcome.                                                  *)
PipelineBreaks ==
  /\ Destroy
  /\ End("error", "cut", "bad")
  /\ UNCHANGED <<cur, spoken>>

(* The source fails (the network, or the request's abort): the error goes  *)
(* to primeStream, which rejects and forward() goes on, or to the pipeline.*)
SourceFails ==
  /\ Streaming /\ source[cur] = "open"
  /\ \/ route = "priming" /\ Destroy /\ Loop
     \/ route = "relaying" /\ PipelineBreaks
  /\ UNCHANGED <<client, stream>>

(* The first-byte timer takes primeStream's listeners off the output and   *)
(* then destroys it with an error: the error event has no listener, which  *)
(* ends the process.                                                       *)
PrimeTimeout ==
  /\ route = "priming"
  /\ up' = FALSE
  /\ UNCHANGED <<client, stream, route, cur, permits, reporting, unread, spoken, upstream>>

(* No data for the idle time: the provider or the client is stuck.         *)
IdleTimeout ==
  /\ route = "relaying"
  /\ PipelineBreaks
  /\ UNCHANGED <<client, stream>>

Relay ==
  /\ route = "relaying" /\ unread
  /\ unread' = FALSE
  /\ UNCHANGED <<client, stream, route, cur, permits, reporting, spoken, upstream>>

(* The client left while the stream was primed: the pipeline finds the     *)
(* response closed.                                                        *)
Undeliverable ==
  /\ route = "relaying" /\ ~client
  /\ PipelineBreaks
  /\ UNCHANGED <<client, stream>>

(* Everything was read and written: the pipeline's callback without error. *)
RelayEnds ==
  /\ route = "relaying" /\ client /\ isDone /\ ~unread
  /\ output' = [output EXCEPT ![cur] = "closed"]
  /\ route' = "finalizing"
  /\ reply' = IF outcome[cur] = "success" THEN "whole" ELSE "error"
  /\ UNCHANGED <<client, stream, cur, permits, log, committed, verdict, unread, spoken,
                 source, outcome, lease>>

FinalizedByPipeline ==
  /\ route = "finalizing" /\ lease[cur] = "returned"
  /\ End("success", reply, "good")
  /\ UNCHANGED <<client, stream, cur, unread, spoken, upstream>>

(* finalizeStream after the handler's outcome.                             *)
Finalized ==
  /\ route = "finalizing" /\ lease[cur] = "returned"
  /\ IF outcome[cur] = "success" THEN End("success", reply, "good")
                                 ELSE End("error", reply, "bad")
  /\ UNCHANGED <<client, stream, cur, unread, spoken, upstream>>

(* The client goes away: a waiter gives up, a relayed stream breaks,       *)
(* anything else learns of it from the aborted upstream call.              *)
Disconnect ==
  /\ client /\ route # "answered"
  /\ client' = FALSE
  /\ \/ /\ route = "admission" /\ End("none", "error", "none")
        /\ UNCHANGED <<cur, unread, spoken, upstream>>
     \/ route = "queued" /\ Refuse /\ UNCHANGED <<unread, upstream>>
     \/ route = "relaying" /\ PipelineBreaks
     \/ /\ route \notin {"admission", "queued", "relaying"}
        /\ UNCHANGED <<route, cur, permits, reporting, unread, spoken, upstream>>
  /\ UNCHANGED stream

(* Other requests start: only the newest requestLogMaxEntries rows stay.   *)
LogPruned ==
  /\ log = "pending"
  /\ log' = "gone"
  /\ UNCHANGED <<client, stream, route, cur, permits, committed, reply, verdict, unread, spoken,
                 upstream>>

-----------------------------------------------------------------------------
Progress ==
  \/ Admitted \/ TurnedAway \/ WaitEnds \/ CallFails \/ CallAnswers
  \/ RefusalRead \/ AnswerRead \/ Settled
  \/ SourceEnds \/ SourceFails \/ IdleTimeout \/ Undeliverable \/ RelayEnds
  \/ Finalized

Next ==
  /\ up
  /\ \/ PrimeTimeout
     \/ /\ \/ Progress \/ SourceSpeaks \/ Relay \/ Disconnect \/ LogPruned
           \/ \E a \in Attempts : LeaseReturned(a)
        /\ UNCHANGED up

Spec == Init /\ [][Next]_vars

(* Every wait is bounded: the queue timeout, the request timeout of the    *)
(* calls, the first-byte and idle timers, the delete's 10 s.  A provider   *)
(* does not talk for ever.                                                 *)
FairSpec ==
  /\ Spec
  /\ WF_vars(up /\ Progress /\ UNCHANGED up)
  /\ \A a \in Attempts : WF_vars(up /\ LeaseReturned(a) /\ UNCHANGED up)

-----------------------------------------------------------------------------
(* Properties.                                                             *)

(* The global permit and the pending log row begin and end together, but   *)
(* for a row that newer requests have pruned; the account permit lasts     *)
(* as long as the provider is used for the request, and nothing is left    *)
(* when the request is answered, whichever of the exits it took            *)
(* (openai.ts:150-168, 191-210, 245-265, 273-304; store.ts:662).           *)
PermitsSpanRequest ==
  up => /\ "global" \in permits => log \in {"pending", "gone"}
        /\ log = "pending" => "global" \in permits
        /\ \A a \in Attempts : lease[a] = "held" => a = cur /\ "account" \in permits
        /\ route = "answered" => permits = {}

(* While its row is kept, a request is logged as a success exactly when    *)
(* the client was sent a whole answer, unless the client left before a     *)
(* JSON answer was ready (openai.ts:233-265, 273-284;                      *)
(* deepseek-stream.ts:532-573).                                            *)
LogTellsTheTruth ==
  route = "answered" =>
    /\ reply = "whole" => log \in {"success", "gone"}
    /\ log = "success" => reply = "whole" \/ (~client /\ ~stream)

(* Only a complete answer with content counts for the account's health     *)
(* (docs/operations.md:23-24; deepseek-stream.ts:449-455, 532-545).        *)
HealthNeedsContent == verdict = "good" => spoken /\ outcome[cur] = "success"

(* Once the response head is written the request stays with its account:   *)
(* failover happens before the client sees anything, and the response is   *)
(* never a second JSON answer (docs/architecture.md:63; router.ts:184-210, *)
(* openai.ts:213-223).                                                     *)
NoFailoverOnceCommitted ==
  [][committed => cur' = cur /\ route' \in {"relaying", "finalizing", "answered"}]_vars

(* Every request is answered while the process lives.                      *)
EveryRequestEnds == route = "admission" ~> (route = "answered" \/ ~up)

(* Every session leased for the request goes back to the pool, also that   *)
(* of an attempt it has failed over from (deepseek-stream.ts:393-403,      *)
(* 575-585; forwarder.ts:63-112).                                          *)
EveryLeaseReturned ==
  \A a \in Attempts : lease[a] = "held" ~> (lease[a] = "returned" \/ ~up)

=============================================================================
