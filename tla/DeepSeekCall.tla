---------------------------- MODULE DeepSeekCall ----------------------------
(***************************************************************************)
(* One chat call of the DeepSeek adapter, from the request to the text the *)
(* client reads (deepseek.ts chatCompletion, forwarder.ts and the readers  *)
(* of deepseek-stream.ts): token, session lease, uploads with their proof  *)
(* of work, completion, and the event stream, cut into chunks anywhere.    *)
(*                                                                         *)
(* The client may abort at any moment: its signal goes with every provider *)
(* request but those that clean up, and axios sends nothing once it is     *)
(* aborted.                                                                *)
(* What the provider answers is chosen freely.  Which session the pool     *)
(* leases is SessionPool's matter, what the client is told of a stream that*)
(* breaks or falls silent ChatRequest's.                                   *)
(*                                                                         *)
(* An event of the stream is a record; on the wire it is a line of two     *)
(* symbols and a newline.  The two symbols of an event with a text are     *)
(* bytes of one character of it.                                           *)
(***************************************************************************)
EXTENDS Integers, Sequences, SequencesExt

CONSTANTS
  MaxFiles,  \* bound on attached files (MAX_MEDIA_FILES)
  MaxPolls,  \* FILE_READY_POLL_ATTEMPTS
  MaxEvents  \* bound on the events of a stream

ASSUME CallAssumption ==
  MaxFiles \in Nat /\ MaxPolls \in Nat \ {0} /\ MaxEvents \in Nat \ {0}

VARIABLES
  at,        \* where the call stands, "failed" and "read" at the end
  open,      \* the provider request whose answer is awaited, or "none"
  aborted,   \* signal.aborted
  cached,    \* tokenCache holds the account's access token
  session,   \* the session of the call: "none", "leased", "released", "dropped"
  files,     \* files still to upload
  proof,     \* target_path the challenge at hand was answered for, or "none"
  polls,     \* fetch_files answers left for the file being processed
  code,      \* the code of the failure, "none" without one
  script,    \* the events of the answer
  closed,    \* the last line of the answer ends with a newline
  wire,      \* symbols still to arrive
  buffer,    \* buffer of the reader
  plain,     \* nonSseBody
  stream,    \* request.stream: handleStream, or handleNonStream
  first,     \* where text goes before the provider says: reasoning_effort
  path,      \* DeepSeekEventDecoder.currentPath
  texts,     \* what was read: path -> texts
  cut        \* texts with a character whose bytes came in two chunks

setup    == <<cached, files, proof, polls>>
reading  == <<script, closed, wire, buffer, plain, stream, first, path, texts, cut>>
callVars == <<at, open, aborted, code, session, setup, reading>>

Paths   == {"thinking", "content"}
Cleanup == {"exchange", "delete"}    \* the provider requests without the signal

-----------------------------------------------------------------------------
(* The failures.                                                           *)

(* providerErrorFromPayload: what a JSON envelope may say.                 *)
PayloadCodes ==
  {"provider_account_suspended", "provider_authentication_failed", "provider_rate_limited",
   "provider_expert_busy", "provider_response_error"}

(* providerErrorFromChunk: what an error event of the stream may say.      *)
ChunkCodes == {"provider_rate_limited", "provider_expert_busy", "provider_response_error"}

(* mapTransportError, for requests that get no answer.                     *)
TransportCodes == {"provider_timeout", "provider_unavailable"}

(* What each step throws for the status codes and bodies it refuses.       *)
RefusalCodes(step) ==
  CASE step = "token"   -> {"provider_authentication_failed", "provider_rate_limited",
                            "provider_unavailable", "provider_account_suspended",
                            "provider_protocol_changed"}
    [] step = "session" -> {"provider_authentication_failed", "provider_protocol_changed"}
    [] step = "challenge" -> {"provider_protocol_changed"}
    [] step = "upload"  -> {"provider_authentication_failed", "provider_rate_limited",
                            "provider_media_upload_failed"}
    [] step = "poll"    -> {"provider_authentication_failed"}
    [] OTHER            -> {}

FailureCodes(step) ==
  TransportCodes \cup RefusalCodes(step)
    \cup IF step = "completion" THEN {} ELSE PayloadCodes

isReusableAfterFailure(failure) ==
  failure \in {"provider_account_suspended", "provider_rate_limited", "provider_expert_busy"}

(* statusCode: an HTTP status whose body says nothing more.                *)
statusCode(status) ==
  CASE status \in {401, 403} -> "provider_authentication_failed"
    [] status \in {408, 504} -> "provider_timeout"
    [] status = 429          -> "provider_rate_limited"
    [] status \in {500, 503} -> "provider_unavailable"
    [] OTHER                 -> "provider_rejected_request"

(* The statuses of a refused completion, one of each kind and 404.         *)
Statuses == {401, 403, 404, 408, 429, 500, 503, 504}

(* readBoundedProviderBody: a body that is too long, or breaks off.        *)
BodyCodes == {"provider_protocol_changed", "interrupted"}

(* normalizeError: an error that is not the provider's own.                *)
normalizeError(failure) == IF failure = "interrupted" THEN "provider_unavailable" ELSE failure

(* Nothing is left to do for the call,                                     *)
Over ==
  /\ open' = "none"
  /\ at' = IF code' = "none" THEN "read" ELSE "failed"

(* or its session is to be deleted upstream.                               *)
CleanUp(steps) == open' \in steps /\ at' = "cleaning"

(* releaseSession: the session is idle again, or its time is over and it   *)
(* is deleted with the access token of the cache, or another if that has   *)
(* run out by now.                                                         *)
releaseSession == session' = "released" /\ (Over \/ CleanUp(Cleanup))

(* invalidateSession: dropped and deleted, unless the pool lists it no more.*)
invalidateSession(steps) == session' = "dropped" /\ (Over \/ CleanUp(steps))

(* finalizeSession: what becomes of the session of an answer.              *)
finalizeSession(outcome) ==
  \/ (outcome = "none" \/ isReusableAfterFailure(outcome)) /\ releaseSession
  \/ ~(outcome = "none" \/ isReusableAfterFailure(outcome)) /\ invalidateSession(Cleanup)

(* Mutant: the catch leaves the session as it is.                          *)
FailHoldingSession(failure) ==
  /\ code' = failure
  /\ Over /\ UNCHANGED session

(* The end of chatCompletion's catch, which has an access token at hand if *)
(* it has a session.                                                       *)
Fail(failure) ==
  /\ code' = failure
  /\ \/ session # "leased" /\ Over /\ UNCHANGED session
     \/ session = "leased" /\ isReusableAfterFailure(failure) /\ releaseSession
     \/ session = "leased" /\ ~isReusableAfterFailure(failure) /\ invalidateSession({"delete"})

(* Mutant: a request that does not carry the signal.                       *)
SendUnsignalled(step) ==
  at' = step /\ open' = step /\ UNCHANGED <<code, session>>

(* A provider request with the client's signal: axios rejects it at once   *)
(* when the signal is aborted.                                             *)
Send(step) ==
  IF aborted THEN Fail("provider_request_cancelled")
  ELSE at' = step /\ open' = step /\ UNCHANGED <<code, session>>

-----------------------------------------------------------------------------
(* The steps of a call.                                                    *)

(* extractInlineMediaFiles and the limits of the expert mode, before       *)
(* anything is asked of the provider.                                      *)
RejectInput ==
  /\ at = "begin" /\ files > 0
  /\ Fail("invalid_media_input")
  /\ UNCHANGED <<aborted, setup, reading>>

(* acquireToken: a cached access token saves the exchange.                 *)
AcquireToken ==
  /\ at = "begin"
  /\ IF cached THEN at' = "lease" /\ UNCHANGED <<open, code, session>> ELSE Send("token")
  /\ UNCHANGED <<aborted, setup, reading>>

(* sessionPool.acquire: an idle session, or a new one.                     *)
Lease ==
  /\ at = "lease"
  /\ \/ session' = "leased" /\ at' = "files" /\ UNCHANGED <<open, code>>
     \/ Send("session")
  /\ UNCHANGED <<aborted, setup, reading>>

(* uploadFiles: every file asks for a challenge of the upload path, the    *)
(* completion for one of its own.                                          *)
NextFile ==
  /\ at = "files"
  /\ Send("challenge")
  /\ UNCHANGED <<aborted, setup, reading>>

(* getChallenge and calculateChallengeAnswer, for the path at hand.        *)
Solved ==
  /\ open = "challenge"
  /\ proof' = IF files > 0 THEN "upload" ELSE "completion"
  /\ Send(proof')
  /\ UNCHANGED <<aborted, cached, files, polls, reading>>

(* findFileMetadata: the status of the file asked for, wherever the answer *)
(* has it; statuses that mean the same are one here.                       *)
FileStatuses == {"absent", "processing", "processed"}

isFileReadyStatus(file) == file = "processed"

(* The provider takes the file, else StepFails; a file that is ready needs *)
(* no poll.                                                                *)
Uploaded ==
  /\ open = "upload"
  /\ proof' = "none"
  /\ \E file \in FileStatuses \ {"absent"} :
       \/ /\ isFileReadyStatus(file)
          /\ files' = files - 1 /\ at' = "files" /\ open' = "none"
          /\ UNCHANGED <<polls, code, session>>
       \/ /\ ~isFileReadyStatus(file)
          /\ polls' = MaxPolls /\ Send("poll") /\ UNCHANGED files
  /\ UNCHANGED <<aborted, cached, reading>>

(* waitForFileReady: ready, or another look after abortableDelay; any      *)
(* other answer counts as not ready yet.                                   *)
Polled ==
  /\ open = "poll"
  /\ \E file \in FileStatuses :
       \/ /\ isFileReadyStatus(file)
          /\ files' = files - 1 /\ polls' = 0
          /\ at' = "files" /\ open' = "none" /\ UNCHANGED <<code, session>>
       \/ /\ ~isFileReadyStatus(file) /\ polls > 1
          /\ polls' = polls - 1
          /\ at' = "pause" /\ open' = "none" /\ UNCHANGED <<files, code, session>>
       \/ /\ ~isFileReadyStatus(file) /\ polls = 1
          /\ polls' = 0
          /\ Fail("provider_media_processing_timeout") /\ UNCHANGED files
  /\ UNCHANGED <<aborted, cached, proof, reading>>

Pause ==
  /\ at = "pause"
  /\ Send("poll")
  /\ UNCHANGED <<aborted, setup, reading>>

Exchanged ==
  /\ open = "token"
  /\ cached' = TRUE
  /\ at' = "lease" /\ open' = "none"
  /\ UNCHANGED <<aborted, code, session, files, proof, polls, reading>>

Created ==
  /\ open = "session"
  /\ session' = "leased"
  /\ at' = "files" /\ open' = "none"
  /\ UNCHANGED <<aborted, code, setup, reading>>

(* A step that the provider refuses or never answers, or that the client's *)
(* signal rejects.                                                         *)
StepFails ==
  /\ open \notin {"none"} \cup Cleanup
  /\ \/ \E failure \in FailureCodes(open) : Fail(failure)
     \/ aborted /\ Fail("provider_request_cancelled")
  /\ UNCHANGED <<aborted, setup, reading>>

(* acquireToken for the clean-up: its token deletes the session.           *)
ExchangedAgain ==
  /\ open = "exchange"
  /\ cached' = TRUE
  /\ open' = "delete"
  /\ UNCHANGED <<at, aborted, code, session, files, proof, polls, reading>>

(* The delete is answered, or no token is to be had for it; errors of the  *)
(* clean-up change nothing.                                                *)
CleanupSettles ==
  /\ open \in Cleanup
  /\ UNCHANGED <<aborted, code, session, setup, reading>>
  /\ Over

(* The client leaves.  While the answer is read, that breaks its source.   *)
Abort ==
  /\ ~aborted /\ at \notin {"over", "failed", "read"}
  /\ aborted' = TRUE
  /\ \/ at # "reading" /\ UNCHANGED <<at, open, code, session>>
     \/ /\ at = "reading"
        /\ code' = IF stream THEN "stream_interrupted" ELSE normalizeError("interrupted")
        /\ finalizeSession("interrupted")
  /\ UNCHANGED <<setup, reading>>

-----------------------------------------------------------------------------
(* The stream.                                                             *)

(* A fragment with its type, a bare string, the thinking switch of a       *)
(* response record, a provider error, a line that is no event, the end.    *)
(* A blank text is white space only.                                       *)
Events ==
  [kind : {"fragment"}, path : Paths, blank : BOOLEAN]
    \cup [kind : {"string"}, blank : BOOLEAN] \cup [kind : {"switch"}, path : Paths]
    \cup [kind : {"comment"}] \cup [kind : {"error"}, code : ChunkCodes]

DoneEvent == [kind |-> "done"]
Envelopes == [kind : {"envelope"}, code : PayloadCodes]    \* a JSON error instead of a stream

Damaged == 0

Newline == [event |-> DoneEvent, text |-> 0, half |-> 0, whole |-> TRUE]

(* The answer on the wire: the n-th line is that of the n-th event, whose  *)
(* text is told apart by n.                                                *)
Wired(events, ended) ==
  [i \in 1..(3 * Len(events) - IF ended THEN 0 ELSE 1) |->
     LET n == (i + 2) \div 3
     IN  IF i % 3 = 0 THEN Newline
         ELSE [event |-> events[n], text |-> n, half |-> i % 3, whole |-> TRUE]]

HasText(event) == event.kind \in {"fragment", "string"}

Opens(symbol) == symbol.half = 1 /\ HasText(symbol.event)

Closes(symbol) == symbol.half = 2 /\ HasText(symbol.event)

(* chunk.toString(): a character whose bytes lie in two chunks is damaged. *)
Decoded(chunk) ==
  [i \in 1..Len(chunk) |->
     [chunk[i] EXCEPT !.whole =
        @ /\ ~(i = Len(chunk) /\ Opens(chunk[i])) /\ ~(i = 1 /\ Closes(chunk[i]))]]

(* buffer.split('\n'): the lines, of which the last is not ended yet.      *)
LineEnds(symbols) == {i \in 1..Len(symbols) : symbols[i] = Newline}

LastEnd(symbols) == IF LineEnds(symbols) = {} THEN 0 ELSE Max(LineEnds(symbols))

(* Mutant: what is left after the last newline is forgotten.               *)
RemainderForgotten(symbols) == <<>>

Remainder(symbols) == SubSeq(symbols, LastEnd(symbols) + 1, Len(symbols))

(* A line ends at i; one that lost its beginning is no event (parseSse).   *)
EndsLine(symbols, i) == i > 2 /\ symbols[i] = Newline /\ symbols[i - 2].half = 1

Parsed(symbols, i) ==
  [event |-> symbols[i - 2].event,
   text  |-> IF symbols[i - 2].whole /\ symbols[i - 1].whole THEN symbols[i - 2].text ELSE Damaged]

(* DeepSeekEventDecoder.process: the path after an event, and its text.    *)
PathAfter(p, event) == IF event.kind \in {"fragment", "switch"} THEN event.path ELSE p

(* What one ended line does to the reader.                                 *)
Consumed(reader, line) ==
  LET event == line.event
      p     == PathAfter(reader.path, event)
  IN  IF reader.at # "reading" THEN reader
      ELSE CASE event.kind = "error" -> [reader EXCEPT !.at = "failed", !.code = event.code]
             [] event.kind = "done"  -> [reader EXCEPT !.at = IF stream THEN "ended" ELSE @]
             [] event.kind \in {"comment", "envelope"} -> [reader EXCEPT !.plain = Append(@, event)]
             [] event.kind = "switch" -> [reader EXCEPT !.path = p]
             [] HasText(event) -> [reader EXCEPT !.path = p, !.texts[p] = Append(@, line.text)]

Reader == [at |-> "reading", code |-> code, path |-> path, texts |-> texts, plain |-> plain]

(* The lines of a chunk one after the other.                               *)
ReadOn(start, symbols) ==
  LET reader[i \in 0..Len(symbols)] ==
        IF i = 0 THEN start
        ELSE IF EndsLine(symbols, i) THEN Consumed(reader[i - 1], Parsed(symbols, i))
        ELSE reader[i - 1]
  IN  reader[Len(symbols)]

(* The end of handleStream, where every text was output, and the end of    *)
(* handleNonStream, which trims what it collected: nothing left is a       *)
(* failure.                                                                *)
Counts(text) == stream \/ text = Damaged \/ ~script[text].blank

EmptyCode ==
  IF \E p \in Paths : \E i \in 1..Len(texts[p]) : Counts(texts[p][i])
  THEN "none" ELSE "provider_empty_response"

(* The answer has come: event stream or refusal.  Refusals are read whole  *)
(* and given back as a failure by the forwarder.                           *)
AnswerComes ==
  /\ open = "completion" /\ ~aborted
  /\ open' = "none"
  /\ at' = "reading"
  /\ \/ \E n \in 1..MaxEvents : \E events \in [1..n -> Events] :
          script' \in {events, Append(events, DoneEvent)}
     \/ \E envelope \in Envelopes : script' = <<envelope>>
  /\ closed' \in BOOLEAN
  /\ wire' = Wired(script', closed')
  /\ UNCHANGED <<aborted, code, session, setup, buffer, plain, stream, first, path, texts, cut>>

Refused ==
  /\ open = "completion" /\ ~aborted
  /\ \E failure \in PayloadCodes \cup {statusCode(s) : s \in Statuses} \cup BodyCodes :
       code' = normalizeError(failure) /\ finalizeSession(failure)
  /\ UNCHANGED <<aborted, setup, reading>>

(* A chunk of any length: its ended lines are processed, the rest waits.   *)
Chunk ==
  /\ at = "reading" /\ wire # <<>>
  /\ \E n \in 1..Len(wire) :
       LET symbols == buffer \o Decoded(SubSeq(wire, 1, n))
           reader  == ReadOn(Reader, symbols)
       IN  /\ wire' = SubSeq(wire, n + 1, Len(wire))
           /\ cut' = IF Opens(wire[n]) THEN cut \cup {wire[n].text} ELSE cut
           /\ buffer' = Remainder(symbols)
           /\ path' = reader.path /\ texts' = reader.texts /\ plain' = reader.plain
           /\ code' = reader.code
           /\ \/ reader.at = "failed" /\ finalizeSession(reader.code)
              \/ /\ reader.at # "failed"
                 /\ at' = IF reader.at = "ended" THEN "over" ELSE "reading"
                 /\ UNCHANGED <<open, session>>
  /\ UNCHANGED <<aborted, cached, files, proof, polls, script, closed, stream, first>>

(* The end of the source: an unread JSON envelope is a failure, and so is  *)
(* an answer without text.                                                 *)
BodyLeft == plain \o [k \in 1..(Len(buffer) \div 2) |-> buffer[2 * k].event]

EnvelopeLeft == Len(BodyLeft) = 1 /\ BodyLeft[1].kind = "envelope"

SourceEnds ==
  /\ at = "over" \/ (at = "reading" /\ wire = <<>>)
  /\ code' = IF at = "reading" /\ EnvelopeLeft THEN BodyLeft[1].code ELSE EmptyCode
  /\ finalizeSession(code')
  /\ UNCHANGED <<aborted, setup, reading>>

-----------------------------------------------------------------------------

CallInit ==
  /\ at = "begin" /\ open = "none" /\ code = "none" /\ aborted = FALSE
  /\ cached \in BOOLEAN
  /\ session = "none" /\ files \in 0..MaxFiles /\ proof = "none" /\ polls = 0
  /\ script = <<>> /\ closed = TRUE /\ wire = <<>> /\ buffer = <<>> /\ plain = <<>>
  /\ stream \in BOOLEAN /\ first \in Paths /\ path = first
  /\ texts = [p \in Paths |-> <<>>] /\ cut = {}

CallNext ==
  \/ RejectInput \/ AcquireToken \/ Exchanged \/ Lease \/ Created
  \/ NextFile \/ Solved \/ Uploaded \/ Polled \/ Pause
  \/ StepFails \/ ExchangedAgain \/ CleanupSettles \/ Abort
  \/ AnswerComes \/ Refused \/ Chunk \/ SourceEnds

CallSpec == CallInit /\ [][CallNext]_callVars

-----------------------------------------------------------------------------

(* Whichever step ends a call, it ends clean.  Once the client has gone,   *)
(* whatever the call was waiting for - a token, its turn in the session    *)
(* pool, a file that is being processed, more of the answer - nothing more *)
(* is asked of the provider for it but to delete its session               *)
(* (deepseek.test.ts: "propagates the client abort signal"); only a session*)
(* that it had is cleaned up, and none is held on to.                      *)
CallsEndClean ==
  [][/\ aborted' /\ open' # open => open' \in {"none"} \cup Cleanup
     /\ open' \in Cleanup => session' \in {"released", "dropped"}
     /\ at' \in {"cleaning", "read", "failed"} => session' # "leased"]_callVars

(* What the provider said, read off the events themselves: a text belongs  *)
(* to the path announced last, everything after an error is void, and a    *)
(* last line without its newline was never said.                           *)
Said == {n \in 1..Len(script) :
           /\ n < Len(script) \/ closed
           /\ \A m \in 1..n : script[m].kind # "error"}

Announced(n) == {m \in 1..n : script[m].kind \in {"fragment", "switch"}}

PathOf(n) == IF Announced(n) = {} THEN first ELSE script[Max(Announced(n))].path

SaidOn(p) == {n \in Said : HasText(script[n]) /\ PathOf(n) = p}

Errors ==
  {n \in 1..Len(script) : \/ script[n].kind = "envelope"
                         \/ (script[n].kind = "error" /\ (n < Len(script) \/ closed))}

Finished == at \in {"cleaning", "read", "failed"} /\ script # <<>> /\ ~aborted

(* The texts that make an answer: for one JSON body white space does not,  *)
(* unless it was damaged.                                                  *)
Shown ==
  {n \in SaidOn("thinking") \cup SaidOn("content") :
     stream \/ n \in cut \/ ~script[n].blank}

(* The texts with these numbers in order, some of them damaged.            *)
InOrder(received, numbers, damaged) ==
  \E order \in [1..Len(received) -> numbers] :
    /\ \A i, j \in 1..Len(received) : i < j => order[i] < order[j]
    /\ \A n \in numbers : \E i \in 1..Len(received) : order[i] = n
    /\ \A i \in 1..Len(received) :
         received[i] = IF order[i] \in damaged THEN Damaged ELSE order[i]

(* However the network cuts the answer into chunks, and whether the client *)
(* asked for a stream or for one JSON body, it gets the texts the provider *)
(* said, each on its path and in order, and the failure that the provider  *)
(* reported first, or one when it said nothing (deepseek-stream.test.ts:   *)
(* "preserves successful answer fragments").  Nothing is less for one body *)
(* than for a stream, since it is trimmed; and only a text with a character*)
(* of several bytes that was cut between them arrives damaged.             *)
TextIndependentOfChunks ==
  Finished =>
    /\ \A p \in Paths : InOrder(texts[p], SaidOn(p), cut)
    /\ code = IF Errors # {} THEN script[Min(Errors)].code
              ELSE IF Shown = {} THEN "provider_empty_response" ELSE "none"
=============================================================================
