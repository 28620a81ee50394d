---------------------------- MODULE Conversation ----------------------------
(***************************************************************************)
(* A chat completion as text: how the OpenAI request becomes one DeepSeek  *)
(* prompt with file references (schemas/chat.ts, schemas/openaiCompat.ts,  *)
(* messagesToPrompt and extractInlineMediaFiles of deepseek.ts), and how   *)
(* the events of the answer become the client's stream or its JSON body    *)
(* (deepseek-stream.ts, and applyToolCallsToBody and                       *)
(* applyStopToCompletionBody of routes/openai.ts).  Failures on the way,   *)
(* and the cutting of the answer into chunks, are DeepSeekCall's matter.   *)
(*                                                                         *)
(* A text is a sequence of symbols.  One symbol stands for a word, for a   *)
(* role marker of the prompt, for an instruction the gateway adds, for a   *)
(* file's name, for a tool's name, for a brace or the fence of a JSON      *)
(* envelope, for the number or the link of a citation.                     *)
(***************************************************************************)
EXTENDS Naturals, Sequences, SequencesExt, FiniteSetsExt

CONSTANTS
  Requests,   \* the request bodies clients send
  Answers,    \* the events DeepSeek's answers are made of
  MaxEvents,  \* bound on the events of an answer
  MaxFiles    \* MAX_MEDIA_PARTS_PER_MESSAGE and MAX_MEDIA_FILES

Roles   == {"system", "user", "assistant"}
Tools   == {"get", "evil"}
Urls    == {"u1", "u2"}
Markers == {"<User>", "<Assistant>", "<End>"}
Blank   == " "
Open    == "{"
Close   == "}"
Fence   == "<fence>"
Extensions == {".png", ".pdf"}

(* What a part's sender may call it - a name of its own, or one the        *)
(* gateway gives as well - and what the gateway calls an image without a   *)
(* name.  A part is one of at most five.                                   *)
ImageNames == <<"image-1", "image-2", "image-3", "image-4", "image-5">>
Names == {"logo.png", "scan", "my+cv"} \cup ToSet(ImageNames)
Unnamed == ""

(* A part that is not text: its name, what it holds, and its place among   *)
(* all parts of the message.                                               *)
Content == [suffix : Extensions, bytes : {"b1", "b2"}]
Media   == [name : Names \cup {Unnamed}, data : Content, place : 1..Len(ImageNames)]

(* What the prompt is made of besides the messages: the parts the gateway  *)
(* writes, each one symbol that is none of a client's words.               *)
Template == Names \cup {"attached", "newline", "marker", "instructions"}

(* tool_choice, or the tool it names.                                      *)
ToolChoices == {"auto", "none", "required"} \cup Tools

(* What the schemas of chat.ts let through; sampling options are dropped.  *)
Message == [role : Roles, text : Seq(STRING), files : Seq(Media)]

WellFormed(m) ==
  /\ ToSet(m.text) \cap Template = {}
  /\ m.role # "user" => m.files = <<>>
  /\ Len(m.files) <= Len(ImageNames)
  /\ \A k \in 1..Len(m.files) : k <= m.files[k].place
  /\ \A j, k \in 1..Len(m.files) : j < k => m.files[j].place < m.files[k].place
  /\ m.files = <<>> => \E i \in 1..Len(m.text) : m.text[i] # Blank

ChatRequest(q) ==
  /\ q.messages \in Seq(Message) \ {<<>>}
  /\ \A i \in 1..Len(q.messages) : WellFormed(q.messages[i])
  /\ q.model \in {"deepseek-v4-flash", "deepseek-v4-pro", "gpt-4o", "gpt-4o-mini"}
  /\ q.json \in BOOLEAN /\ q.stream \in BOOLEAN
  /\ q.stop \in Seq(Seq(STRING)) /\ Len(q.stop) <= 4
  /\ q.tools \in Seq(Tools \cup {"nameless"}) /\ q.tool_choice \in ToolChoices

(* A number is written in digits, which no link is.                        *)
Index(number) == number \in Nat /\ ToString(number) \in STRING \ Urls

(* What the decoder tells apart in the data of an event.                   *)
StreamChunk(e) ==
  \/ e.kind = "text" /\ e.path \in {"thinking", "content"} /\ e.text \in Seq(STRING)
  \/ /\ e.kind = "results" /\ e.items \in Seq([url : Urls, valid : BOOLEAN, number : Nat])
     /\ \A i \in 1..Len(e.items) : Index(e.items[i].number)
  \/ e.kind = "batch" /\ e.entry \in Nat \ {0} /\ Index(e.number) /\ e.number # 0

ASSUME ConversationAssumption ==
  /\ MaxEvents \in Nat /\ MaxFiles \in Nat \ {0}
  /\ \A q \in Requests : ChatRequest(q)
  /\ \A e \in Answers : StreamChunk(e)

VARIABLES
  at,       \* "asked", "sent", "answered", or "refused" with an error
  request,  \* the body of the request
  prompt,   \* what DeepSeek is asked
  refs,     \* ref_file_ids: the files uploaded for it, each a name and content
  script,   \* the events of the answer so far
  results,  \* searchResults, in the order of the map
  content,  \* the collected content, or what the stream's chunks said
  thinking, \* the same of the reasoning
  hasOutput, \* a text of either kind came
  body      \* the message the client ends up with

answer == <<script, results, content, thinking, hasOutput>>
textVars == <<at, request, prompt, refs, answer, body>>

NoBody == [content |-> <<>>, calls |-> <<>>, finish |-> "none"]

-----------------------------------------------------------------------------
(* Texts.                                                                  *)

(* trim(): blanks at either end.                                           *)
Trim(text) ==
  LET ink == {i \in 1..Len(text) : text[i] # Blank}
  IN  IF ink = {} THEN <<>> ELSE SubSeq(text, Min(ink), Max(ink))

(* indexOf: where marker begins in text.                                   *)
Occurrences(marker, text) ==
  {i \in 1..Len(text) : i + Len(marker) - 1 <= Len(text)
                          /\ SubSeq(text, i, i + Len(marker) - 1) = marker}

(* The sequence without its members in out.                                *)
Without(sequence, out) ==
  FlattenSeq([i \in 1..Len(sequence) |->
    IF sequence[i] \in out THEN <<>> ELSE <<sequence[i]>>])

(* normalizeStopSequences.                                                 *)
Stops(q) == Without(q.stop, {<<>>})

(* Mutant: cut at the first marker of the list that occurs.                *)
FirstListedStop(text, stops) ==
  LET found == {k \in 1..Len(stops) : Occurrences(stops[k], text) # {}}
  IN  IF found = {} THEN text
      ELSE SubSeq(text, 1, Min(Occurrences(stops[Min(found)], text)) - 1)

applyStopSequences(text, stops) ==
  LET cuts == UNION {Occurrences(stops[k], text) : k \in 1..Len(stops)}
  IN  IF cuts = {} THEN text ELSE SubSeq(text, 1, Min(cuts) - 1)

-----------------------------------------------------------------------------
(* From the request to the prompt.                                         *)

(* applyJsonModeInstruction and applyToolInstruction: the first system     *)
(* message is added to, or one is put in front.                            *)
Instructed(messages, instruction) ==
  LET systems == {i \in 1..Len(messages) : messages[i].role = "system"}
  IN  IF systems = {}
      THEN <<[role |-> "system", text |-> instruction, files |-> <<>>]>> \o messages
      ELSE [messages EXCEPT ![Min(systems)].text = @ \o instruction]

WithJsonMode(q, messages) ==
  IF q.json /\ ~\E i \in 1..Len(messages) :
                  messages[i].role = "system" /\ Contains(messages[i].text, "json")
  THEN Instructed(messages, <<"json">>) ELSE messages

(* The tools that have a name.                                             *)
Usable(tools) == Without(tools, {"nameless"})

toolNames(tools) == ToSet(Usable(tools))

wantsTools(q) == q.tools # <<>> /\ q.tool_choice # "none"

(* buildToolInstruction: the catalogue, and whether one must be called.    *)
ToolInstruction(q) ==
  <<"tools">> \o Usable(q.tools)
    \o CASE q.tool_choice \in Tools      -> <<"must", q.tool_choice>>
         [] q.tool_choice = "required"   -> <<"must">>
         [] OTHER                        -> <<"may">>

WithTools(q, messages) ==
  IF wantsTools(q) /\ toolNames(q.tools) # {}
  THEN Instructed(messages, ToolInstruction(q)) ELSE messages

(* parseChatRequest.                                                       *)
Sent(q) == WithTools(q, WithJsonMode(q, q.messages))

(* What a part is called, and an image without a name by its number.       *)
mediaPartFilename(part, number) == IF part.name = Unnamed THEN ImageNames[number] ELSE part.name

(* In the prompt parts are numbered among those that are not text.         *)
Called(m) == [k \in 1..Len(m.files) |-> mediaPartFilename(m.files[k], k)]

Label(m) == <<"attached">> \o Called(m)

(* messageContentToPrompt: the text, and the names of the files.           *)
ContentToPrompt(m) ==
  LET text == Trim(m.text)
  IN  IF m.files = <<>> THEN m.text
      ELSE IF text = <<>> THEN Label(m) ELSE text \o <<"newline">> \o Label(m)

(* A role marker in a text is replaced.                                    *)
Masked(text) == [i \in 1..Len(text) |-> IF text[i] \in Markers THEN "marker" ELSE text[i]]

(* Mutant: the first message is taken for the user's.                      *)
FirstTurnBare(i, m) ==
  LET text == Masked(ContentToPrompt(m))
  IN  CASE i = 1                 -> text
        [] m.role = "assistant" -> <<"<Assistant>">> \o text \o <<"<End>">>
        [] m.role = "system"    -> <<"<User>", "instructions">> \o text
        [] OTHER                -> <<"<User>">> \o text

(* What messagesToPrompt makes of the i-th message.                        *)
Turn(i, m) ==
  LET text == Masked(ContentToPrompt(m))
  IN  CASE m.role = "assistant"           -> <<"<Assistant>">> \o text \o <<"<End>">>
        [] m.role # "assistant" /\ i = 1  -> text
        [] m.role = "system" /\ i > 1     -> <<"<User>", "instructions">> \o text
        [] m.role = "user" /\ i > 1       -> <<"<User>">> \o text

messagesToPrompt(messages) ==
  FlattenSeq([i \in 1..Len(messages) |-> Turn(i, messages[i])])

(* extractInlineMediaFiles: the same content once, however often and under *)
(* whatever names it is attached.                                          *)
AllFiles(messages) == FlattenSeq([i \in 1..Len(messages) |-> messages[i].files])

Holds(files, data) == \E n \in 1..Len(files) : files[n].data = data

(* Mutant: parts are told apart by their names.                            *)
DistinctNames(files) ==
  FlattenSeq([n \in 1..Len(files) |->
    IF \E j \in 1..(n - 1) : files[j].name = files[n].name THEN <<>> ELSE <<files[n]>>])

Distinct(files) ==
  FlattenSeq([n \in 1..Len(files) |->
    IF Holds(SubSeq(files, 1, n - 1), files[n].data) THEN <<>> ELSE <<files[n]>>])

(* A part after the limit was reached, even one that is known already.     *)
TooMany(files) == \E n \in 1..Len(files) : Len(Distinct(SubSeq(files, 1, n - 1))) >= MaxFiles

(* The name a file is uploaded by: characters that are not safe become     *)
(* underscores, and the suffix of its type is added if it is missing.      *)
safeMediaFilename(name, suffix) ==
  CASE name = "logo.png" /\ suffix = ".png" -> <<name>>
    [] name = "my+cv"                       -> <<"my_cv_", suffix>>
    [] OTHER                                 -> <<name, suffix>>

(* For the upload parts are numbered among all parts.                      *)
Upload(part) ==
  [name |-> safeMediaFilename(mediaPartFilename(part, part.place), part.data.suffix),
   data |-> part.data]

(* Names of other makers' models stand for one of the two models.          *)
resolveModelAlias(model) ==
  CASE model = "gpt-4o"      -> "deepseek-v4-pro"
    [] model = "gpt-4o-mini" -> "deepseek-v4-flash"
    [] OTHER                 -> model

(* resolveDeepSeekChatOptions: the model's mode.                           *)
Expert(q) == resolveModelAlias(q.model) = "deepseek-v4-pro"

Refusable(q) ==
  \/ \E i \in 1..Len(q.messages) : Len(q.messages[i].files) > MaxFiles
  \/ TooMany(AllFiles(q.messages))
  \/ Expert(q) /\ AllFiles(q.messages) # <<>>

Reject ==
  /\ at = "asked" /\ Refusable(request)
  /\ at' = "refused"
  /\ UNCHANGED <<request, prompt, refs, answer, body>>

Send ==
  /\ at = "asked" /\ ~Refusable(request)
  /\ prompt' = messagesToPrompt(Sent(request))
  /\ refs' = [n \in 1..Len(Distinct(AllFiles(request.messages))) |->
               Upload(Distinct(AllFiles(request.messages))[n])]
  /\ at' = "sent"
  /\ UNCHANGED <<request, answer, body>>

-----------------------------------------------------------------------------
(* From the events to the answer.                                          *)

(* pushContent: the finish marker is not text.                             *)
Cleaned(text) == Without(text, {"FINISHED"})

(* mergeSearchResults: results without a title or a plain http address are *)
(* skipped, a known address keeps its place.                               *)
Merged(known, item) ==
  LET places == {k \in 1..Len(known) : known[k].url = item.url}
      entry  == [url |-> item.url, number |-> item.number]
  IN  IF ~item.valid THEN known
      ELSE IF places = {} THEN Append(known, entry)
      ELSE [known EXCEPT ![Min(places)] = entry]

(* The results of an event, one after the other.                           *)
MergedAll(known, items) ==
  LET merged[n \in 0..Len(items)] ==
        IF n = 0 THEN known ELSE Merged(merged[n - 1], items[n])
  IN  merged[Len(items)]

(* citations(): a line for each numbered result, in the order of their     *)
(* numbers, those of one number in the order of the map.                   *)
LinesOf(known, number) ==
  FlattenSeq([k \in 1..Len(known) |->
    IF known[k].number = number THEN <<"newline", ToString(number), known[k].url>> ELSE <<>>])

Citations(known) ==
  LET last  == Max({0} \cup {known[k].number : k \in 1..Len(known)})
      lines == FlattenSeq([number \in 1..last |-> LinesOf(known, number)])
  IN  IF lines = <<>> THEN <<>> ELSE Tail(lines)

(* applySearchBatch: the number comes for the entry at a place of the list.*)
Numbered(known, event) ==
  IF event.entry <= Len(known) THEN [known EXCEPT ![event.entry].number = event.number] ELSE known

(* A text is passed on, or collected, with the others of its path.         *)
With(texts, event, path) ==
  IF event.path = path THEN texts \o Cleaned(event.text) ELSE texts

(* An event of the answer: decoder.process.                                *)
Hear(event) ==
  /\ at = "sent" /\ Len(script) < MaxEvents
  /\ script' = Append(script, event)
  /\ \/ /\ event.kind = "text"
        /\ content' = With(content, event, "content")
        /\ thinking' = With(thinking, event, "thinking")
        /\ hasOutput' = (hasOutput \/ Cleaned(event.text) # <<>>)
        /\ UNCHANGED results
     \/ /\ event.kind = "results"
        /\ results' = MergedAll(results, event.items)
        /\ UNCHANGED <<content, thinking, hasOutput>>
     \/ /\ event.kind = "batch"
        /\ results' = Numbered(results, event)
        /\ UNCHANGED <<content, thinking, hasOutput>>
  /\ UNCHANGED <<at, request, prompt, refs, body>>

(* The text, or what is between fences around it.                          *)
stripJsonFences(text) ==
  LET trimmed == Trim(text)
  IN  IF Len(trimmed) >= 2 /\ Head(trimmed) = Fence /\ Last(trimmed) = Fence
      THEN Trim(SubSeq(trimmed, 2, Len(trimmed) - 1)) ELSE trimmed

(* parseToolCalls: the names an envelope calls; <<>> when the text is no   *)
(* envelope, or names a tool that was not offered.                         *)
parseToolCalls(text, offered) ==
  LET candidate == stripJsonFences(text)
      entries   == Without(SubSeq(candidate, 2, Len(candidate) - 1), {"junk"})
  IN  IF /\ Len(candidate) >= 2
         /\ Head(candidate) = Open /\ Last(candidate) = Close
         /\ \A i \in 2..(Len(candidate) - 1) : candidate[i] \in Tools \cup {"junk"}
         /\ ToSet(entries) \subseteq offered
      THEN entries ELSE <<>>

(* Mutant: stop sequences are applied before calls are looked for.         *)
FinishedCutFirst(text) ==
  LET kept  == applyStopSequences(text, Stops(request))
      calls == IF wantsTools(request) THEN parseToolCalls(kept, toolNames(request.tools)) ELSE <<>>
  IN  [content |-> IF calls = <<>> THEN kept ELSE <<>>, calls |-> calls,
       finish  |-> IF calls = <<>> THEN "stop" ELSE "tool_calls"]

(* applyStopToCompletionBody(applyToolCallsToBody(body)): calls are read   *)
(* from the text as it came.                                               *)
Finished(text) ==
  LET calls == IF wantsTools(request) THEN parseToolCalls(text, toolNames(request.tools)) ELSE <<>>
  IN  IF calls # <<>> THEN [content |-> <<>>, calls |-> calls, finish |-> "tool_calls"]
      ELSE [content |-> applyStopSequences(text, Stops(request)), calls |-> <<>>,
            finish  |-> "stop"]

(* handleNonStream: the text without outer blanks, the citations below it. *)
Collected ==
  LET text == Trim(content)
      list == Citations(results)
  IN  IF list = <<>> THEN text
      ELSE IF text = <<>> THEN list ELSE text \o <<"gap">> \o list

(* The end of the answer.                                                  *)
Collect ==
  /\ at = "sent" /\ ~request.stream
  /\ IF Collected = <<>> /\ Trim(thinking) = <<>>
     THEN at' = "refused" /\ UNCHANGED body
     ELSE at' = "answered" /\ body' = Finished(Collected)
  /\ UNCHANGED <<request, prompt, refs, answer>>

(* finishStream: the texts were passed on as they came.                    *)
FinishStream ==
  LET list == Citations(results)
  IN  /\ at = "sent" /\ request.stream
      /\ IF ~hasOutput /\ list = <<>>
         THEN at' = "refused" /\ UNCHANGED body
         ELSE /\ at' = "answered"
              /\ body' = [content |-> content \o (IF list = <<>> THEN <<>> ELSE <<"gap">> \o list),
                          calls |-> <<>>, finish |-> "stop"]
      /\ UNCHANGED <<request, prompt, refs, answer>>

-----------------------------------------------------------------------------
ConversationInit ==
  /\ at = "asked" /\ request \in Requests
  /\ prompt = <<>> /\ refs = <<>>
  /\ script = <<>> /\ results = <<>>
  /\ content = <<>> /\ thinking = <<>> /\ hasOutput = FALSE
  /\ body = NoBody

ConversationNext ==
  \/ Reject \/ Send \/ Collect \/ FinishStream
  \/ \E event \in Answers : Hear(event)

ConversationSpec == ConversationInit /\ [][ConversationNext]_textVars

-----------------------------------------------------------------------------
(* Properties.                                                             *)

(* The prompt read the way DeepSeek's template is: a turn begins at a role *)
(* marker, or at the start.                                                *)
TurnsOf(text) ==
  LET turns[n \in 0..Len(text)] ==
        IF n = 0 THEN <<>>
        ELSE LET earlier == turns[n - 1]
             IN  IF n = 1 \/ text[n] \in {"<User>", "<Assistant>"} THEN Append(earlier, <<text[n]>>)
                 ELSE [earlier EXCEPT ![Len(earlier)] = Append(@, text[n])]
  IN  turns[Len(text)]

SpeakerOf(turn) == IF Head(turn) = "<Assistant>" THEN "assistant" ELSE "client"

(* What a turn says besides what the gateway wrote around it.              *)
Spoken(turn) == Without(turn, Markers \cup Template \cup {Blank})

Words(m) == Without(m.text, Markers \cup {Blank})

(* The names of files in a text, in their order.                           *)
Listed(text) == Without(text, ToSet(text) \ Names)

Count(text, symbol) == Len(Without(text, ToSet(text) \ {symbol}))

(* A file was attached as the k-th of a message, and has the name that the *)
(* prompt gives there, made safe - except for an image without a name that *)
(* comes after a text part: its two numbers differ.                        *)
NamedAfter(file, m, k) ==
  /\ file.data = m.files[k].data
  /\ m.files[k].name # Unnamed \/ m.files[k].place = k =>
       file.name = safeMediaFilename(Called(m)[k], file.data.suffix)

Tells(q, text, files) ==
  LET turns  == TurnsOf(text)
      asked  == q.messages
      extra  == Len(turns) - Len(asked)
      said   == FlattenSeq([i \in 1..Len(asked) |-> asked[i].text])
      told   == \E i \in 1..Len(asked) : asked[i].role = "system" /\ Contains(asked[i].text, "json")
      listed == wantsTools(q) /\ ToSet(q.tools) # {"nameless"}
  IN  /\ extra \in {0, 1}
      /\ extra = 1 => \A i \in 1..Len(asked) : asked[i].role # "system"
      /\ \A i \in 1..Len(asked) :
           LET turn == turns[i + extra]
           IN  /\ SpeakerOf(turn) = "assistant" <=> asked[i].role = "assistant"
               /\ Last(turn) = "<End>" <=> asked[i].role = "assistant"
               /\ IsPrefix(Words(asked[i]), Spoken(turn))
               /\ asked[i].role # "system" => Spoken(turn) = Words(asked[i])
               /\ Listed(turn) = Called(asked[i])
      /\ Count(text, "json") = Count(said, "json") + IF q.json /\ ~told THEN 1 ELSE 0
      /\ Count(text, "tools") = Count(said, "tools") + IF listed THEN 1 ELSE 0
      /\ \A i \in 1..Len(asked) : \A k \in 1..Len(asked[i].files) :
           Holds(files, asked[i].files[k].data)
      /\ \A i, j \in 1..Len(files) : files[i].data = files[j].data => i = j
      /\ \A n \in 1..Len(files) : \E i \in 1..Len(asked) : \E k \in 1..Len(asked[i].files) :
           NamedAfter(files[n], asked[i], k)

(* The conversation can be read back off the prompt: as many turns as      *)
(* messages (and one more for instructions without a system message), each *)
(* by its speaker and with its words in their order, whatever markers the  *)
(* texts hold, and nothing else but for instructions after a system's      *)
(* words; an assistant's turn is ended and no other is; a turn lists one   *)
(* name for each file of its message, in their order; the instructions the *)
(* client asked for are added once each; and every content it attached is  *)
(* uploaded, each once and nothing else, under the name its turn lists -   *)
(* that of a part which holds it, for the same content may have more.  No  *)
(* later step tells DeepSeek otherwise (deepseek.ts:631-650, 665-728,      *)
(* 800-843; chat.ts:137-156).                                              *)
PromptTellsTheConversation ==
  [][<<request, prompt, refs>>' # <<request, prompt, refs>> => Tells(request', prompt', refs')]_textVars

(* What the provider said, read off the events themselves.                 *)
TextsOn(path) ==
  Cleaned(FlattenSeq([n \in 1..Len(script) |->
    IF script[n].kind = "text" /\ script[n].path = path THEN script[n].text ELSE <<>>]))

(* The links the provider gave with all that a citation needs.             *)
Linked == {url \in Urls : \E n \in 1..Len(script) :
             script[n].kind = "results" /\
             \E i \in 1..Len(script[n].items) : script[n].items[i].url = url /\ script[n].items[i].valid}

(* Whether it is streamed or collected, the client gets what the provider  *)
(* said with the citations below it: each numbered result once, and each a *)
(* link the provider gave. Blanks around the text are kept only in a       *)
(* stream. A collected answer calls tools only if the text is one envelope *)
(* of tools that were offered, and then holds nothing else, and the plain  *)
(* envelope of an offered tool is a call even if a stop sequence begins in *)
(* it; otherwise no stop sequence begins in it, and what was cut off       *)
(* begins with one. It is an error exactly if nothing was said             *)
(* (deepseek-stream.ts:232-238, 439-473, 532-554; openai.ts:285-287,       *)
(* 320-366; openaiCompat.ts:213-260).                                      *)
AnswerAsAsked ==
  LET said == IF request.stream THEN TextsOn("content") ELSE Trim(TextsOn("content"))
      list == Citations(results)
      full == IF list = <<>> THEN said
              ELSE IF said = <<>> /\ ~request.stream THEN list ELSE said \o <<"gap">> \o list
      reasoned == IF request.stream THEN TextsOn("thinking") ELSE Trim(TextsOn("thinking"))
      stops == ToSet(request.stop) \ {<<>>}
      rest == SubSeq(full, Len(body.content) + 1, Len(full))
  IN  /\ ToSet(list) \cap Urls = {results[k].url : k \in {j \in 1..Len(results) : results[j].number # 0}}
      /\ \A url \in ToSet(list) \cap Urls :
           url \in Linked /\ Cardinality(Occurrences(<<url>>, list)) = 1
      /\ at = "answered" /\ body.calls # <<>> =>
           /\ ~request.stream /\ wantsTools(request)
           /\ ToSet(body.calls) \subseteq ToSet(request.tools) \ {"nameless"}
           /\ ToSet(full) \ {Open, Close, "junk", Fence, Blank} = ToSet(body.calls)
           /\ body.content = <<>> /\ body.finish = "tool_calls"
      /\ at = "answered" /\ ~request.stream /\ wantsTools(request) =>
           \A tool \in ToSet(request.tools) \ {"nameless"} :
             full = <<Open, tool, Close>> => body.calls = <<tool>>
      /\ at = "answered" /\ body.calls = <<>> =>
           /\ IsPrefix(body.content, full)
           /\ request.stream => rest = <<>>
           /\ ~request.stream =>
                \A s \in stops : \A i \in Occurrences(s, full) : i > Len(body.content)
           /\ rest # <<>> => \E s \in stops : IsPrefix(s, rest)
      /\ at = "refused" /\ prompt # <<>> => full = <<>> /\ reasoned = <<>>
      /\ at = "answered" => full # <<>> \/ reasoned # <<>>
=============================================================================
