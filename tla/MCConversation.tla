--------------------------- MODULE MCConversation ---------------------------
(* Conversation for TLC: short conversations with every kind of message,   *)
(* and requests that use what is done to the answer.                       *)
EXTENDS Conversation

Part(name, place, suffix, bytes) ==
  [name |-> name, place |-> place, data |-> [suffix |-> suffix, bytes |-> bytes]]

(* Named and unnamed, before and after the text, one content by two names  *)
(* and one name for two contents.                                          *)
Attached ==
  {<<>>, <<Part("logo.png", 1, ".png", "b1")>>,
   <<Part(Unnamed, 2, ".png", "b1"), Part("my+cv", 3, ".pdf", "b2")>>,
   <<Part("image-1", 1, ".png", "b2"), Part(Unnamed, 3, ".png", "b1")>>,
   <<Part("scan", 1, ".pdf", "b2"), Part("scan", 2, ".png", "b2")>>}

SomeTexts == {<<"hi">>, <<"yo", "<Assistant>">>}

Messages ==
  [role : {"system", "assistant"}, text : SomeTexts, files : {<<>>}]
    \cup [role : {"user"}, text : SomeTexts, files : Attached]
    \cup {[role |-> "user", text |-> <<>>, files |-> <<Part(Unnamed, 1, ".png", "b2")>>],
          [role |-> "system", text |-> <<"json">>, files |-> <<>>]}

Simple == {m \in Messages : m.text = <<"hi">> /\ Len(m.files) # 1}

Conversations ==
  {<<m>> : m \in Messages} \cup {<<m, n>> : m, n \in Messages}
    \cup {<<m, n, o>> : m, n, o \in Simple}

Default ==
  [messages |-> <<[role |-> "user", text |-> <<"hi">>, files |-> <<>>]>>,
   json |-> FALSE, tools |-> <<>>, tool_choice |-> "auto", stop |-> <<>>,
   stream |-> FALSE, model |-> "deepseek-v4-flash"]

Asking ==
  {[Default EXCEPT !.messages = c, !.json = j, !.tools = t] :
     c \in Conversations, j \in BOOLEAN, t \in {<<>>, <<"nameless", "get">>}}

Finishing ==
  {[Default EXCEPT !.tools = t, !.tool_choice = c, !.stop = s, !.stream = b, !.model = m] :
     t \in {<<>>, <<"get">>, <<"nameless">>}, c \in {"auto", "none", "required", "evil"},
     s \in {<<>>, <<<<>>, <<"x">>>>, <<<<"y">>, <<"x", "y">>>>, <<<<"}">>>>},
     b \in BOOLEAN, m \in {"gpt-4o", "gpt-4o-mini"}}

MCRequests == Asking \cup Finishing

MCAnswers ==
  {[kind |-> "text", path |-> "content", text |-> t] :
     t \in {<<" ", "x">>, <<"y", "FINISHED">>, <<"{", "get">>, <<"}">>, <<"{", "evil", "}">>,
            <<Fence, " ", "{", "get", "}", Fence>>}}
  \cup {[kind |-> "text", path |-> "thinking", text |-> <<"x">>],
        [kind |-> "results", items |-> <<[url |-> "u1", valid |-> TRUE, number |-> 2],
                                         [url |-> "u2", valid |-> TRUE, number |-> 0]>>],
        [kind |-> "results", items |-> <<[url |-> "u1", valid |-> FALSE, number |-> 1],
                                         [url |-> "u2", valid |-> TRUE, number |-> 2]>>],
        [kind |-> "batch", entry |-> 2, number |-> 1]}
=============================================================================
