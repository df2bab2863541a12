---------------------------- MODULE Conversation ----------------------------
(***************************************************************************)
(* From OMP's conversation to the bytes a worker reads: extractMessageText,*)
(* normalizeMessage, extractToolCalls, buildNormalizedRequest and          *)
(* hoistSystemMessages (src/src/provider.ts), and the two encoders of      *)
(* src/src/adapters.  A text is the pair <<message, block>> it came from.  *)
(* Records have the field names of the code, for these are what travels.   *)
(*                                                                         *)
(* The conversation itself is OMP's, written from how the code reads it:   *)
(* a developer's note may come at any place, also between a tool call and  *)
(* its result.                                                             *)
(***************************************************************************)
EXTENDS Integers, SequencesExt, Loops

CONSTANTS
    Profiles,       \* [adapter, ceiling, toolAllowlist] of the profiles in use
    Tools,          \* names of OMP's tools
    UserBlocks,     \* block lists of user messages
    AnswerBlocks,   \* block lists of assistant messages
    MaxMessages     \* bound: messages of a conversation

\* A tool call names its tool; its id is the place it stands at.
Block == [type : {"text", "image", "thinking"}] \cup [type : {"toolCall"}, name : Tools]
NoRequest == [messages |-> <<>>]

ASSUME ConversationAssumption ==
    /\ MaxMessages \in Nat
    /\ UserBlocks \subseteq Seq(Block) /\ AnswerBlocks \subseteq Seq(Block)
    /\ \A blocks \in UserBlocks : \A k \in DOMAIN blocks : blocks[k].type # "toolCall"
    /\ \A p \in Profiles : p.adapter \in {"none", "openai-shaped", "messages-text", "module"}

VARIABLES
    context,    \* context.messages: [role, content]
    asked,      \* a request for the context as it stands is at a worker
    request,    \* the normalized request last built
    wire        \* the body of that request, none when it could not be encoded

cvars == <<context, asked, request, wire>>

-----------------------------------------------------------------------------
\* extractMessageText and extractToolCalls of message i, block by block.
BlocksOf(m, type) == {k \in DOMAIN m.content : m.content[k].type = type}
TextOf(i, m)  == Keep(Len(m.content), [k \in DOMAIN m.content |-> <<i, k>>], BlocksOf(m, "text"))
CallsOf(i, m) == Keep(Len(m.content),
                      [k \in DOMAIN m.content |-> [id |-> <<i, k>>, name |-> m.content[k].name]],
                      BlocksOf(m, "toolCall"))

\* normalizeMessage: an assistant's calls are a field only when there are any.
NormalizeAnswer(i, m) ==
    LET calls == CallsOf(i, m)
    IN  IF calls = <<>>
        THEN [role |-> "assistant", content |-> TextOf(i, m)]
        ELSE [role |-> "assistant", content |-> TextOf(i, m), toolCalls |-> calls]
NormalizeMessage(i, m) ==
    CASE m.role = "user"       -> [role |-> "user", content |-> TextOf(i, m)]
      [] m.role = "developer"  -> [role |-> "system", content |-> TextOf(i, m)]
      [] m.role = "assistant"  -> NormalizeAnswer(i, m)
      [] m.role = "toolResult" -> [role |-> "tool", content |-> TextOf(i, m), name |-> m.toolName]

\* hoistSystemMessages.
IsSystem(m) == m.role = "system"
System(ms)    == Keep(Len(ms), ms, {i \in DOMAIN ms : IsSystem(ms[i])})
NonSystem(ms) == Keep(Len(ms), ms, {i \in DOMAIN ms : ~IsSystem(ms[i])})
Joined(ms) == FlattenSeq([k \in DOMAIN ms |-> ms[k].content])
InPlace(ms) == ms
HoistWithoutCopy(ms) ==
    LET system == System(ms)
    IN  IF system = <<>> THEN ms
        ELSE <<[role |-> "system", content |-> system[1].content]>> \o NonSystem(ms)
HoistSystemMessages(ms) ==
    LET system == System(ms)
    IN  IF system = <<>> THEN ms
        ELSE <<[role |-> "system", content |-> Joined(system)]>> \o NonSystem(ms)
LastAnswer == SelectLastInSeq(context, LAMBDA m : m.role = "assistant")
NormalizedAfresh ==
    [i \in DOMAIN context |->
        IF context[i].role = "assistant" /\ i # LastAnswer
        THEN [role |-> "assistant", content |-> TextOf(i, context[i])]
        ELSE NormalizeMessage(i, context[i])]
Normalized == [i \in DOMAIN context |-> NormalizeMessage(i, context[i])]

\* The catalog: an empty allowlist allows everything, an empty catalog is no field.
Catalog(p, tools) == IF p.toolAllowlist = {} THEN tools ELSE tools \cap p.toolAllowlist
BaseRequest(p, messages, ceiling) ==
    [messages |-> messages, maxTokens |-> IF ceiling = 0 THEN p.ceiling ELSE ceiling]
BuildNormalizedRequest(p, messages, tools, ceiling) ==
    LET base == BaseRequest(p, messages, ceiling)
    IN  IF Catalog(p, tools) = {} THEN base
        ELSE [messages |-> messages, maxTokens |-> base.maxTokens, tools |-> Catalog(p, tools)]

\* The encoders; a direct transport has none and sends the request as it is.
\* A module's adapter and a text without a user are refused before any request.
IsUser(m) == m.role = "user"
FirstUserText(ms) == ms[SelectInSeq(ms, IsUser)].content
LatestUserText(ms) == ms[SelectLastInSeq(ms, IsUser)].content
EncodeOpenAiShaped(r) == r
EncodeMessagesText(r) == [messages |-> r.messages, text |-> LatestUserText(r.messages)]
Encodable(p, r) ==
    /\ p.adapter # "module"
    /\ p.adapter = "messages-text" => SelectInSeq(r.messages, IsUser) # 0
Encode(p, r) == IF p.adapter = "messages-text" THEN EncodeMessagesText(r) ELSE EncodeOpenAiShaped(r)

-----------------------------------------------------------------------------
\* What OMP puts in the conversation.
Message(role, blocks) == [role |-> role, content |-> blocks]
OneText == <<[type |-> "text"]>>
Extend(m) ==
    /\ Len(context) < MaxMessages
    /\ context' = Append(context, m)
    /\ UNCHANGED <<request, wire>>

UserSays(blocks)  == ~asked /\ Extend(Message("user", blocks)) /\ UNCHANGED asked
DeveloperNotes    == ~asked /\ Extend(Message("developer", OneText)) /\ UNCHANGED asked
\* The answer a turn ends with; it may be empty.
AssistantAnswers(blocks) ==
    asked /\ wire # <<>> /\ Extend(Message("assistant", blocks)) /\ asked' = FALSE
TurnFails         == asked /\ asked' = FALSE /\ UNCHANGED <<context, request, wire>>

\* The calls of the last answer that have no result yet, in their order; a
\* user who speaks before that gives them up.
Pending ==
    LET calls == IF LastAnswer = 0 THEN <<>> ELSE CallsOf(LastAnswer, context[LastAnswer])
        Since(role) == {i \in DOMAIN context : i > LastAnswer /\ context[i].role = role}
    IN  IF Since("user") # {} THEN <<>>
        ELSE SubSeq(calls, Cardinality(Since("toolResult")) + 1, Len(calls))
ToolReturns ==
    /\ ~asked /\ Pending # <<>>
    /\ Extend([role |-> "toolResult", content |-> OneText, toolName |-> Head(Pending).name])
    /\ UNCHANGED asked

\* One attempt: the request is built for its profile and encoded.  A retry or
\* a fallback asks again before an answer has come.
Ask(p) ==
    /\ context # <<>>
    /\ asked' = TRUE
    /\ \E messages \in {HoistSystemMessages(Normalized)}, tools \in {{}, Tools}, ceiling \in {0, 1} :
           request' = BuildNormalizedRequest(p, messages, tools, ceiling)
    /\ wire' = IF Encodable(p, request') THEN <<Encode(p, request')>> ELSE <<>>
    /\ UNCHANGED context

ConversationInit ==
    context = <<>> /\ asked = FALSE /\ request = NoRequest /\ wire = <<>>

ConversationNext ==
    \/ \E blocks \in UserBlocks : UserSays(blocks)
    \/ DeveloperNotes
    \/ \E blocks \in AnswerBlocks : AssistantAnswers(blocks)
    \/ TurnFails
    \/ ToolReturns
    \/ \E p \in Profiles : Ask(p)

ConversationSpec == ConversationInit /\ [][ConversationNext]_cvars

-----------------------------------------------------------------------------
Sent      == request.messages
SentTexts == FlattenSeq([k \in DOMAIN Sent |-> Sent[k].content])
HasCalls(m) == "toolCalls" \in DOMAIN m
SentCalls == FlattenSeq([k \in DOMAIN Sent |-> IF HasCalls(Sent[k]) THEN Sent[k].toolCalls ELSE <<>>])

\* "No message content is dropped": every text and every tool call of the
\* conversation is in the request once, and of two that are both notes, or
\* both not, the earlier one is still the earlier one.
IsNote(id) == context[id[1]].role = "developer"
Earlier(a, b) == a[1] < b[1] \/ (a[1] = b[1] /\ a[2] < b[2])
InOrder(ids) == \A j, k \in DOMAIN ids :
    (j < k /\ (IsNote(ids[j]) <=> IsNote(ids[k]))) => Earlier(ids[j], ids[k])
AllBlocks(type) == UNION {{<<i, k>> : k \in BlocksOf(context[i], type)} : i \in DOMAIN context}
SameConversation == asked =>
    /\ ToSet(SentTexts) = AllBlocks("text") /\ InOrder(SentTexts)
    /\ LET ids == [k \in DOMAIN SentCalls |-> SentCalls[k].id]
       IN  ToSet(ids) = AllBlocks("toolCall") /\ InOrder(ids)

\* Where chat templates want the messages, whatever places OMP gave its notes:
\* "a single system message at the very beginning", and a tool result behind
\* its calls with only other results between.  It is about places alone, and
\* does not say that a template accepts the result: the calls are sent in a field
\* toolCalls, where the comment of normalizeMessage has OpenAI's tool_calls.
MessagesPlaced == asked =>
    \A k \in DOMAIN Sent :
        /\ IsSystem(Sent[k]) => k = 1
        /\ Sent[k].role = "tool" => k > 1 /\ (Sent[k - 1].role = "tool" \/ HasCalls(Sent[k - 1]))

\* Over a conversation a request begins with the whole of the one before, the
\* system message at its head included, unless a note came in between: that
\* one is hoisted to the head, and then only the messages behind it are still
\* as they were ("all non-system messages keep their relative order").
Rest(r)  == NonSystem(r.messages)
AllNotes == {id \in AllBlocks("text") : IsNote(id)}
HistoryOnlyGrows ==
    [][/\ IsPrefix(Rest(request), Rest(request'))
       /\ AllNotes \subseteq ToSet(SentTexts) => IsPrefix(Sent, request'.messages)]_request

\* A text worker is asked what the user said last, whatever came behind it.
AsksLatest == (asked /\ wire # <<>> /\ "text" \in DOMAIN wire[1]) =>
    \E i \in DOMAIN context :
        /\ context[i].role = "user" /\ wire[1].text = TextOf(i, context[i])
        /\ \A j \in DOMAIN context : j > i => context[j].role # "user"
=============================================================================
