------------------------------- MODULE Answers -------------------------------
(***************************************************************************)
(* How a worker's answer becomes an assistant message: decodeOpenAiShaped  *)
(* (src/src/adapters/openai-shaped.ts), the events of executeStream        *)
(* (transport/queue.ts), parseSse with its tool-call fragments             *)
(* (transport/load-balanced.ts) and replayRunpodStream (provider.ts).      *)
(*                                                                         *)
(* The worker sends units: one completion, the chunks of a generator or    *)
(* the frames of an SSE document.  A text, a thought or the JSON text of a *)
(* call's arguments is the sequence of the units it came from, so that     *)
(* what is lost, repeated or reordered on the way shows; a call of a       *)
(* completion is <<unit, place>>, one of a document <<index>>.             *)
(*                                                                         *)
(* A frame with several fragments stands for several frames: the loop of   *)
(* accumulateToolCallFragments takes them one after the other.             *)
(***************************************************************************)
EXTENDS Integers, SequencesExt, Loops

CONSTANTS
    Chunks,     \* completions a worker may put out
    Frames,     \* SSE frames a worker may send
    MaxUnits,   \* bound: units of one answer
    MaxIndex    \* bound: indices of tool calls

\* A tool call of a completion may have its arguments cut off or bare of any;
\* one that lacks an id or a name is broken, and skipped.
Chunk == [text : {"absent", "empty", "some"}, think : BOOLEAN,
          calls : Seq({"call", "cut", "bare", "broken"})]
\* A fragment tells the index of its call and may carry id and name, and a piece
\* of the JSON text of an object; json is FALSE of a frame that is not JSON.
Frame == [think : BOOLEAN, text : BOOLEAN, index : (0..MaxIndex) \cup {-1},
          id : BOOLEAN, name : BOOLEAN, args : {"none", "head", "mid", "tail", "whole"},
          json : BOOLEAN]

ASSUME AnswersAssumption ==
    /\ Chunks \subseteq Chunk /\ Frames \subseteq Frame
    /\ MaxUnits \in Nat \ {0} /\ MaxIndex \in Nat

VARIABLES
    source,     \* "completion", "chunks" or "frames"
    units,      \* what the worker sent
    phase,      \* "sent", "decoded", "replayed" or "refused"
    result,     \* the transport's result
    content,    \* blocks of the assistant message
    arguments,  \* of its tool calls
    emitted,    \* events pushed to the assistant stream
    stop        \* its stop reason

avars == <<source, units, phase, result, content, arguments, emitted, stop>>

Unit(i, present) == IF present THEN <<i>> ELSE <<>>
NoAnswer  == [text |-> <<>>, think |-> <<>>, calls |-> <<>>]
NoResult  == [whole |-> FALSE, response |-> NoAnswer, events |-> <<>>]
\* An event of a result, or a block of a message.
Item(t, body) == [type |-> t, body |-> body]
Items(t, bodies) == [k \in DOMAIN bodies |-> Item(t, bodies[k])]
Concat(seqs) == FlattenSeq(seqs)

AnswersInit ==
    /\ \/ source = "completion" /\ units \in {<<c>> : c \in Chunks}
       \/ source = "chunks" /\ units \in UNION {[1..n -> Chunks] : n \in 1..MaxUnits}
       \/ source = "frames" /\ units \in UNION {[1..n -> Frames] : n \in 0..MaxUnits}
    /\ phase = "sent"
    /\ result = NoResult /\ content = <<>> /\ arguments = <<>> /\ emitted = <<>> /\ stop = "none"

-----------------------------------------------------------------------------
\* decodeOpenAiShaped: content or a usable tool call must be there.
Usable(m)    == {k \in DOMAIN m.calls : m.calls[k] # "broken"}
Supported(m) == m.text # "absent" \/ Usable(m) # {}
Decode(i, m) ==
    [text  |-> Unit(i, m.text = "some"),
     think |-> Unit(i, m.think),
     calls |-> Keep(Len(m.calls), [k \in DOMAIN m.calls |-> <<i, k>>], Usable(m))]

\* executeStream: thinking and calls of a chunk, then its text in any case.
TextUnlessCalls(i, m) ==
    LET d == Decode(i, m)
    IN  Items("toolcall", d.calls)
        \o (IF d.calls = <<>> THEN <<Item("text", d.text)>> ELSE <<>>)
ChunkEvents(i, m) ==
    LET d == Decode(i, m)
    IN  (IF d.think # <<>> THEN <<Item("reasoning", d.think)>> ELSE <<>>)
        \o Items("toolcall", d.calls)
        \o <<Item("text", d.text)>>

\* parseSse: accumulateToolCallFragments keeps, per index, whether an id and a
\* name have come and the arguments so far; complete calls follow by index.
NoParts == [id |-> FALSE, name |-> FALSE, args |-> <<>>]
Indices == 0..MaxIndex
LastFragmentOnly(p, i, f) ==
    [id |-> p.id \/ f.id, name |-> p.name \/ f.name, args |-> Unit(i, f.args # "none")]
Accumulate(p, i, f) ==
    [id |-> p.id \/ f.id, name |-> p.name \/ f.name, args |-> p.args \o Unit(i, f.args # "none")]
Parts ==
    LET parts[n \in 0..Len(units)] ==
            IF n = 0 THEN [x \in Indices |-> NoParts]
            ELSE IF units[n].index = -1 THEN parts[n - 1]
            ELSE [parts[n - 1] EXCEPT ![units[n].index] = Accumulate(@, n, units[n])]
    IN  parts[Len(units)]
Complete == {x \in Indices : Parts[x].id /\ Parts[x].name}
Ascending(S) == Keep(MaxIndex + 1, [k \in 1..(MaxIndex + 1) |-> k - 1], {x + 1 : x \in S})
SseCalls ==
    LET order == Ascending(Complete)
    IN  [k \in DOMAIN order |-> <<order[k]>>]

FrameEvents(i) ==
    (IF units[i].think THEN <<Item("reasoning", <<i>>)>> ELSE <<>>)
    \o (IF units[i].text THEN <<Item("text", <<i>>)>> ELSE <<>>)

\* A completion, or an SSE document, gives a response; the events of the latter
\* come along.  A stream of chunks gives events only.
Completion == [whole |-> TRUE, response |-> Decode(1, units[1]), events |-> <<>>]
Stream     == [whole |-> FALSE, response |-> NoAnswer,
               events |-> Concat([i \in DOMAIN units |-> ChunkEvents(i, units[i])])]
Document   == [whole |-> TRUE,
               response |-> [text  |-> Concat([i \in DOMAIN units |-> Unit(i, units[i].text)]),
                             think |-> Concat([i \in DOMAIN units |-> Unit(i, units[i].think)]),
                             calls |-> SseCalls],
               events |-> Concat([i \in DOMAIN units |-> FrameEvents(i)])
                          \o Items("toolcall", SseCalls)]

\* A completion without anything usable, or a frame that is not JSON, refuses
\* the whole answer.
Readable(m) == IF source = "frames" THEN m.json ELSE Supported(m)
Transport ==
    /\ phase = "sent"
    /\ \/ /\ \A i \in DOMAIN units : Readable(units[i])
          /\ result' = (CASE source = "completion" -> Completion
                          [] source = "chunks"     -> Stream
                          [] source = "frames"     -> Document)
          /\ phase' = "decoded"
       \/ /\ \E i \in DOMAIN units : ~Readable(units[i])
          /\ phase' = "refused" /\ UNCHANGED result
    /\ UNCHANGED <<source, units, content, arguments, emitted, stop>>

-----------------------------------------------------------------------------
\* replayRunpodStream.
Bodies(items, t) ==
    LET of == Keep(Len(items), items, {k \in DOMAIN items : items[k].type = t})
    IN  [k \in DOMAIN of |-> of[k].body]

Texts    == IF ~result.whole THEN Bodies(result.events, "text")
            ELSE IF result.response.text = <<>> THEN <<>> ELSE <<result.response.text>>
Thinking == IF result.whole THEN result.response.think ELSE Concat(Bodies(result.events, "reasoning"))
Calls    == IF result.whole THEN result.response.calls ELSE Bodies(result.events, "toolcall")
Thought  == IF Thinking = <<>> THEN <<>> ELSE <<Thinking>>

\* argumentsJson of a call, and whether it is the text of a JSON object.
ArgumentsJson(c) ==
    CASE source = "frames" -> Parts[c[1]].args
      [] source # "frames" -> IF units[c[1]].calls[c[2]] = "bare" THEN <<>> ELSE c
IsObject(json) ==
    IF source # "frames" THEN json # <<>> /\ units[json[1]].calls[json[2]] = "call"
    ELSE LET piece(n) == units[json[n]].args
         IN  \/ Len(json) = 1 /\ piece(1) = "whole"
             \/ /\ Len(json) > 1 /\ piece(1) = "head" /\ piece(Len(json)) = "tail"
                /\ \A n \in 2..(Len(json) - 1) : piece(n) = "mid"
\* parseArguments: what does not parse becomes an object without any entry.
ParseArguments(json) == IF IsObject(json) THEN json ELSE <<>>
CallsJson == [k \in DOMAIN Calls |-> ArgumentsJson(Calls[k])]

\* Each block is pushed as start, delta and end under its content index.  The
\* delta of a call is its JSON text, its end the block of the message.
Push(what, index, body) == [what |-> what, index |-> index, body |-> body]
Triples(deltas, bodies, from) ==
    Concat([i \in DOMAIN bodies |-> << Push("start", from + i - 1, <<>>),
                                       Push("delta", from + i - 1, deltas[i]),
                                       Push("end", from + i - 1, bodies[i]) >>])
TextPushes == Triples(Thought, Thought, 0) \o Triples(Texts, Texts, Len(Thought))
CallsOverTexts == TextPushes \o Triples(CallsJson, Calls, Len(Thought))
Pushes == TextPushes \o Triples(CallsJson, Calls, Len(Thought) + Len(Texts))

Replay ==
    /\ phase = "decoded"
    /\ content' = Items("thinking", Thought) \o Items("text", Texts) \o Items("toolCall", Calls)
    /\ arguments' = [k \in DOMAIN Calls |-> ParseArguments(CallsJson[k])]
    /\ emitted' = Pushes
    /\ stop' = (IF Calls = <<>> THEN "stop" ELSE "toolUse")
    /\ phase' = "replayed"
    /\ UNCHANGED <<source, units, result>>

AnswersNext == Transport \/ Replay

AnswersSpec == AnswersInit /\ [][AnswersNext]_avars

-----------------------------------------------------------------------------
\* A consumer that follows the events: a start opens the next block, a delta
\* extends what the block of its index was given, an end brings the block.
Opened == [given |-> <<>>, block |-> <<>>]
Lost   == <<[given |-> <<-1>>, block |-> <<-1>>]>>      \* no unit has this number
Follow(built, e) ==
    CASE e.what = "start" /\ e.index = Len(built) -> Append(built, Opened)
      [] e.what = "delta" /\ e.index + 1 \in DOMAIN built ->
            [built EXCEPT ![e.index + 1].given = @ \o e.body]
      [] e.what = "end" /\ e.index + 1 \in DOMAIN built -> [built EXCEPT ![e.index + 1].block = e.body]
      [] OTHER -> Lost

Followed ==
    LET built[n \in 0..Len(emitted)] ==
            IF n = 0 THEN <<>> ELSE Follow(built[n - 1], emitted[n])
    IN  built[Len(emitted)]

\* The events and the final message agree: a consumer that follows the events
\* ends with the blocks of `done`, in their order, and its deltas amount to the
\* text of a block or, for a call, to JSON whose parsing gives the arguments,
\* which are none when it was cut off.
EventsBuildMessage ==
    phase = "replayed" =>
        LET Ahead == Len(content) - Len(arguments)
        IN  /\ Len(Followed) = Len(content)
            /\ \A i \in DOMAIN content :
                  /\ Followed[i].block = content[i].body
                  /\ IF content[i].type = "toolCall"
                     THEN ParseArguments(Followed[i].given) = arguments[i - Ahead]
                     ELSE Followed[i].given = content[i].body

\* The units that carried it, in the order they were sent.
Carriers(S) == Keep(Len(units), [i \in DOMAIN units |-> i], S)

\* Nothing the worker said is dropped, repeated or reordered, whichever of the
\* three forms its answer took: all its text is in the text blocks, all its
\* thinking in one block before them, and the usable calls of its completions
\* in blocks of their own, each once and in their order, with the arguments
\* that were whole.
NothingLost ==
    phase = "replayed" =>
        LET Said == {i \in DOMAIN units :
                        IF source = "frames" THEN units[i].text ELSE units[i].text = "some"}
            Thought1 == {i \in DOMAIN units : units[i].think}
            called == Bodies(content, "toolCall")
        IN  /\ Concat(Bodies(content, "text")) = Carriers(Said)
            /\ Concat(Bodies(content, "thinking")) = Carriers(Thought1)
            /\ Len(Bodies(content, "thinking")) <= 1
            /\ source # "frames" =>
                 /\ ToSet(called) = UNION {{<<i, k>> : k \in Usable(units[i])} : i \in DOMAIN units}
                 /\ \A j, k \in DOMAIN called : j < k =>
                       \/ called[j][1] < called[k][1]
                       \/ called[j][1] = called[k][1] /\ called[j][2] < called[k][2]
                 /\ \A k \in DOMAIN called :
                       units[called[k][1]].calls[called[k][2]] = "call" => arguments[k] = called[k]

\* The tool calls of an SSE document: an index is a call exactly when an id and
\* a name came for it, its arguments are what all its fragments in the order
\* they arrived parse to, nothing if these are no object, and calls follow each
\* other by index whatever the order they came.
CallsReassembled ==
    phase = "replayed" /\ source = "frames" =>
        LET Named(x) == /\ \E i \in DOMAIN units : units[i].index = x /\ units[i].id
                        /\ \E i \in DOMAIN units : units[i].index = x /\ units[i].name
            Json(x) == Carriers({i \in DOMAIN units : units[i].index = x /\ units[i].args # "none"})
            named == Ascending({x \in Indices : Named(x)})
        IN  /\ Bodies(content, "toolCall") = [k \in DOMAIN named |-> <<named[k]>>]
            /\ arguments = [k \in DOMAIN named |-> ParseArguments(Json(named[k]))]
            /\ stop = "toolUse" <=> named # <<>>
===============================================================================
