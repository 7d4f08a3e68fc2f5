----------------------------- MODULE ProviderStream -----------------------------
(***************************************************************************)
(* One answer of a provider on its way to a client: the bytes are parsed   *)
(* into canonical events, which the writer of the client's format turns    *)
(* into frames, the collector into a buffered answer and the capture into  *)
(* the audit payload; what the client makes of the answer comes back in    *)
(* its next request, where it is normalised again.  A payload of the wire  *)
(* is cut into a head, a tail and a newline, chunks end anywhere, inside a *)
(* character too.  Texts and arguments are sequences of pieces; "open" and *)
(* "close" stand for {"input":" and "}, the JSON around the input of a     *)
(* custom tool, and a name is [base, n]: namespace and name, with the      *)
(* suffix n if n > 1.                                                      *)
(***************************************************************************)
EXTENDS Naturals, Sequences, FiniteSets, SequencesExt

CONSTANTS
    Turns,      \* [route, backend, tools, answer, cut]: requests with the answers they get;
                \* cut: the payloads in which a chunk of the body ends inside a character, and
                \* the place of that character in the text or the arguments
    MaxChunk,   \* pieces in a chunk of the body, at most
    None

IsCall(p, k) == p.type = "call" /\ p.index = k

\* The first delta of a call.
Opens(ps, i) == ps[i].type = "call" /\ \A k \in 1..(i - 1) : ~IsCall(ps[k], ps[i].index)
Continues(ps, i, j) == i < j /\ Opens(ps, i) /\ IsCall(ps[j], ps[i].index)

\* A call's first delta gives its name; later ones repeat it or leave it out.
CallsAgree(ps) == \A i, j \in DOMAIN ps : Continues(ps, i, j) => ps[j].name \in {None, ps[i].name}
\* The same of its id, which nobody promises.
SteadyIds(ps) == \A i, j \in DOMAIN ps : Continues(ps, i, j) => ps[j].id \in {None, ps[i].id}

Tokens == [input : Nat, output : Nat, total : Nat]
PieceOf(p) == IF p.type = "text" THEN p.text ELSE p.args

\* What providers send.
ASSUME TurnsAssumption ==
    /\ None # "custom" /\ None \notin Tokens
    /\ \A t \in Turns :
        /\ t.tools \in Seq(ToSet(t.tools)) /\ t.answer \in Seq(ToSet(t.answer))
        /\ \A p \in ToSet(t.answer) :
             /\ p.type \in {"text", "call", "usage", "finish", "[DONE]"}
             /\ p.type = "text" => p.text \in Seq(STRING) \ {<< >>}
             /\ p.type = "call" => p.index \in Nat /\ p.args \in Seq(STRING)
             /\ p.type = "usage" => p.usage \in Tokens
        /\ CallsAgree(t.answer)
        /\ t.backend # "agent" => DOMAIN t.cut = {}
        /\ \A i \in DOMAIN t.cut :
             /\ i \in DOMAIN t.answer /\ t.answer[i].type \in {"text", "call"}
             /\ t.cut[i] \in DOMAIN PieceOf(t.answer[i])

VARIABLES
    turn,
    pos,        \* pieces of the wire received
    buffer,     \* the incomplete line kept from the last chunk
    parser,     \* [started, finish, closed, usage, calls, events]: the generator; whether it
                \* passed usage and calls on, and all it yielded
    writer,     \* [out, started, block, items, usage, closed]: the writer of the frames
    status      \* "reading", "ended" or "broken" (the connection threw)

vars == <<turn, pos, buffer, parser, writer, status>>

(* --------------------------- tools of a request -------------------------- *)

Plain(name) == [base |-> <<None, name>>, n |-> 1]

\* Characters outside [a-zA-Z0-9_-] become underscores.
Sanitized(name) == IF name = "a.b" THEN "a_b" ELSE name

\* A name in use gets the first suffix that is free.
CanonicalName(base, used) ==
    LET Free(n) == [base |-> base, n |-> n] \notin used
    IN  [base |-> base,
         n |-> CHOOSE n \in 1..(Cardinality(used) + 1) : Free(n) /\ \A k \in 1..(n - 1) : ~Free(k)]

AddAdapter(made, t) ==
    Append(made, [canonical |-> CanonicalName(<<t.namespace, Sanitized(t.name)>>,
                                              {made[i].canonical : i \in DOMAIN made}),
                  name |-> Plain(t.name), type |-> t.type, namespace |-> t.namespace])
\* normalizeResponsesTools: an adapter per tool, in the order of the tools.
Adapters(tools) == FoldLeft(AddAdapter, << >>, tools)

AdaptersOf == IF turn.route = "openai_responses" THEN Adapters(turn.tools) ELSE << >>

\* Array.find.
FindFirst(s, Test(_)) == LET i == SelectInSeq(s, Test) IN IF i = 0 THEN None ELSE s[i]

AdapterOf(name) == FindFirst(AdaptersOf, LAMBDA a : a.canonical = name)

EmptyObject == <<"{}">>
Wrap(text) == <<"open">> \o text \o <<"close">>
Wrapped(args) == Len(args) >= 2 /\ Head(args) = "open" /\ Last(args) = "close"
\* customToolInput
Unwrap(args) == IF Wrapped(args) THEN SubSeq(args, 2, Len(args) - 1) ELSE args

(* ------------------------- the wire and the parser ------------------------ *)

Start == [type |-> "message_start"]
Done(reason) == [type |-> "done", reason |-> IF reason = None THEN "stop" ELSE reason]

Pieces == [k \in 1..(3 * Len(turn.answer)) |->
              [of |-> (k + 2) \div 3, part |-> <<"head", "tail", "newline">>[((k - 1) % 3) + 1]]]

NewLine == [line |-> << >>, lines |-> << >>]
\* A line that a newline ends counts if it begins with "data: ".
SplitPiece(got, p) ==
    IF p.part # "newline" THEN [got EXCEPT !.line = Append(@, p)]
    ELSE [line |-> << >>,
          lines |-> IF got.line # << >> /\ Head(got.line).part = "head"
                    THEN Append(got.lines, Head(got.line).of) ELSE got.lines]
\* buffer.split
Split(text) == FoldLeft(SplitPiece, NewLine, text)

WholeLines(text) == Split(text).lines
\* Mutant: each chunk starts a new buffer.
KeptFresh(text) == << >>
\* lines.pop(): what follows the last newline.
Kept(text) == Split(text).line

NewParser == [started |-> FALSE, finish |-> None, closed |-> FALSE, usage |-> FALSE,
              calls |-> FALSE, events |-> << >>]
Yield(st, es) == [st EXCEPT !.events = @ \o es]
\* emitMessageStart
Begin(st) == IF st.started THEN st ELSE [Yield(st, <<Start>>) EXCEPT !.started = TRUE]
Close(st, reason) == [Yield(st, <<Done(reason)>>) EXCEPT !.closed = TRUE]

\* chunk.toString('utf8'): each chunk is decoded alone, and a character that one ends in
\* becomes replacement characters on both sides.
Replaced == "replaced"
Garbled(p, k) ==
    IF p.type = "text" THEN [type |-> "text", text |-> [p.text EXCEPT ![k] = Replaced]]
    ELSE [type |-> "call", index |-> p.index, id |-> p.id, name |-> p.name,
          args |-> [p.args EXCEPT ![k] = Replaced]]
\* A payload as the generator gets it.
Payload(i) == IF i \in DOMAIN turn.cut THEN Garbled(turn.answer[i], turn.cut[i]) ELSE turn.answer[i]

\* What a payload makes the generator yield; the end of the stream is known by [DONE].
Parse(st, p) ==
    IF st.closed THEN st
    ELSE CASE p.type = "[DONE]" -> Close(st, st.finish)
           [] p.type = "finish" -> [Begin(st) EXCEPT !.finish = p.reason]
           [] OTHER             -> Yield(Begin(st), <<p>>)

ParseLine(st, i) == Parse(st, Payload(i))
ParseAll(st, lines) == FoldLeft(ParseLine, st, lines)

(* ----------------------- collector, capture, envelope --------------------- *)

NoAnswer == [text |-> << >>, calls |-> << >>, usage |-> None, finish |-> None]

\* Sparse arrays: calls is a function on the indices seen so far.
Extended(calls, i, call) == [j \in DOMAIN calls \cup {i} |-> IF j = i THEN call ELSE calls[j]]

Merged(call, e) == [id |-> call.id, name |-> IF e.name = None THEN call.name ELSE e.name,
                    args |-> call.args \o e.args]
NewCall(e) == [id |-> e.id, name |-> e.name, args |-> e.args]

\* Mutant: every delta starts the call anew.
CollectCallAnew(calls, e) == Extended(calls, e.index, NewCall(e))
CollectCall(calls, e) ==
    Extended(calls, e.index, IF e.index \in DOMAIN calls THEN Merged(calls[e.index], e)
                             ELSE NewCall(e))

\* The buffered answer; without done finalizeDirectResult writes the reason "stop".
Collect(a, e) ==
    CASE e.type = "text"  -> [a EXCEPT !.text = @ \o e.text]
      [] e.type = "call"  -> [a EXCEPT !.calls = CollectCall(@, e)]
      [] e.type = "usage" -> [a EXCEPT !.usage = e.usage]
      [] e.type = "done"  -> [a EXCEPT !.finish = e.reason]
      [] OTHER            -> a

\* The capture of a stream keeps the latest id of a call.
CaptureCall(calls, e) ==
    Extended(calls, e.index,
        IF e.index \notin DOMAIN calls THEN NewCall(e)
        ELSE [Merged(calls[e.index], e) EXCEPT !.id = IF e.id = None THEN @ ELSE e.id])

Capture(a, e) == IF e.type = "call" THEN [a EXCEPT !.calls = CaptureCall(@, e)] ELSE Collect(a, e)

\* The usage of a buffered answer: zeros without one, and a total that is missing is added up.
Counted(usage) ==
    IF usage = None THEN [input |-> 0, output |-> 0, total |-> 0]
    ELSE [input |-> usage.input, output |-> usage.output,
          total |-> IF usage.total = 0 THEN usage.input + usage.output ELSE usage.total]

CollectAll(es) == FoldLeft(Collect, NoAnswer, es)
CaptureAll(es) == FoldLeft(Capture, NoAnswer, es)
Buffered == CollectAll(parser.events)
Captured == CaptureAll(parser.events)

(* -------------------------- the tool calls of a client -------------------- *)

\* responsesToolCallItem and customToolInput.
ToolItem(call) ==
    LET a == AdapterOf(call.name)
    IN  IF a # None /\ a.type = "custom"
        THEN [type |-> "custom_tool_call", id |-> call.id, name |-> a.name, namespace |-> None,
              args |-> Unwrap(call.args)]
        ELSE [type |-> "function_call", id |-> call.id,
              name |-> IF a = None THEN call.name ELSE a.name,
              namespace |-> IF a = None THEN None ELSE a.namespace, args |-> call.args]

\* Mutant: the type of the tool is not compared.
FindAdapterByName(name, namespace, type) ==
    FindFirst(AdaptersOf, LAMBDA a : a.name = name /\ a.namespace = namespace)
FindAdapter(name, namespace, type) ==
    FindFirst(AdaptersOf, LAMBDA a : /\ a.name = name /\ a.namespace = namespace
                                     /\ (type = None \/ a.type = type))

\* convertResponsesInputItem: a call the client sends back in its next request.
NormalizedItem(item) ==
    LET a == IF item.type = "custom_tool_call" THEN FindAdapter(item.name, None, "custom")
             ELSE FindAdapter(item.name, item.namespace, None)
    IN  [id |-> item.id, name |-> IF a = None THEN item.name ELSE a.canonical,
         args |-> IF item.type = "custom_tool_call" THEN Wrap(item.args)
                  ELSE IF item.args = << >> THEN EmptyObject ELSE item.args]

\* A tool_use block holds the parsed arguments, {} when they are no JSON; its way back
\* prints them again (serializeAnthropicMessages, convertAnthropicMessage).
NormalizedBlock(call) ==
    [call EXCEPT !.args = IF Wrapped(@) \/ @ = EmptyObject THEN @ ELSE EmptyObject]

NormalizedCall(call) ==
    CASE turn.route = "openai_responses"   -> NormalizedItem(ToolItem(call))
      [] turn.route = "anthropic_messages" -> NormalizedBlock(call)
      [] OTHER                             -> call

(* ------------------------- the frames of a stream ------------------------- *)

NewWriter == [out |-> << >>, started |-> FALSE, block |-> FALSE, items |-> << >>,
              usage |-> None, closed |-> FALSE]
Frame(f) == [frame |-> f]
Emit(w, frames) == [w EXCEPT !.out = @ \o frames]
Started(w, f) == IF w.started THEN w ELSE [Emit(w, f) EXCEPT !.started = TRUE]
Closed(w, f) == [Emit(w, f) EXCEPT !.closed = TRUE]

Chat(w, e) ==
    LET begun == Started(w, <<Frame("role")>>)
    IN  CASE e.type = "message_start" -> [Emit(w, <<Frame("role")>>) EXCEPT !.started = TRUE]
          [] e.type = "text"  -> Emit(begun, <<[frame |-> "content", text |-> e.text]>>)
          [] e.type = "call"  -> Emit(begun, <<[frame |-> "tool_calls", index |-> e.index,
                                              id |-> e.id, name |-> e.name, args |-> e.args]>>)
          [] e.type = "usage" -> Emit(w, <<[frame |-> "usage", usage |-> e.usage]>>)
          [] e.type = "done"  -> Closed(w, <<[frame |-> "finish", reason |-> e.reason],
                                            Frame("[DONE]")>>)

AnthropicReason(r) == CASE r \in {"stop", "content_filter"} -> "end_turn" [] r = "tool_calls" -> "tool_use"
                        [] r = "length" -> "max_tokens" [] OTHER -> r

\* The usage of a message_delta leaves the tokens read out.
OutputOnly(usage) == IF usage = None THEN None ELSE [output |-> usage.output]

\* A call's deltas are written without the block they belong to.
Anthropic(w, e) ==
    LET begun == Started(w, <<Frame("message_start")>>)
        open  == IF begun.block THEN begun
                 ELSE [Emit(begun, <<Frame("content_block_start")>>) EXCEPT !.block = TRUE]
    IN  CASE e.type = "message_start" -> begun
          [] e.type = "text"  -> Emit(open, <<[frame |-> "content", text |-> e.text]>>)
          [] e.type = "call"  -> Emit(w, <<[frame |-> "input_json", index |-> e.index, args |-> e.args]>>)
          [] e.type = "usage" -> Emit(w, <<[frame |-> "usage", usage |-> OutputOnly(e.usage)]>>)
          [] e.type = "done"  ->
                Closed(w, (IF w.block THEN <<Frame("content_block_stop")>> ELSE << >>)
                          \o <<[frame |-> "finish", reason |-> AnthropicReason(e.reason)],
                               Frame("message_stop")>>)

\* Mutant: a call's place among the calls only.
PlaceOfNewCall(w) == Len(SelectSeq(w.items, LAMBDA x : x.kind = "tool"))
\* outputStates.length
PlaceOfNew(w) == Len(w.items)

ItemAdded(w, item) ==
    [Emit(w, <<[frame |-> "item.added", at |-> item.at, kind |-> item.kind]>>)
        EXCEPT !.items = Append(@, item)]
ItemOf(w, kind, i) == {k \in DOMAIN w.items : w.items[k].kind = kind /\ w.items[k].index = i}

More(e) == IF e.type = "text" THEN e.text ELSE e.args
Grow(item, e) ==
    IF e.type = "text" THEN [item EXCEPT !.args = @ \o e.text]
    ELSE [item EXCEPT !.args = @ \o e.args, !.id = IF e.id = None THEN @ ELSE e.id,
                      !.name = IF e.name = None THEN @ ELSE e.name]

\* The input of a custom tool is not written before its item is done.
Quiet(item) == item.kind = "tool" /\ AdapterOf(item.name) # None /\ AdapterOf(item.name).type = "custom"
DeltaOf(item, more) ==
    IF Quiet(item) THEN << >>
    ELSE <<[frame |-> "delta", at |-> item.at, kind |-> item.kind, args |-> more]>>

Delta(w, kind, i, e) ==
    LET k == CHOOSE k \in ItemOf(w, kind, i) : TRUE
        item == Grow(w.items[k], e)
    IN  [Emit(w, DeltaOf(item, More(e))) EXCEPT !.items[k] = item]

CompletedItem(item) ==
    IF item.kind = "text" THEN [type |-> "message", args |-> item.args]
    ELSE ToolItem([id |-> item.id, name |-> item.name, args |-> item.args])

Responses(w, e) ==
    LET begun == Started(w, <<Frame("response.created"), Frame("response.in_progress")>>)
        i     == IF e.type = "call" THEN e.index ELSE 0
        kind  == IF e.type = "call" THEN "tool" ELSE "text"
        known == IF ItemOf(begun, kind, i) # {} THEN begun
                 ELSE ItemAdded(begun, [kind |-> kind, index |-> i, at |-> PlaceOfNew(begun),
                                        id |-> IF kind = "tool" THEN e.id ELSE None,
                                        name |-> IF kind = "tool" THEN e.name ELSE None,
                                        args |-> << >>])
    IN  CASE e.type = "message_start"    -> begun
          [] e.type \in {"text", "call"} -> Delta(known, kind, i, e)
          [] e.type = "usage"            -> [w EXCEPT !.usage = e.usage]
          [] e.type = "done" ->
                Closed(begun, [k \in DOMAIN w.items |-> [frame |-> "item.done", at |-> w.items[k].at,
                                                         item |-> CompletedItem(w.items[k])]]
                              \o <<[frame |-> "completed", usage |-> Counted(w.usage), output |->
                                    [k \in DOMAIN w.items |-> CompletedItem(w.items[k])]]>>)

Write(w, e) ==
    IF w.closed THEN w
    ELSE CASE turn.route = "openai_responses"   -> Responses(w, e)
           [] turn.route = "anthropic_messages" -> Anthropic(w, e)
           [] OTHER                             -> Chat(w, e)
WriteAll(w, es) == FoldLeft(Write, w, es)

(* ------------------------------- behaviour -------------------------------- *)

Yielded(st) == SubSeq(st.events, Len(parser.events) + 1, Len(st.events))
\* What the parser yields the writer pulls at once.
Advance(st) ==
    /\ parser' = st
    /\ writer' = WriteAll(writer, Yielded(st))

\* A chunk of the response body; it ends in the characters that are cut, and in no other.
Receive(n) ==
    LET text == buffer \o SubSeq(Pieces, pos + 1, pos + n)
        st   == ParseAll(parser, WholeLines(text))
    IN  /\ status = "reading" /\ turn.backend = "agent" /\ pos + n <= Len(Pieces)
        /\ \A i \in DOMAIN turn.cut : 3 * i - 2 \notin (pos + 1)..(pos + n - 1)
        /\ pos' = pos + n /\ buffer' = Kept(text)
        /\ Advance(st)
        /\ status' = IF st.closed THEN "ended" ELSE status
        /\ UNCHANGED turn

\* The body ends, whole or cut off: the line left in the buffer is read if it is whole.
\* A writer whose stream ends without done closes as if it had stopped.
EndOfBody ==
    LET left == IF {"head", "tail"} = {buffer[i].part : i \in DOMAIN buffer} THEN <<buffer[1].of>>
                ELSE << >>
        st   == ParseAll(parser, left)
    IN  /\ status = "reading" /\ turn.backend = "agent"
        /\ status' = "ended" /\ parser' = st
        /\ writer' = Write(WriteAll(writer, Yielded(st)), Done(None))
        /\ UNCHANGED <<turn, pos, buffer>>

\* The connection breaks, or the library's stream yields an error chunk, which the terminal
\* throws again: the error passes the generators and leaves the writer as it is.
Break ==
    /\ status = "reading" /\ status' = "broken"
    /\ UNCHANGED <<turn, pos, buffer, parser, writer>>

\* The answer as its provider holds it: each call in one piece and numbered from 0.
Whole == CaptureAll(turn.answer)
CallsWhole ==
    LET rank == [k \in DOMAIN Whole.calls |-> Cardinality({j \in DOMAIN Whole.calls : j < k})]
    IN  [i \in 1..Cardinality(DOMAIN Whole.calls) |->
            LET c == Whole.calls[CHOOSE k \in DOMAIN Whole.calls : rank[k] = i - 1]
            IN  [type |-> "call", index |-> i - 1, id |-> c.id, name |-> c.name, args |-> c.args]]
TextWhole == IF Whole.text = << >> THEN << >> ELSE <<[type |-> "text", text |-> Whole.text]>>
UsageWhole == IF Whole.usage = None THEN << >> ELSE <<[type |-> "usage", usage |-> Whole.usage]>>
FinishOf ==
    LET ends == {i \in DOMAIN turn.answer : turn.answer[i].type = "finish"}
    IN  IF ends = {} THEN None ELSE turn.answer[Max(ends)].reason

\* completionJsonToEvents: an answer in one JSON document.
ReceiveJson ==
    /\ status = "reading" /\ turn.backend = "json"
    /\ status' = "ended"
    /\ Advance(Close(Yield(Begin(parser), TextWhole \o CallsWhole \o UsageWhole), FinishOf))
    /\ UNCHANGED <<turn, pos, buffer>>

\* toGatewayNormalizedStream: a chunk of the library; "late" providers leave usage and
\* calls to the done chunk, which repeats them in any case.
ReceiveChunk ==
    LET p == turn.answer[pos + 1]
    IN  /\ status = "reading" /\ turn.backend \in {"bridge", "bridge_late"} /\ pos < Len(turn.answer)
        /\ pos' = pos + 1
        /\ IF p.type \in {"finish", "[DONE]"} \/ (turn.backend = "bridge_late" /\ p.type # "text")
           THEN UNCHANGED <<parser, writer>>
           ELSE LET st == IF p.type = "usage" THEN parser ELSE Begin(parser)
                IN  Advance([Yield(st, <<p>>) EXCEPT !.usage = @ \/ p.type = "usage",
                                                     !.calls = @ \/ p.type = "call"])
        /\ UNCHANGED <<turn, buffer, status>>

LateUsage(st) == IF st.usage THEN << >> ELSE UsageWhole
LateCalls(st) == IF st.calls THEN << >> ELSE CallsWhole

\* The done chunk; a source that ends without one is given a plain one.
ReceiveDone ==
    /\ status = "reading" /\ turn.backend \in {"bridge", "bridge_late"}
    /\ status' = "ended"
    /\ \/ /\ pos = Len(turn.answer)
          /\ Advance(Close(Yield(Begin(parser), LateUsage(parser) \o LateCalls(parser)), FinishOf))
       \/ /\ pos < Len(turn.answer)
          /\ Advance(Close(Begin(parser), None))
    /\ UNCHANGED <<turn, pos, buffer>>

Ended == status # "reading" /\ UNCHANGED vars

Init ==
    /\ turn \in Turns
    /\ pos = 0 /\ buffer = << >> /\ status = "reading"
    /\ parser = NewParser
    /\ writer = NewWriter

Next == \/ \E n \in 1..MaxChunk : Receive(n)
        \/ EndOfBody \/ ReceiveJson \/ ReceiveChunk \/ ReceiveDone \/ Break \/ Ended

Spec == Init /\ [][Next]_vars

(* ------------------------------- properties ------------------------------- *)

\* No text, no calls, no usage is lost, repeated or reordered between the provider and the
\* readers of the canonical stream, however the body is cut into lines and chunks and whether
\* the done chunk of the library repeats what was streamed: at any time the parser has yielded
\* exactly the payloads whose lines have arrived, with the characters replaced that a chunk
\* ended in and no others.  parseSSE, completionJsonToEvents and toGatewayNormalizedStream.
EventsAreTheAnswer ==
    /\ turn.backend = "agent" =>
         LET lines == (pos + (IF status = "ended" THEN 1 ELSE 0)) \div 3
         IN  parser.events = ParseAll(NewParser, [i \in 1..lines |-> i]).events
    /\ (turn.backend # "agent" /\ parser.closed /\ (turn.backend = "json" \/ pos = Len(turn.answer))) =>
         /\ Captured.text = Whole.text /\ Captured.usage = Whole.usage
         /\ {Captured.calls[i] : i \in DOMAIN Captured.calls} = {Whole.calls[i] : i \in DOMAIN Whole.calls}

\* DS007 says that a valid stream must preserve text and tool-call deltas.  It does not where
\* a chunk of the body ends inside a character (parseSSE of ploinky-agent-openai).
DeltasPreserved ==
    (status = "ended" /\ turn.backend = "agent" /\ pos = Len(Pieces)) =>
        /\ Captured.text = Whole.text
        /\ \A i \in DOMAIN Whole.calls : Captured.calls[i].args = Whole.calls[i].args

Filled(a) == [a EXCEPT !.finish = IF @ = None THEN "stop" ELSE @]
\* finalizeDirectResult
Envelope(a) == [Filled(a) EXCEPT !.usage = Counted(@)]
IdsAside(calls) == [i \in DOMAIN calls |-> [name |-> calls[i].name, args |-> calls[i].args]]
WithArgs(item) == [item EXCEPT !.args = IF @ = << >> THEN EmptyObject ELSE @]
\* A client of Chat Completions or Messages that reads the frames one by one.
ReadFrame(a, f) ==
    CASE f.frame = "content"    -> [a EXCEPT !.text = @ \o f.text]
      [] f.frame = "tool_calls" -> [a EXCEPT !.calls = CaptureCall(@, f)]
      [] f.frame = "usage"      -> [a EXCEPT !.usage = f.usage]
      [] f.frame = "finish"     -> [a EXCEPT !.finish = f.reason]
      [] OTHER                  -> a
ReadAll(out) == FoldLeft(ReadFrame, NoAnswer, out)

\* What the audit row keeps of a stream is the answer its client would have been sent without
\* streaming: text, calls, usage and finish reason, and the ids of the calls unless one
\* changes on the way; and what a client puts together from the frames of the stream is what
\* the audit row keeps (for Messages, all but the calls and the tokens read).
\* canonical-stream-to-sse, stream-collector, response-capture and the serializers reduce the
\* same events separately.
StreamEqualsBuffered ==
    status = "ended" =>
        /\ [Envelope(Captured) EXCEPT !.calls = IdsAside(@)] = [Envelope(Buffered) EXCEPT !.calls = IdsAside(@)]
        /\ SteadyIds(parser.events) => Envelope(Captured) = Envelope(Buffered)
        /\ turn.route = "openai_chat" => ReadAll(writer.out) = Filled(Captured)
        /\ turn.route = "anthropic_messages" =>
             ReadAll(writer.out) = [Filled(Captured) EXCEPT !.calls = << >>, !.finish = AnthropicReason(@),
                                                            !.usage = OutputOnly(@)]
        /\ turn.route = "openai_responses" =>
             /\ {WithArgs(x) : x \in ToSet(Last(writer.out).output)} =
                   {WithArgs(ToolItem(WithArgs(Captured.calls[i]))) : i \in DOMAIN Captured.calls}
                   \cup (IF Captured.text = << >> THEN {}
                         ELSE {[type |-> "message", args |-> Captured.text]})
             /\ Last(writer.out).usage = Counted(Captured.usage)

AddDelta(sums, f) ==
    IF f.frame = "delta"
    THEN Extended(sums, f.at, IF f.at \in DOMAIN sums THEN sums[f.at] \o f.args ELSE f.args)
    ELSE sums
\* What the deltas of each place add up to.
Sums(out) == FoldLeft(AddDelta, << >>, out)
SumAt(out, at) == IF at \in DOMAIN Sums(out) THEN Sums(out)[at] ELSE << >>

\* The frames of a Responses stream fit together: an item is added before it grows, each at
\* a place of its own; what its deltas add up to is what it is done with (a custom tool's
\* input comes whole); each is done once, and the completed response comes last and lists
\* the items by place.  toResponsesSse.
ResponsesFramesLegal ==
    turn.route = "openai_responses" =>
        LET out   == writer.out
            Adds(k)    == out[k].frame = "item.added"
            Dones(at)  == {k \in DOMAIN out : out[k].frame = "item.done" /\ out[k].at = at}
        IN  /\ \A k \in DOMAIN out : out[k].frame = "delta" =>
                    \E j \in 1..(k - 1) : Adds(j) /\ out[j].at = out[k].at /\ out[j].kind = out[k].kind
            /\ \A j, k \in DOMAIN out : (Adds(j) /\ Adds(k) /\ out[j].at = out[k].at) => j = k
            /\ \A k \in DOMAIN out : out[k].frame = "completed" =>
                 /\ k = Len(out)
                 /\ \A j \in DOMAIN out : Adds(j) =>
                      /\ Cardinality(Dones(out[j].at)) = 1
                      /\ LET item == out[CHOOSE d \in Dones(out[j].at) : TRUE].item
                         IN  /\ out[k].output[out[j].at + 1] = item
                             /\ item.type # "custom_tool_call" => item.args = SumAt(out, out[j].at)

\* Tools whose calls can keep their meaning: no two of a name and type, no function beside a
\* custom tool of its name, no custom tool in a namespace (its calls do not carry one).
Distinct(a) ==
    /\ \A b \in ToSet(AdaptersOf) \ {a} :
         (b.name = a.name /\ b.namespace = a.namespace) => (a.type = "custom" /\ b.type = "function")
    /\ a.type = "custom" => a.namespace = None
\* A call that the client sends back in its next turn reaches the provider as the provider
\* made it: same id, name and arguments, for tools in namespaces, names that had to be
\* sanitised or numbered, and custom tools.  normalizeResponsesTools, findResponsesAdapter,
\* responsesToolCallItem, convertResponsesInputItem, convertAnthropicMessage.
ToolCallsRoundTrip ==
    status = "ended" =>
        \A i \in DOMAIN Buffered.calls :
            LET c == Buffered.calls[i]
                a == AdapterOf(c.name)
                legal == CASE turn.route = "openai_responses"   ->
                                 a # None /\ Distinct(a) /\ (a.type = "custom" => Wrapped(c.args))
                           [] turn.route = "anthropic_messages" ->
                                 Wrapped(c.args) \/ c.args \in {<< >>, EmptyObject}
                           [] OTHER -> TRUE
            IN  legal => WithArgs(NormalizedCall(c)) = WithArgs(c)

===============================================================================
