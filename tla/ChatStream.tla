----------------------------- MODULE ChatStream -----------------------------
(***************************************************************************)
(* The streaming state machine of src/types/streaming.rs: it receives Chat *)
(* Completions chunks, accumulates their deltas and emits the events of a  *)
(* Responses API stream.  One action receives one chunk, one receives      *)
(* [DONE].  Text, reasoning, refusals and tool arguments are sequences of  *)
(* pieces; a piece names the chunk it came from, so that a lost, doubled   *)
(* or reordered piece shows.                                               *)
(*                                                                         *)
(* A chunk here has one choice, as every provider sends when n is not set. *)
(***************************************************************************)
EXTENDS Integers, Sequences, FiniteSets, SequencesExt

CONSTANTS
    SlotCount,      \* tool call indexes the upstream uses are 0..SlotCount-1
    CustomSlots,    \* the indexes whose tool name is in custom_tool_names
    Chunks,         \* the chunk shapes the upstream may send
    MaxChunks,      \* bound on the chunks of one stream
    TransportStarts,      \* the handler sent created / in_progress itself
    ToolsResumeAfterText  \* the upstream may go back to a call after text

Slots == 0..(SlotCount - 1)

ToolDelta == [index : Slots,
              id    : {"none", "empty", "given"},
              args  : {"none", "part", "end"}]

Fields == [choices   : BOOLEAN,         \* FALSE: a usage-only chunk
           reasoning : BOOLEAN,         \* a nonempty reasoning_content
           text      : BOOLEAN,         \* a nonempty content
           refusal   : BOOLEAN,         \* a nonempty refusal
           has_tools : BOOLEAN,         \* tool_calls is present (maybe empty)
           tools     : Seq(ToolDelta),
           finish    : {"none", "stop", "length", "content_filter"},
           usage     : BOOLEAN]

\* The rest of a chunk is in its choice, and tool deltas are in tool_calls.
Chunk == {c \in Fields :
             /\ c.tools # <<>> => c.has_tools
             /\ ~c.choices => ~(c.reasoning \/ c.text \/ c.refusal \/ c.has_tools)}

ASSUME ChatStreamAssumption ==
    /\ SlotCount \in Nat
    /\ CustomSlots \subseteq Slots
    /\ Chunks \subseteq Chunk
    /\ MaxChunks \in Nat
    /\ TransportStarts \in BOOLEAN
    /\ ToolsResumeAfterText \in BOOLEAN

VARIABLES
    ss,     \* the StreamState, with the events emitted so far in ss.log
    sent,   \* the chunks the upstream has sent
    done    \* [DONE] was processed

vars == <<ss, sent, done>>

-----------------------------------------------------------------------------
(* Pieces, events, items.                                                  *)

Kinds == {"reasoning", "message", "function_call", "custom_tool_call"}

Piece(n, kind, pos) == [n |-> n, kind |-> kind, pos |-> pos]

Event(type, index, kind, data) ==
    [type |-> type, index |-> index, kind |-> kind, data |-> data]

\* An output item.  `index` is the output index it was announced at: the code
\* does not keep it in the item, the properties need it.
Item(kind, index, slot, data) ==
    [kind |-> kind, index |-> index, slot |-> slot, data |-> data,
     refused |-> FALSE, logprobs |-> <<>>]

\* Each event takes the next sequence number.
EmitAll(s, events) ==
    LET numbered == [k \in DOMAIN events |->
                        [type |-> events[k].type, index |-> events[k].index,
                         kind |-> events[k].kind, data |-> events[k].data,
                         seq  |-> s.next_sequence_number + k - 1]]
    IN  [s EXCEPT !.log = @ \o numbered,
                  !.next_sequence_number = @ + Len(events)]

Emit(s, event) == EmitAll(s, <<event>>)

EmptySlot == [id |-> "", arguments |-> <<>>, output_index |-> 0,
              is_custom |-> FALSE]

Lifecycle == <<Event("created", -1, "response", <<>>),
               Event("in_progress", -1, "response", <<>>)>>

\* The handlers emit the two lifecycle events with the numbers 0 and 1 and
\* leave next_sequence_number at 0.
TransportEvents ==
    EmitAll([log |-> <<>>, next_sequence_number |-> 0], Lifecycle).log

NewState ==
    [reasoning_content |-> <<>>, reasoning_output_index |-> 0,
     accumulated_text |-> <<>>, msg_output_index |-> 0,
     has_refusal |-> FALSE, text_logprobs |-> <<>>,
     tool_calls |-> [k \in Slots |-> EmptySlot],
     completed_items |-> <<>>, finish_reason |-> "none", usage |-> FALSE,
     has_started |-> TransportStarts,
     next_output_index |-> 0, next_sequence_number |-> 0,
     log |-> IF TransportStarts THEN TransportEvents ELSE <<>>]

-----------------------------------------------------------------------------
(* Closing items.                                                          *)

close_reasoning_item(s) ==
    LET at   == s.reasoning_output_index
        text == s.reasoning_content
        s1   == EmitAll(s, <<Event("content_done", at, "reasoning", text),
                             Event("part_done", at, "reasoning", text),
                             Event("item_done", at, "reasoning", text)>>)
    IN  [s1 EXCEPT !.completed_items =
                       Append(@, Item("reasoning", at, -1, text))]

MessageItem(s) ==
    [Item("message", s.msg_output_index, -1, s.accumulated_text)
        EXCEPT !.refused = s.has_refusal,
               !.logprobs = IF s.has_refusal THEN <<>> ELSE s.text_logprobs]

\* Mutant: the closed message is not kept.
close_message_item_Unkept(s) ==
    LET at   == s.msg_output_index
        text == s.accumulated_text
    IN  EmitAll(s, <<Event("content_done", at, "message", text),
                     Event("part_done", at, "message", text),
                     Event("item_done", at, "message", text)>>)

close_message_item(s) ==
    LET at   == s.msg_output_index
        text == s.accumulated_text
        s1   == EmitAll(s, <<Event("content_done", at, "message", text),
                             Event("part_done", at, "message", text),
                             Event("item_done", at, "message", text)>>)
    IN  [s1 EXCEPT !.completed_items = Append(@, MessageItem(s))]

\* The freeform input inside the { input } wrapper; arguments that are not a
\* whole JSON wrapper are handed on as they are.
unwrap_custom_input(args) ==
    IF args # <<>> /\ Last(args).kind = "end"
    THEN [k \in DOMAIN args |-> [args[k] EXCEPT !.kind = "input"]]
    ELSE args

\* Mutant: the early return of the custom branch comes before the item is kept.
close_tool_call_item_CustomUnkept(s, k) ==
    LET slot   == s.tool_calls[k]
        at     == slot.output_index
        input  == unwrap_custom_input(slot.arguments)
    IN  IF slot.is_custom
        THEN EmitAll(s, <<Event("delta", at, "custom_tool_call", input),
                          Event("content_done", at, "custom_tool_call", input),
                          Event("item_done", at, "custom_tool_call", input)>>)
        ELSE [EmitAll(s, <<Event("content_done", at, "function_call", slot.arguments),
                           Event("item_done", at, "function_call", slot.arguments)>>)
              EXCEPT !.completed_items =
                  Append(@, Item("function_call", at, k, slot.arguments))]

\* A custom call is announced to the client as custom_tool_call, but kept in
\* completed_items in its function shape.
close_tool_call_item(s, k) ==
    LET slot   == s.tool_calls[k]
        at     == slot.output_index
        input  == unwrap_custom_input(slot.arguments)
        events == IF slot.is_custom
                  THEN <<Event("delta", at, "custom_tool_call", input),
                         Event("content_done", at, "custom_tool_call", input),
                         Event("item_done", at, "custom_tool_call", input)>>
                  ELSE <<Event("content_done", at, "function_call", slot.arguments),
                         Event("item_done", at, "function_call", slot.arguments)>>
    IN  [EmitAll(s, events) EXCEPT !.completed_items =
            Append(@, Item("function_call", at, k, slot.arguments))]

CloseOpenSlot(s, k) ==
    IF s.tool_calls[k].id = "" THEN s ELSE close_tool_call_item(s, k)

\* What text does to the open tool calls: close each, then forget its id, name
\* and arguments (but not its output index or is_custom).
CloseAndClearSlot(s, k) ==
    IF s.tool_calls[k].id = "" THEN s
    ELSE [close_tool_call_item(s, k) EXCEPT
             !.tool_calls[k].id = "", !.tool_calls[k].arguments = <<>>]

\* The slots in their order.
CloseOpenSlots(s) ==
    LET closed[k \in 0..SlotCount] ==
            IF k = 0 THEN s ELSE CloseOpenSlot(closed[k - 1], k - 1)
    IN  closed[SlotCount]

CloseAndClearSlots(s) ==
    LET closed[k \in 0..SlotCount] ==
            IF k = 0 THEN s ELSE CloseAndClearSlot(closed[k - 1], k - 1)
    IN  closed[SlotCount]

-----------------------------------------------------------------------------
(* Emitting deltas.                                                        *)

emit_reasoning_delta(s, piece) ==
    LET at == s.next_output_index
        s1 == IF s.reasoning_content # <<>> THEN s
              ELSE EmitAll([s EXCEPT !.next_output_index = @ + 1,
                                     !.reasoning_output_index = at],
                           <<Event("item_added", at, "reasoning", <<>>),
                             Event("part_added", at, "reasoning", <<>>)>>)
        s2 == [s1 EXCEPT !.reasoning_content = Append(@, piece)]
    IN  Emit(s2, Event("delta", s2.reasoning_output_index, "reasoning", <<piece>>))

\* Mutant: the message takes the index after the one it reserved.
OpenMessage_OffByOne(s) ==
    LET at == s.next_output_index
    IN  IF s.accumulated_text # <<>> THEN s
        ELSE EmitAll([s EXCEPT !.next_output_index = @ + 1,
                               !.msg_output_index = at + 1],
                     <<Event("item_added", at, "message", <<>>),
                       Event("part_added", at, "message", <<>>)>>)

\* Common to emit_text_delta and emit_refusal_delta: the first piece of a
\* message announces it.
OpenMessage(s) ==
    LET at == s.next_output_index
    IN  IF s.accumulated_text # <<>> THEN s
        ELSE EmitAll([s EXCEPT !.next_output_index = @ + 1,
                               !.msg_output_index = at],
                     <<Event("item_added", at, "message", <<>>),
                       Event("part_added", at, "message", <<>>)>>)

\* Mutant: each delta repeats the text so far.
emit_text_delta_Cumulative(s, piece) ==
    LET s1 == [OpenMessage(s) EXCEPT !.accumulated_text = Append(@, piece)]
    IN  Emit(s1, Event("delta", s1.msg_output_index, "message", s1.accumulated_text))

emit_text_delta(s, piece) ==
    LET s1 == [OpenMessage(s) EXCEPT !.accumulated_text = Append(@, piece)]
    IN  Emit(s1, Event("delta", s1.msg_output_index, "message", <<piece>>))

emit_refusal_delta(s, piece) ==
    LET s1 == [OpenMessage(s) EXCEPT !.accumulated_text = Append(@, piece),
                                     !.has_refusal = TRUE]
    IN  Emit(s1, Event("delta", s1.msg_output_index, "message", <<piece>>))

ToolKind(is_custom) == IF is_custom THEN "custom_tool_call" ELSE "function_call"

\* One entry of delta.tool_calls; `piece` is the argument text it carries.
emit_tool_call_delta(s, tc, piece) ==
    LET old        == s.tool_calls[tc.index]
        first_time == old.id = ""
        at         == IF first_time THEN s.next_output_index ELSE old.output_index
        \* The name comes with the id, on the delta that starts the call.
        is_custom  == old.is_custom \/ (tc.id = "given" /\ tc.index \in CustomSlots)
        new == [id           |-> CASE tc.id = "none"  -> old.id
                                   [] tc.id = "empty" -> ""
                                   [] tc.id = "given" -> "call",
                arguments    |-> IF tc.args = "none" THEN old.arguments
                                 ELSE Append(old.arguments, piece),
                output_index |-> at,
                is_custom    |-> is_custom]
        s1 == [s EXCEPT !.tool_calls[tc.index] = new,
                        !.next_output_index = IF first_time THEN @ + 1 ELSE @]
        s2 == IF first_time
              THEN Emit(s1, Event("item_added", at, ToolKind(is_custom), <<>>))
              ELSE s1
    IN  IF ~is_custom /\ tc.args # "none"
        THEN Emit(s2, Event("delta", at, "function_call", <<piece>>))
        ELSE s2

ArgsPiece(n, tools, j) == Piece(n, tools[j].args, j)

\* Mutant: the local sequence counter is not written back.
emit_tool_call_deltas_LocalSeq(s, tools, n) ==
    LET after[j \in 0..Len(tools)] ==
            IF j = 0 THEN s
            ELSE emit_tool_call_delta(after[j - 1], tools[j], ArgsPiece(n, tools, j))
    IN  [after[Len(tools)] EXCEPT !.next_sequence_number = s.next_sequence_number]

emit_tool_call_deltas(s, tools, n) ==
    LET after[j \in 0..Len(tools)] ==
            IF j = 0 THEN s
            ELSE emit_tool_call_delta(after[j - 1], tools[j], ArgsPiece(n, tools, j))
    IN  after[Len(tools)]

-----------------------------------------------------------------------------
(* process_chunk_value: the n-th chunk c.                                  *)

HasText(c) == c.text \/ c.refusal

\* Mutant: the reasoning is closed but not cleared.
Transitions_ReasoningKept(s, c) ==
    LET s1 == IF s.reasoning_content # <<>> /\ ~c.reasoning
              THEN close_reasoning_item(s) ELSE s
        s2 == IF s1.accumulated_text # <<>> /\ ~HasText(c) /\ c.has_tools
              THEN [close_message_item(s1) EXCEPT !.accumulated_text = <<>>,
                                                  !.has_refusal = FALSE]
              ELSE s1
    IN  IF HasText(c) THEN CloseAndClearSlots(s2) ELSE s2

\* Close the items whose delta type is no longer present.
Transitions(s, c) ==
    LET s1 == IF s.reasoning_content # <<>> /\ ~c.reasoning
              THEN [close_reasoning_item(s) EXCEPT !.reasoning_content = <<>>]
              ELSE s
        s2 == IF s1.accumulated_text # <<>> /\ ~HasText(c) /\ c.has_tools
              THEN [close_message_item(s1) EXCEPT !.accumulated_text = <<>>,
                                                  !.has_refusal = FALSE]
              ELSE s1
    IN  IF HasText(c) THEN CloseAndClearSlots(s2) ELSE s2

\* The provider returns logprobs with each piece of content.
TakeLogprobs(s, c, n) ==
    IF c.text THEN [s EXCEPT !.text_logprobs = Append(@, Piece(n, "text", 0))] ELSE s

Deltas(s, c, n) ==
    LET s1 == IF c.reasoning THEN emit_reasoning_delta(s, Piece(n, "reasoning", 0)) ELSE s
        s2 == IF c.text THEN emit_text_delta(s1, Piece(n, "text", 0)) ELSE s1
        s3 == IF c.refusal THEN emit_refusal_delta(s2, Piece(n, "refusal", 0)) ELSE s2
    IN  IF c.has_tools THEN emit_tool_call_deltas(s3, c.tools, n) ELSE s3

HasContent(c) == c.reasoning \/ HasText(c) \/ c.has_tools

\* The lifecycle events go in front of the chunk's own events, but are numbered
\* after them.
LifecycleStart(before, s, c) ==
    IF ~HasContent(c) \/ s.has_started THEN s
    ELSE LET k  == Len(before.log)
             s1 == EmitAll(s, Lifecycle)
             m  == Len(s.log)
         IN  [s1 EXCEPT !.has_started = TRUE,
                        !.log = SubSeq(@, 1, k) \o SubSeq(@, m + 1, m + 2)
                                \o SubSeq(@, k + 1, m)]

process_chunk_value(s, c, n) ==
    LET s1 == [s EXCEPT !.usage = @ \/ c.usage,
                        !.finish_reason = IF c.finish = "none" THEN @ ELSE c.finish]
        s2 == Deltas(TakeLogprobs(Transitions(s1, c), c, n), c, n)
    IN  IF ~c.choices THEN [s EXCEPT !.usage = @ \/ c.usage]
        ELSE LifecycleStart(s, s2, c)

-----------------------------------------------------------------------------
(* The items of the response, and the message kept as history.             *)

\* The calls that are open, in the order of their slots.
OpenCalls(s) ==
    LET call(k) == Item("function_call", s.tool_calls[k].output_index, k,
                        s.tool_calls[k].arguments)
    IN  FlattenSeq([j \in 1..SlotCount |->
                       IF s.tool_calls[j - 1].id = "" THEN <<>> ELSE <<call(j - 1)>>])

\* The accumulators that still hold content, as items.
OpenItems(s) ==
    LET reasoning == IF s.reasoning_content = <<>> THEN <<>>
                     ELSE <<Item("reasoning", s.reasoning_output_index, -1,
                                 s.reasoning_content)>>
        message   == IF s.accumulated_text = <<>> THEN <<>> ELSE <<MessageItem(s)>>
    IN  reasoning \o OpenCalls(s) \o message

\* What the SSE handler persists, at any moment of the stream.
build_response_from_state(s) == s.completed_items \o OpenItems(s)

FinalStatus(s) ==
    IF s.finish_reason \in {"length", "content_filter"} THEN "incomplete" ELSE "completed"

\* Mutant: a stream that ends in tool calls leaves them open.
CloseForCompletion_NoCalls(s) ==
    LET s1 == IF s.reasoning_content = <<>> THEN s ELSE close_reasoning_item(s)
    IN  IF s1.accumulated_text = <<>> THEN s1 ELSE close_message_item(s1)

CloseForCompletion(s) ==
    LET s1 == IF s.reasoning_content = <<>> THEN s ELSE close_reasoning_item(s)
        s2 == CloseOpenSlots(s1)
    IN  IF s2.accumulated_text = <<>> THEN s2 ELSE close_message_item(s2)

\* [DONE]: close what is open, then collect the items and send the final event.
build_completion_events(s) ==
    LET s1 == CloseForCompletion(s)
    IN  Emit(s1, Event(FinalStatus(s1), -1, "response",
                       s1.completed_items \o OpenItems(s1)))

ItemData(items) == FlattenSeq([j \in DOMAIN items |-> items[j].data])

Completed(s, kind) ==
    FlattenSeq([j \in DOMAIN s.completed_items |->
                   IF s.completed_items[j].kind = kind THEN <<s.completed_items[j]>>
                   ELSE <<>>])

\* The text of the closed messages that are refusals, or of those that are not.
ClosedText(s, refused) ==
    FlattenSeq([j \in DOMAIN s.completed_items |->
                   LET it == s.completed_items[j]
                   IN  IF it.kind = "message" /\ it.refused = refused THEN it.data
                       ELSE <<>>])

\* Mutant: only the message still open is kept, as without the recovery from
\* completed_items.
to_response_message_OpenOnly(s) ==
    LET open == OpenCalls(s)
    IN  [content   |-> IF s.has_refusal THEN <<>> ELSE s.accumulated_text,
         refusal   |-> IF s.has_refusal THEN s.accumulated_text ELSE <<>>,
         calls     |-> IF open # <<>> THEN open ELSE Completed(s, "function_call"),
         reasoning |-> IF s.reasoning_content # <<>> THEN s.reasoning_content
                       ELSE ItemData(Completed(s, "reasoning"))]

\* What the WebSocket handler persists: one assistant message.
to_response_message(s) ==
    LET texts    == ClosedText(s, FALSE)
        refusals == ClosedText(s, TRUE)
        open     == OpenCalls(s)
    IN  [content   |-> IF s.has_refusal THEN texts ELSE texts \o s.accumulated_text,
         refusal   |-> IF s.has_refusal THEN refusals \o s.accumulated_text
                       ELSE refusals,
         calls     |-> IF open # <<>> THEN open ELSE Completed(s, "function_call"),
         reasoning |-> IF s.reasoning_content # <<>> THEN s.reasoning_content
                       ELSE ItemData(Completed(s, "reasoning"))]

-----------------------------------------------------------------------------
(* The upstream and the steps.                                             *)

\* The chunk of `chunks` that starts tool call k carries its id and name.
StartsCall(c, k) == \E j \in DOMAIN c.tools : /\ c.tools[j].index = k
                                              /\ c.tools[j].id = "given"

Started(k) == \E n \in DOMAIN sent : StartsCall(sent[n], k)

TextAfterStart(k) ==
    \E n, m \in DOMAIN sent : n < m /\ StartsCall(sent[n], k) /\ HasText(sent[m])

\* The Chat API contract: calls are numbered in order and the first delta of a
\* call carries its id.  Unless ToolsResumeAfterText, a call that text has
\* followed is over.
UpstreamMaySend(c) ==
    \A j \in DOMAIN c.tools :
        LET k == c.tools[j].index IN
        IF Started(k)
        THEN ToolsResumeAfterText \/ ~(TextAfterStart(k) \/ HasText(c))
        ELSE /\ c.tools[j].id = "given"
             /\ \A i \in 0..(k - 1) : Started(i) \/ StartsCall(c, i)

Init ==
    /\ ss = NewState
    /\ sent = <<>>
    /\ done = FALSE

Receive(c) ==
    /\ ~done
    /\ Len(sent) < MaxChunks
    /\ UpstreamMaySend(c)
    /\ ss' = process_chunk_value(ss, c, Len(sent) + 1)
    /\ sent' = Append(sent, c)
    /\ done' = FALSE

ReceiveDone ==
    /\ ~done
    /\ ss' = build_completion_events(ss)
    /\ done' = TRUE
    /\ UNCHANGED sent

Next == (\E c \in Chunks : Receive(c)) \/ ReceiveDone

Spec == Init /\ [][Next]_vars

-----------------------------------------------------------------------------
(* What the client and the store make of it.                               *)

PieceType == [n : 1..MaxChunks, pos : Nat,
              kind : {"reasoning", "text", "refusal", "part", "end", "input"}]

\* The places in a log of the events with an output index.
EventsAt(log, i) == {a \in DOMAIN log : log[a].index = i}

DeltasAt(log, i) ==
    FlattenSeq([a \in DOMAIN log |->
                   IF log[a].index = i /\ log[a].type = "delta" THEN log[a].data ELSE <<>>])

\* The item the client has assembled for output index i.
ClientItem(log, i) ==
    LET At(type) == {a \in EventsAt(log, i) : log[a].type = type}
        added == CHOOSE a \in At("item_added") : TRUE
        end   == CHOOSE a \in At("item_done") : TRUE
    IN  [kind  |-> log[added].kind,
         data  |-> DeltasAt(log, i),
         open  |-> At("item_done") = {},
         final |-> IF At("item_done") = {} THEN <<>> ELSE log[end].data]

Announced(log) == {a \in DOMAIN log : log[a].type = "item_added"}

ClientItems == [i \in 1..Cardinality(Announced(ss.log)) |-> ClientItem(ss.log, i - 1)]

\* The pieces of one kind the upstream sent, in order.
SentPieces(Has(_), kind) ==
    FlattenSeq([n \in DOMAIN sent |->
                   IF sent[n].choices /\ Has(sent[n]) THEN <<Piece(n, kind, 0)>> ELSE <<>>])

\* What the client shows of these items, the messages in the order of their
\* indexes, and the pieces of one kind in it.
MessageText(items) ==
    FlattenSeq([i \in DOMAIN items |->
                   IF items[i].kind = "message" THEN items[i].data ELSE <<>>])

Only(kind, pieces) ==
    FlattenSeq([k \in DOMAIN pieces |->
                   IF pieces[k].kind = kind THEN <<pieces[k]>> ELSE <<>>])

\* Shapes, and the output index of whatever is open was handed out before.
TypeOK ==
    /\ DOMAIN ss = DOMAIN NewState
    /\ ss.reasoning_content \in Seq(PieceType) /\ ss.accumulated_text \in Seq(PieceType)
    /\ ss.text_logprobs \in Seq(PieceType)
    /\ \A k \in Slots : /\ ss.tool_calls[k].id \in {"", "call"}
                        /\ ss.tool_calls[k].arguments \in Seq(PieceType)
                        /\ ss.tool_calls[k].id # "" =>
                              ss.tool_calls[k].output_index \in 0..(ss.next_output_index - 1)
    /\ ss.reasoning_content # <<>> =>
          ss.reasoning_output_index \in 0..(ss.next_output_index - 1)
    /\ ss.accumulated_text # <<>> =>
          ss.msg_output_index \in 0..(ss.next_output_index - 1)
    /\ \A j \in DOMAIN ss.completed_items : /\ ss.completed_items[j].kind \in Kinds
                                            /\ ss.completed_items[j].data \in Seq(PieceType)
    /\ sent \in Seq(Chunks) /\ Len(sent) <= MaxChunks
    /\ done \in BOOLEAN

\* Every event after the transport's own two takes the next number: the tool
\* call path, which counts in a local copy, neither reuses nor skips one.
SequenceIsGapFree ==
    LET own == IF TransportStarts THEN 2 ELSE 0
    IN  \A k \in (own + 1)..Len(ss.log) : ss.log[k].seq = k - own - 1

Rank(type) ==
    CASE type = "item_added"   -> 1
      [] type = "part_added"   -> 2
      [] type = "delta"        -> 3
      [] type = "content_done" -> 4
      [] type = "part_done"    -> 5
      [] type = "item_done"    -> 6

\* The events of one output index form one item's life: announced once, then
\* its part, its deltas, its content and its end, in that order, and nothing
\* after the end.
ItemGrammar ==
    \A i \in 0..(ss.next_output_index - 1) :
        /\ \E a \in EventsAt(ss.log, i) : ss.log[a].type = "item_added"
        /\ \A a, b \in EventsAt(ss.log, i) : a < b =>
              /\ ss.log[a].kind = ss.log[b].kind
              /\ Rank(ss.log[a].type) <= Rank(ss.log[b].type)
              /\ ss.log[a].type = ss.log[b].type => ss.log[a].type = "delta"

\* The events a client reads are numbered without a gap and form whole items,
\* whatever mixture of chunks arrives.
EventsAreWellFormed == SequenceIsGapFree /\ ItemGrammar

\* The stream implements the item protocol a client relies on: see ItemProtocol.
Protocol == INSTANCE ItemProtocol WITH items <- ClientItems, finished <- done

ImplementsItemProtocol == Protocol!Spec

\* No piece of text or refusal is lost, doubled or reordered on its way to the
\* client, whatever it is interleaved with and however often the message is
\* closed and reopened.
TextIsRelayed ==
    /\ Only("text", MessageText(ClientItems)) = SentPieces(LAMBDA c : c.text, "text")
    /\ Only("refusal", MessageText(ClientItems)) = SentPieces(LAMBDA c : c.refusal, "refusal")

\* Persisting the stream before [DONE] (client gone, cancelled, upstream cut)
\* keeps every announced item exactly once, with what the client saw of it.
PartialStateKeepsItems ==
    ~done =>
        LET kept == build_response_from_state(ss)
        IN  /\ Len(kept) = ss.next_output_index
            /\ \A i \in 1..ss.next_output_index :
                  \E j \in DOMAIN kept :
                      /\ kept[j].index = i - 1
                      /\ ClientItems[i].kind # "custom_tool_call" =>
                            kept[j].data = ClientItems[i].data

\* Same for the message the WebSocket handler keeps: before [DONE] it holds
\* every text and refusal piece once.
PartialMessageKeepsText ==
    ~done =>
        LET m    == to_response_message(ss)
            kept == m.content \o m.refusal
        IN  /\ \A a, b \in DOMAIN kept : a # b => kept[a] # kept[b]
            /\ ToSet(kept) = ToSet(SentPieces(LAMBDA c : c.text, "text"))
                             \cup ToSet(SentPieces(LAMBDA c : c.refusal, "refusal"))

FinalOutput == Last(ss.log).data

\* The final event leaves no announced item out, however many transitions closed
\* items before [DONE].
FinalOutputKeepsItems ==
    done => \A i \in 0..(ss.next_output_index - 1) :
               \E j \in DOMAIN FinalOutput : FinalOutput[j].index = i

\* The three forms in which a stream's items leave the state machine -- the
\* response and the message that are persisted when it is cut, the output of its
\* final event -- hold every item, and every piece of text, that was announced.
PersistedIsWhole ==
    /\ PartialStateKeepsItems
    /\ PartialMessageKeepsText
    /\ FinalOutputKeepsItems

-----------------------------------------------------------------------------
(* What docs and comments say and the code does not do.                    *)

\* streaming.rs:743 "mid-stream closed items + any still in progress": the
\* output of the final event lists each item once.
FinalOutputListsItemsOnce ==
    done => \A a, b \in DOMAIN FinalOutput :
               FinalOutput[a].index = FinalOutput[b].index => a = b

\* streaming.rs:180 "Gather tool calls: open ones + any closed mid-stream".
MessageGathersAllCalls ==
    \A j \in DOMAIN ss.completed_items :
        ss.completed_items[j].kind = "function_call" =>
            \E m \in DOMAIN to_response_message(ss).calls :
                to_response_message(ss).calls[m].slot = ss.completed_items[j].slot
=============================================================================
