---------------------------- MODULE ChatMessages ----------------------------
(***************************************************************************)
(* What src/convert makes of a conversation: Responses items to Chat       *)
(* messages, the instructions, the budgets, and a reply back to items.     *)
(* The operators have the source's names. An item stands for its text; the *)
(* properties only ask where it went. Every tool output is long enough     *)
(* (over 2048 bytes) to be cut, and once cut it is short.                  *)
(***************************************************************************)
EXTENDS Integers, FiniteSets, SequencesExt

CONSTANTS
    HasKey,           \* a compaction key is configured
    KeepLastTurns     \* KEEP_LAST_TURNS (6 in the code)

ASSUME ChatMessagesAssumption ==
    /\ HasKey \in BOOLEAN
    /\ KeepLastTurns \in Nat \ {0}

\* An item, the turn that said it, and for a call or an output its call_id.
Kind ==
    {"user", "reasoning", "text", "call", "output",   \* input and output items
     "summary",        \* a compaction item
     "instructions",   \* the request's instructions, which become a message
     "prompt"}         \* the summary prompt a compaction appends

NoCall == <<0, 0>>
Item(kind, turn) == [kind |-> kind, turn |-> turn, call |-> NoCall]
Output(turn, call) == [kind |-> "output", turn |-> turn, call |-> call]

\* A Chat message: its role, the items it is made of, and, for a tool message,
\* whether its text was cut.
Message(role, body) == [role |-> role, body |-> body, cut |-> FALSE]
System(item) == Message("system", <<item>>)
Tool(item, cut) == [Message("tool", <<item>>) EXCEPT !.cut = cut]

OfKind(kind, s) ==
    FlattenSeq([i \in DOMAIN s |-> IF s[i].kind = kind THEN <<s[i]>> ELSE <<>>])
Flatten(messages) == FlattenSeq([i \in DOMAIN messages |-> messages[i].body])

-----------------------------------------------------------------------------
(* Items to messages                                                       *)

\* Mutant: reasoning is cloned, as for a text, and not taken.
flush_Clones(w) ==
    IF w.calls = <<>> THEN w
    ELSE [w EXCEPT !.messages = Append(@, Message("assistant", w.reasoning \o w.calls)),
                   !.calls = <<>>]

\* The closure `flush` of both walks: what was called so far becomes one
\* message, which takes the reasoning before it.
flush(w) ==
    IF w.calls = <<>> THEN w
    ELSE [w EXCEPT !.messages = Append(@, Message("assistant", w.reasoning \o w.calls)),
                   !.calls = <<>>, !.reasoning = <<>>]

\* Mutant: the outputs that were kept back go first.
settle_OutputsFirst(w) ==
    LET f == flush([w EXCEPT !.messages = @ \o w.deferred])
    IN  [f EXCEPT !.deferred = <<>>]

\* The calls, and then the outputs that were kept back.
settle(w) ==
    LET f == flush(w)
    IN  [f EXCEPT !.messages = @ \o f.deferred, !.deferred = <<>>]

\* Mutant: what the assistant says counts as a turn.
old_tool_output_cutoff_AnyMessage(items) ==
    LET said == {i \in DOMAIN items : items[i].kind \in {"user", "text"}}
        from(i) == Cardinality({j \in said : j >= i})
    IN  IF Cardinality(said) <= KeepLastTurns THEN 0
        ELSE CHOOSE i \in said : from(i) = KeepLastTurns

\* Outputs before this index are old.
old_tool_output_cutoff(items) ==
    LET users == {i \in DOMAIN items : items[i].kind = "user"}
        from(i) == Cardinality({j \in users : j >= i})
    IN  IF Cardinality(users) <= KeepLastTurns THEN 0
        ELSE CHOOSE i \in users : from(i) = KeepLastTurns

\* One arm of the match for each kind of item. A message takes the reasoning
\* before it and leaves it for the next; a user's message discards it. Without
\* a key, or without encrypted content, a compaction item gives no message.
walk(w, item, old) ==
    LET s == settle(w) IN
    CASE item.kind = "call"      -> [w EXCEPT !.calls = Append(@, item)]
      [] item.kind = "output"    -> [w EXCEPT !.deferred = Append(@, Tool(item, old))]
      [] item.kind = "reasoning" ->
            [s EXCEPT !.reasoning = IF Contains(@, item) THEN @ ELSE Append(@, item)]
      [] item.kind = "text"      ->
            [s EXCEPT !.messages = Append(@, Message("assistant", Append(s.reasoning, item)))]
      [] item.kind = "user"      ->
            [s EXCEPT !.messages = Append(@, Message("user", <<item>>)), !.reasoning = <<>>]
      [] item.kind = "summary"   ->
            IF HasKey THEN [s EXCEPT !.messages = Append(@, System(item))] ELSE s

\* Mutant: what is pending at the end of the input is not settled.
append_items_Unsettled(history, items) ==
    LET cutoff == old_tool_output_cutoff(items)
        start == [messages |-> history, deferred |-> <<>>, calls |-> <<>>, reasoning |-> <<>>]
        walked[i \in 0..Len(items)] ==
            IF i = 0 THEN start ELSE walk(walked[i - 1], items[i], i < cutoff)
    IN  walked[Len(items)].messages

\* The walk of responses_to_chat begins with the history, that of
\* items_to_chat_messages with nothing.
append_items(history, items) ==
    LET cutoff == old_tool_output_cutoff(items)
        start == [messages |-> history, deferred |-> <<>>, calls |-> <<>>, reasoning |-> <<>>]
        walked[i \in 0..Len(items)] ==
            IF i = 0 THEN start ELSE walk(walked[i - 1], items[i], i < cutoff)
    IN  settle(walked[Len(items)]).messages

items_to_chat_messages(items) == append_items(<<>>, items)

\* Mutant: new instructions go before the old ones.
merge_instructions_Inserted(history, given) ==
    IF given = <<>> THEN history ELSE <<System(given[1])>> \o history

\* New instructions take the place of the history's leading system message.
merge_instructions(history, given) ==
    IF given = <<>> THEN history
    ELSE IF history # <<>> /\ history[1].role = "system"
         THEN [history EXCEPT ![1] = System(given[1])]
         ELSE <<System(given[1])>> \o history

responses_to_chat(history, given, items) ==
    append_items(merge_instructions(history, given), items)

-----------------------------------------------------------------------------
(* Budgets                                                                 *)

Leading(messages) ==
    Cardinality({i \in DOMAIN messages : \A j \in 1..i : messages[j].role = "system"})

\* Mutant: what does not fit falls back on the first turn.
enforce_message_budget_FirstTurn(messages, max) ==
    LET prefix == Leading(messages)
        starts == {i \in DOMAIN messages : i > prefix /\ messages[i].role = "user"}
        fits == {i \in starts : prefix + (Len(messages) - i + 1) <= max}
        start == IF fits # {} THEN Min(fits) ELSE Min(starts)
    IN  IF max = 0 \/ Len(messages) <= max \/ starts = {} THEN messages
        ELSE SubSeq(messages, 1, prefix) \o SubSeq(messages, start, Len(messages))

\* Drops the oldest turns; 0 is no limit.
enforce_message_budget(messages, max) ==
    LET prefix == Leading(messages)
        starts == {i \in DOMAIN messages : i > prefix /\ messages[i].role = "user"}
        fits == {i \in starts : prefix + (Len(messages) - i + 1) <= max}
        start == IF fits # {} THEN Min(fits) ELSE Max(starts)
    IN  IF max = 0 \/ Len(messages) <= max \/ starts = {} THEN messages
        ELSE SubSeq(messages, 1, prefix) \o SubSeq(messages, start, Len(messages))

Whole(message) == message.role = "tool" /\ ~message.cut

\* A whole tool output is as long as LongOutput other things.
LongOutput == 3
messages_total_chars(messages) ==
    Len(messages) + (LongOutput - 1) * Len(SelectSeq(messages, Whole))

\* Cuts whole outputs, the oldest first, until the rest fits; 0 is no limit.
enforce_input_budget(messages, max) ==
    LET shrunk[i \in 0..Len(messages)] ==
            IF i = 0 THEN messages
            ELSE LET m == shrunk[i - 1] IN
                 IF Whole(m[i]) /\ messages_total_chars(m) > max
                 THEN [m EXCEPT ![i].cut = TRUE] ELSE m
    IN  IF max = 0 THEN messages ELSE shrunk[Len(messages)]

enforce_budgets(messages, budget) ==
    enforce_input_budget(enforce_message_budget(messages, budget.messages), budget.chars)

-----------------------------------------------------------------------------
(* Replies. A reply is what the upstream says, in its order: reasoning,    *)
(* text and calls.                                                         *)

\* The output items of a reply that came in one piece.
chat_to_responses(reply) ==
    OfKind("reasoning", reply) \o OfKind("call", reply) \o OfKind("text", reply)

\* What is still open at [DONE]: the last item, or the calls at the end.
Open(reply) ==
    LET same == {i \in DOMAIN reply :
                    \A j \in i..Len(reply) : reply[j].kind = reply[Len(reply)].kind}
    IN  IF reply = <<>> THEN <<>> ELSE SubSeq(reply, Min(same), Len(reply))

\* After [DONE] everything is closed and in completed_items, and what was open
\* is still in its accumulator.
build_response_from_state(reply) == reply \o Open(reply)

\* One message: the texts closed and the text in the accumulator; the calls of
\* the slots, or if there are none the closed ones.
to_response_message(reply) ==
    LET open(kind) == OfKind(kind, Open(reply))
        first(kind) == IF open(kind) # <<>> THEN open(kind) ELSE OfKind(kind, reply)
    IN  Message("assistant", first("reasoning") \o OfKind("text", reply) \o open("text")
                             \o first("call"))
=============================================================================
