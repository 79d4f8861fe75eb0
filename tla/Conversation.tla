---------------------------- MODULE Conversation ----------------------------
(***************************************************************************)
(* One conversation: a client's turns over HTTP, SSE and WebSocket, what   *)
(* each asks the upstream, and what it leaves in the store for the next    *)
(* (src/handlers/responses.rs, websocket/create.rs, compact.rs and         *)
(* src/convert). What is put is held: that the TTL passes is Store's        *)
(* concern, and a stream that is cut short is SseStream's and              *)
(* WsConnection's; here it ends with [DONE] or never begins.               *)
(***************************************************************************)
EXTENDS ChatMessages

CONSTANTS
    MaxTurns,      \* bound on the turns; the last one only asks
    Replies,       \* what the upstream may reply, as sequences of kinds
    Budgets        \* history.max-input-messages and -chars, 0 for none

Turns == 1..MaxTurns

ASSUME ConversationAssumption ==
    /\ MaxTurns \in Nat \ {0}
    /\ Replies \subseteq Seq({"reasoning", "text", "call"})
    /\ Budgets \subseteq [messages : Nat, chars : Nat]

VARIABLES
    turns,      \* the turns, by number
    count,      \* the number of turns so far
    client,     \* what the client knows, and the turn it waits for
    store,      \* the histories put
    registry,   \* the tools put: the turn that declared them, or 0
    budget      \* the provider's limits

vars == <<turns, count, client, store, registry, budget>>

Mode ==
    {"whole",        \* one JSON reply; a structured one replayed as events
     "sse", "ws",    \* streams
     "ws_whole",     \* a structured reply over a socket, replayed as events
     "warmup",       \* generate: false
     "background",
     "compaction",   \* the input has a compaction_trigger
     "ws_compaction"}

Socket == {"ws", "ws_whole", "warmup", "ws_compaction"}
Compacting == {"compaction", "ws_compaction"}

\* These put no tools for the turn that continues them.
Toolless == {"background"} \cup Compacting

\* A stored client continues by id with store: true. A replaying one (Codex)
\* has store: false and sends everything again, except on a socket.
Style == {"stored", "replaying"}

Missing == <<Message("missing", <<>>)>>

NoTurn == [pc |-> "none", mode |-> "whole", prev |-> 0, given |-> <<>>, new |-> <<>>,
           input |-> <<>>, tools |-> 0, sent |-> <<>>, reply |-> <<>>,
           said |-> <<>>, expected |-> 0, whole |-> TRUE]

\* Of a turn that has ended, this is still asked.
Ended(t, pc) == [NoTurn EXCEPT !.pc = pc, !.mode = t.mode, !.whole = t.whole]

Init ==
    /\ turns = [n \in Turns |-> NoTurn]
    /\ count = 0
    /\ client \in [style : Style, last : {0}, known : {<<>>}, calls : {<<>>},
                   tools : {0}, waiting : {0}]
    /\ store = [n \in Turns |-> Missing]
    /\ registry = [n \in Turns |-> 0]
    /\ budget \in Budgets

-----------------------------------------------------------------------------
(* The client                                                              *)

\* The request names the last turn: always from a stored client, and from a
\* replaying one on a socket after a warmup and to answer a call.
Continues(mode) ==
    /\ client.last # 0
    /\ \/ client.style = "stored"
       \/ mode \in Socket /\ turns[client.last].mode = "warmup"
       \/ /\ mode \in Socket /\ client.calls # <<>>
          /\ turns[client.last].mode \in {"ws", "ws_whole"}

\* What a turn may add: the outputs of all calls, and a message of the user,
\* who may wait for the reply to them.
News(n, mode) ==
    LET outputs == [i \in DOMAIN client.calls |-> Output(n, client.calls[i].call)]
        user == <<Item("user", n)>>
    IN  IF mode \in {"warmup"} \cup Compacting THEN {<<>>}
        ELSE IF client.calls = <<>> THEN {user}
        ELSE {outputs, outputs \o user}

\* These ask as "whole" and "ws" do. The last turn only asks, so it is none of them.
AsksAlike == {"sse", "background", "ws_whole"}

Allowed(mode) ==
    /\ count + 1 = MaxTurns => mode \notin AsksAlike
    /\ mode = "warmup" => count = 0
    /\ mode = "background" => client.style = "stored"
    /\ mode \in Compacting => client.known # <<>> /\ client.calls = <<>>
    \* A connection handles one response.create after the other.
    /\ mode \in Socket /\ client.last # 0 /\ turns[client.last].mode \in Socket
          => turns[client.last].pc = "over"

\* The client begins a turn once it knows what became of the one before.
\* Tools come with what the user says, and with what is replayed.
Begin(mode) ==
    LET n == count + 1
        inline == IF Continues(mode) THEN <<>> ELSE client.known
    IN  /\ n \in Turns /\ client.waiting = 0 /\ Allowed(mode)
        /\ \E new \in News(n, mode), instructs \in BOOLEAN, declares \in BOOLEAN :
              /\ instructs => mode \notin Compacting
              /\ declares => mode = "warmup" \/ OfKind("user", new) # <<>>
              /\ turns' = [turns EXCEPT ![n] =
                    [NoTurn EXCEPT
                        !.pc = "convert", !.mode = mode, !.new = new,
                        !.prev = IF Continues(mode) THEN client.last ELSE 0,
                        !.given = IF instructs THEN <<Item("instructions", n)>> ELSE <<>>,
                        !.input = inline \o new,
                        !.tools = IF declares THEN n
                                  ELSE IF Continues(mode) THEN 0 ELSE client.tools,
                        !.said = client.known \o new,
                        !.expected = IF declares THEN n ELSE client.tools]]
        /\ count' = n
        /\ client' = [client EXCEPT !.waiting = n]
        /\ UNCHANGED <<store, registry, budget>>

\* The client gets the turn's id and, where it is told, the output.
Learn(n, out) ==
    LET t == turns[n] IN
    client' = [client EXCEPT
        !.last = n, !.waiting = 0, !.calls = OfKind("call", out),
        !.known = IF t.mode \in Compacting THEN out ELSE @ \o t.new \o out,
        !.tools = t.expected]

-----------------------------------------------------------------------------
(* The handlers                                                            *)

\* The history under an id is what its turn put last.
Settled(n) == turns[n].pc = "over" /\ store[n] # Missing

\* What the turn put has all that was said before. A summary begins anew.
Complete(t) == t.mode \in Compacting \/ t.whole

\* Mutant: a miss is taken for a history.
Restored_Unchecked(n) == IF n = 0 THEN <<>> ELSE store[n]

\* A miss is an empty history.
Restored(n) == IF n = 0 \/ store[n] = Missing THEN <<>> ELSE store[n]

\* build_compaction_output prefers what the request replays.
Converted(n) ==
    LET t == turns[n]
        current == items_to_chat_messages(t.input)
        prompt == Message("user", <<Item("prompt", n)>>)
    IN  IF t.mode \in Compacting
        THEN Append(IF current # <<>> THEN current ELSE Restored(t.prev), prompt)
        ELSE responses_to_chat(Restored(t.prev), t.given, t.input)

\* Mutant: a turn on a socket does not ask.
Offered_HttpOnly(t) ==
    IF t.tools # 0 \/ t.prev = 0 \/ t.mode = "ws" THEN t.tools ELSE registry[t.prev]

\* The registry is asked only if the request has no tools of its own.
Offered(t) ==
    IF t.mode \in Compacting THEN 0
    ELSE IF t.tools # 0 \/ t.prev = 0 THEN t.tools ELSE registry[t.prev]

\* From the request to the upstream's door. History and tools are read in one
\* step: they are put in the other order. A warmup ends here.
Convert(n) ==
    LET t == turns[n] IN
    /\ t.pc = "convert"
    /\ turns' = [turns EXCEPT ![n] =
          [t EXCEPT
              !.pc = CASE t.mode = "background" -> "first_put"
                       [] t.mode = "warmup"     -> "put_tools"
                       [] OTHER                 -> "upstream",
              !.sent = enforce_budgets(Converted(n), budget),
              !.tools = Offered(t),
              !.whole = t.prev # 0 => Settled(t.prev) /\ Complete(turns[t.prev])]]
    /\ IF t.mode = "warmup" THEN Learn(n, <<>>) ELSE UNCHANGED client
    /\ UNCHANGED <<count, store, registry, budget>>

\* A background turn puts its input and answers 202.
FirstPut(n) ==
    /\ turns[n].pc = "first_put"
    /\ store' = [store EXCEPT ![n] = items_to_chat_messages(turns[n].input)]
    /\ turns' = [turns EXCEPT ![n].pc = "upstream"]
    /\ Learn(n, <<>>)
    /\ UNCHANGED <<count, registry, budget>>

\* A reply of these kinds; a compaction's is a summary.
ReplyOf(n, kinds) ==
    IF turns[n].mode \in Compacting THEN <<Item("summary", n)>>
    ELSE [i \in DOMAIN kinds |->
             [Item(kinds[i], n) EXCEPT !.call = IF kinds[i] = "call" THEN <<n, i>> ELSE @]]

\* What the client sees of the reply: items in the order they come.
OutputItems(mode, reply) ==
    IF mode \in {"whole", "ws_whole", "background"} THEN chat_to_responses(reply) ELSE reply

\* Over HTTP a turn is put if the client says so, over a socket always.
Puts(t) == client.style = "stored" \/ t.mode \in Socket

\* The upstream replies; a 200 whose body is an error replies nothing. A stream
\* shows the reply before it is put; what a background turn is told, nobody
\* sees, but it belongs to the conversation unless that has moved on.
Reply(n) ==
    LET t == turns[n] IN
    /\ t.pc = "upstream" /\ n < MaxTurns
    /\ \E kinds \in Replies :
          LET reply == ReplyOf(n, kinds)
              out == OutputItems(t.mode, reply)
          IN  /\ turns' = [turns EXCEPT ![n] =
                    IF ~Puts(t) THEN Ended(t, "over")
                    ELSE [t EXCEPT !.reply = reply,
                                   !.pc = IF t.mode \in {"background"} \cup Compacting
                                          THEN "put" ELSE "put_tools"]]
              /\ CASE t.mode = "background" ->
                        client' = [client EXCEPT !.known = IF count = n THEN @ \o out ELSE @]
                   [] t.mode = "sse" \/ t.mode \in Socket \/ ~Puts(t) -> Learn(n, out)
                   [] OTHER -> UNCHANGED client
    /\ UNCHANGED <<count, store, registry, budget>>

\* The upstream fails: the client gets an error and no id. A background turn
\* then puts what it sent -- unless cutting the error's body for the log
\* (`&body[..200]`) panics.
Fail(n) ==
    LET t == turns[n] IN
    /\ t.pc = "upstream" /\ n < MaxTurns
    /\ \/ turns' = [turns EXCEPT ![n] = Ended(t, "failed")]
       \/ t.mode = "background" /\ turns' = [turns EXCEPT ![n].pc = "put"]
    /\ client' = [client EXCEPT !.waiting = IF @ = n THEN 0 ELSE @]
    /\ UNCHANGED <<count, store, registry, budget>>

PutTools(n) ==
    /\ turns[n].pc = "put_tools"
    /\ registry' = [registry EXCEPT ![n] = turns[n].tools]
    /\ turns' = [turns EXCEPT ![n].pc = "put"]
    /\ UNCHANGED <<count, client, store, budget>>

\* A summary is persisted as a system message.
compaction_output_to_chat_messages(output) == [i \in DOMAIN output |-> System(output[i])]

\* The history for the next turn.
History(t) ==
    CASE t.mode \in Compacting -> compaction_output_to_chat_messages(t.reply)
      [] t.mode = "warmup"     -> t.sent
      [] t.mode = "ws"         -> Append(t.sent, to_response_message(t.reply))
      [] t.mode = "sse"        ->
            t.sent \o items_to_chat_messages(build_response_from_state(t.reply))
      [] OTHER                 -> t.sent \o items_to_chat_messages(chat_to_responses(t.reply))

Put(n) ==
    LET t == turns[n] IN
    /\ t.pc = "put"
    /\ store' = [store EXCEPT ![n] = History(t)]
    /\ turns' = [turns EXCEPT ![n] = Ended(t, "over")]
    /\ IF t.mode \in {"whole", "compaction"}
       THEN Learn(n, OutputItems(t.mode, t.reply)) ELSE UNCHANGED client
    /\ UNCHANGED <<count, registry, budget>>

Next ==
    \/ \E mode \in Mode : Begin(mode)
    \/ \E n \in Turns : Convert(n)
    \/ \E n \in Turns : FirstPut(n)
    \/ \E n \in Turns : Reply(n)
    \/ \E n \in Turns : Fail(n)
    \/ \E n \in Turns : PutTools(n)
    \/ \E n \in Turns : Put(n)

Spec == Init /\ [][Next]_vars

-----------------------------------------------------------------------------
(* Properties. They are about what is sent upstream, by turns that found   *)
(* what the turns before them put last. Others begin from nothing, or from *)
(* a background turn's first put; see SummaryIsReplayed and README.        *)

TypeOK ==
    /\ count \in 0..MaxTurns
    /\ client.style \in Style /\ client.last \in 0..count /\ client.waiting \in {0, count}
    /\ budget \in Budgets
    /\ \A n \in Turns :
          /\ turns[n].pc \in {"none", "convert", "first_put", "upstream", "put_tools", "put",
                              "over", "failed"}
          /\ turns[n].pc = "none" <=> n > count
          /\ turns[n].mode \in Mode /\ turns[n].prev \in 0..(n - 1)
          /\ turns[n].tools \in 0..n /\ registry[n] \in 0..n
          /\ store[n] # Missing =>
                \A i \in DOMAIN store[n] :
                   store[n][i].role \in {"system", "user", "assistant", "tool"}

Asks(t) == t.pc = "upstream" /\ t.whole
Asking == {n \in Turns : Asks(turns[n])}

\* No tool message reaches the upstream without the call it answers: whatever
\* the chain of modes, and however it was trimmed (README.md:284, "never
\* broken"; create.rs:409-412 on orphans).
CallsPrecedeOutputs ==
    \A n \in Asking : LET sent == turns[n].sent IN
        \A i \in DOMAIN sent : sent[i].role = "tool" =>
            \E j \in 1..(i - 1) : \E k \in DOMAIN sent[j].body :
                /\ sent[j].body[k].kind = "call"
                /\ sent[j].body[k].call = sent[i].body[1].call

\* Reasoning with no other output has no message to go with.
Alone(item, said) ==
    /\ item.kind = "reasoning"
    /\ \A i \in DOMAIN said : said[i].turn = item.turn => said[i].kind \in {"user", "output", "reasoning"}

\* Without a limit on messages, everything the client and the upstream have
\* said so far is sent again, by id or inline, across all modes. (Summaries
\* have a property of their own.)
WordsAreSent ==
    \A n \in Asking : LET t == turns[n] IN
        budget.messages = 0 =>
            \A item \in ToSet(t.said) :
                item.kind \in {"user", "text", "call", "output"} => Contains(Flatten(t.sent), item)

\* And so is all reasoning that led to something.
ReasoningIsSent ==
    \A n \in Asking : LET t == turns[n] IN
        budget.messages = 0 =>
            \A item \in ToSet(t.said) :
                item.kind = "reasoning" => Alone(item, t.said) \/ Contains(Flatten(t.sent), item)

\* A limit drops whole turns, from the start: what is left besides the leading
\* system messages begins with a user's message, and whatever was said after
\* something that is left is left too.
BudgetCutsTurns ==
    \A n \in Asking :
        LET t == turns[n]
            left == {i \in DOMAIN t.said : Contains(Flatten(t.sent), t.said[i])}
            old == {i \in DOMAIN t.said : \E j \in left : t.said[j].turn < t.said[i].turn}
            first == Leading(t.sent) + 1
        IN  /\ \A i \in old : t.said[i].kind = "reasoning" \/ i \in left
            /\ Len(t.sent) > budget.messages /\ budget.messages # 0 =>
                  \A i \in (first + 1)..Len(t.sent) : t.sent[i].role # "user"

\* The turns stay in order, except that rounds of calls replayed inline are
\* gathered, and reasoning stays with what was said in its turn. That is so of
\* every turn, also of one that came before the put of the turn it continues
\* and found nothing, or a background turn's first put.
TurnsStayTogether ==
    \A n \in {m \in Turns : turns[m].pc = "upstream"} :
        LET sent == turns[n].sent
            said == SelectSeq(Flatten(sent), LAMBDA x : x.kind # "instructions")
        IN  /\ \A i, j \in DOMAIN said :
                  i < j /\ said[i].turn > said[j].turn =>
                     {said[i].kind, said[j].kind} \subseteq {"call", "output", "reasoning"}
            /\ \A i \in DOMAIN sent : \A r \in ToSet(OfKind("reasoning", sent[i].body)) :
                  \E x \in ToSet(sent[i].body) : x.kind # "reasoning" /\ x.turn = r.turn

\* New instructions replace the old, wherever these were kept: they are sent once
\* at most, in a message of their own that comes first, and it is the one that
\* the request gives, if it gives any.
InstructionsAreReplaced ==
    \A n \in Asking : LET t == turns[n] IN t.mode \notin Compacting =>
        /\ \A i \in DOMAIN t.sent : \A k \in DOMAIN t.sent[i].body :
              t.sent[i].body[k].kind = "instructions" => i = 1 /\ Len(t.sent[1].body) = 1
        /\ t.given # <<>> => t.sent[1].body = t.given

\* Since they were declared, a turn before n was over that passes no tools on.
Lost(declared, n) ==
    \E m \in Turns : /\ declared <= m /\ m < n
                     /\ turns[m].mode \in Toolless /\ turns[m].pc = "over"

\* A turn that brings no tools gets those last declared in its conversation, and
\* never older ones. Only a background or a compaction turn in between loses
\* them, and then the turns that continue it by id have none at all.
ToolsCarryOver ==
    \A n \in Asking : LET t == turns[n] IN t.mode \notin Compacting =>
        \/ t.tools = t.expected
        \/ t.tools = 0 /\ t.prev # 0 /\ Lost(t.expected, n)

\* Of the outputs a request brings, those from before the last KeepLastTurns
\* user turns are cut by age, and no others (README.md:284); and when the limit
\* on size is still exceeded, no output is left whole.
OnlyOldIsCut ==
    \A n \in Asking :
        LET t == turns[n]
            after(i) == Cardinality({j \in DOMAIN t.input : j > i /\ t.input[j].kind = "user"})
            tools == SelectSeq(t.sent, LAMBDA m : m.role = "tool")
        IN  /\ budget.chars = 0 =>
                  \A i \in DOMAIN t.input, m \in ToSet(tools) :
                     m.body = <<t.input[i]>> =>
                        /\ m.cut => after(i) >= KeepLastTurns
                        /\ after(i) > KeepLastTurns => m.cut
            /\ budget.chars # 0 /\ messages_total_chars(t.sent) > budget.chars =>
                  \A m \in ToSet(tools) : m.cut

\* The dialogue goes on where it was: what was said is sent again, and no answer
\* comes without its call.
DialogueIsSent == WordsAreSent /\ CallsPrecedeOutputs

\* Besides, only what the limits are there to cut is: reasoning is sent without
\* them, and they cut whole turns from the start, whole old outputs.
OnlyLimitsCut == ReasoningIsSent /\ BudgetCutsTurns /\ OnlyOldIsCut

\* What was said is sent, each thing where it was said.
ConversationIsSent == OnlyLimitsCut /\ TurnsStayTogether

\* Instructions and tools: the last given are in force.
LastGivenApplies == InstructionsAreReplaced /\ ToolsCarryOver

-----------------------------------------------------------------------------
(* What the documents promise and the code does not do                     *)

\* README.md:10: "full `function_call` / `function_call_output` roundtrip with
\* correct message ordering". The outputs of calls come right after the message
\* that has the calls.
OutputsFollowCalls ==
    \A n \in Asking : LET sent == turns[n].sent IN
        \A i \in DOMAIN sent : sent[i].role = "tool" =>
            \E j \in 1..(i - 1) :
                /\ \E k \in DOMAIN sent[j].body : sent[j].body[k].call = sent[i].body[1].call
                /\ \A k \in (j + 1)..i : sent[k].role = "tool"

\* convert/request.rs:414: "Restore the registry cached under the previous
\* response so the conversation keeps its tools." No kind of turn loses them.
ToolsAreKept ==
    \A n \in Asking : turns[n].mode \notin Compacting => turns[n].tools = turns[n].expected

\* responses.rs:1018: "Persist the compaction summary so a follow-up
\* `previous_response_id` lookup replays it". A turn after a compaction sends
\* the summary.
SummaryIsReplayed ==
    \A n \in Asking : LET t == turns[n] IN
        \A item \in ToSet(t.said) : item.kind = "summary" => Contains(Flatten(t.sent), item)
=============================================================================
