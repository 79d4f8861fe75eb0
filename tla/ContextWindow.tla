--------------------------- MODULE ContextWindow ---------------------------
(***************************************************************************)
(* How a client (Codex) learns the context window of a model, and how it   *)
(* learns that its conversation has filled it: GET /v1/models with the     *)
(* memoized windows (src/app.rs, main.rs, upstream.rs, config.rs), and the *)
(* usage of a turn, grown back to the size before the limits on history    *)
(* (src/handlers/input_tokens.rs, responses.rs). The client compacts its   *)
(* conversation when the tokens last reported reach the window.            *)
(***************************************************************************)
EXTENDS ChatMessages

CONSTANTS
    None, Absent,      \* Option::None; no entry in the cache
    Configs,           \* the `models` of config.yaml, in the order they are listed
    Offered,           \* what GET {base_url}/models says: <<base_url, model>> to a window
    DefaultMessages,   \* default_max_input_messages (1000 in the code)
    Bundled,           \* the client's own window for a model listed without one
    Lists,             \* requests for the list of models; one is the client's
    ClientsList,
    MaxOutages,        \* bound on how often the upstream goes down
    MaxTurns,          \* bound on the turns
    Replies,           \* what the upstream may reply, as sequences of kinds
    Silent             \* turns in which the user only gives a file

Window == Nat \cup {None}

ASSUME ContextWindowAssumption ==
    /\ \A k \in DOMAIN Offered : Offered[k] \in Window
    /\ Absent \notin Window
    /\ DefaultMessages \in Nat /\ Bundled \in Nat
    /\ ClientsList \in Lists
    /\ MaxOutages \in Nat /\ MaxTurns \in Nat
    /\ Replies \subseteq Seq({"reasoning", "text", "call"})
    /\ Silent \subseteq 1..MaxTurns

VARIABLES
    models,     \* the resolved models, in the order of the HashMap
    cache,      \* context_window_cache: what was fetched, by key, or Absent
    lists,      \* the requests for the list
    upstream,   \* whether the upstream answers, and how often it went down
    client,     \* the conversation, as the client sees it
    history,    \* the messages stored under the client's last id
    turn        \* the turn that is under way, or the last

catalog == <<models, cache, lists, upstream>>
talk == <<client, history, turn>>
vars == <<catalog, talk>>

-----------------------------------------------------------------------------
(* Configuration                                                           *)

\* An entry of `models`; its history block may be left out, and so may the
\* upstream's name for the model and the window.
resolve_provider(entry) ==
    [base    |-> entry.base,
     model   |-> IF entry.model = None THEN entry.name ELSE entry.model,
     window  |-> IF entry.history = None THEN None ELSE entry.history.window,
     budget  |-> IF entry.history = None
                 THEN [messages |-> DefaultMessages, chars |-> 0]
                 ELSE [messages |-> entry.history.messages, chars |-> entry.history.chars]]

\* Mutant: windows are remembered by the model's name alone.
Key_ModelOnly(p) == <<CHOOSE b \in {k[1] : k \in DOMAIN Offered} : TRUE, p.model>>

Key(p) == <<p.base, p.model>>

\* load refuses a configuration without models (config.rs:686); what the upstream
\* says, if only that it has nothing to say, it says of every model.
ASSUME ConfigsAssumption ==
    \A entries \in Configs :
        /\ Len(entries) \in Nat \ {0} /\ DOMAIN entries = 1..Len(entries)
        /\ \A i \in DOMAIN entries :
              LET p == resolve_provider(entries[i])
              IN  p.window \in Window /\ <<p.base, p.model>> \in DOMAIN Offered

NoList == [pc |-> "idle", at |-> 1, got |-> None, found |-> <<>>, knew |-> {}]
NoTurn == [full |-> <<>>, sent |-> <<>>, new |-> <<>>, estimate |-> 0,
           usage |-> [input |-> 0, output |-> 0, total |-> 0]]

Init ==
    /\ \E entries \in Configs : models = [i \in DOMAIN entries |-> resolve_provider(entries[i])]
    /\ cache = [k \in DOMAIN Offered |-> Absent]
    /\ lists = [l \in Lists |-> NoList]
    /\ upstream = [up |-> TRUE, outages |-> 0]
    /\ client \in [pc : {"starting"}, style : {"replaying", "chained"}, window : {Bundled},
                   turns : {0}, known : {<<>>}, calls : {<<>>}, reported : {0}]
    /\ history = <<>>
    /\ turn = NoTurn

-----------------------------------------------------------------------------
(* GET /v1/models                                                          *)

List(l) ==
    /\ lists[l].pc = "idle"
    /\ lists' = [lists EXCEPT ![l].pc = "look",
                              ![l].knew = {k \in DOMAIN cache : cache[k] # Absent}]
    /\ UNCHANGED <<models, cache, upstream, talk>>

\* The model that request l is at.
At(l) == models[lists[l].at]

\* The window of a model is known: on to the next, or the answer.
Found(list, window) ==
    [list EXCEPT !.found = Append(@, window), !.at = @ + 1,
                 !.pc = IF list.at = Len(models) THEN "answered" ELSE "look"]

\* The client takes the window of the first model; null leaves it its own.
Answered(l) ==
    IF l = ClientsList /\ lists'[l].pc = "answered"
    THEN client' = [client EXCEPT !.pc = "ready",
                       !.window = IF lists'[l].found[1] = None THEN @ ELSE lists'[l].found[1]]
    ELSE UNCHANGED client

\* Mutant: only a window that was found is a hit.
Remembered_Some(p) == cache[Key(p)] \notin {Absent, None}

Remembered(p) == cache[Key(p)] # Absent

\* resolve_context_window up to its first await that misses: the override, or
\* what is remembered, also when that is None.
Look(l) ==
    /\ lists[l].pc = "look"
    /\ lists' = [lists EXCEPT ![l] =
          CASE At(l).window # None -> Found(@, At(l).window)
            [] At(l).window = None /\ Remembered(At(l)) -> Found(@, cache[Key(At(l))])
            [] OTHER -> [@ EXCEPT !.pc = "fetch"]]
    /\ Answered(l)
    /\ UNCHANGED <<models, cache, upstream, history, turn>>

\* fetch_context_window: None on any failure, and if the model is not listed
\* or has no length.
Fetch(l) ==
    /\ lists[l].pc = "fetch"
    /\ lists' = [lists EXCEPT ![l].pc = "keep",
                              ![l].got = IF upstream.up THEN Offered[Key(At(l))] ELSE None]
    /\ UNCHANGED <<models, cache, upstream, talk>>

\* The lock was released in between: what another request kept is overwritten.
Keep(l) ==
    /\ lists[l].pc = "keep"
    /\ cache' = [cache EXCEPT ![Key(At(l))] = lists[l].got]
    /\ lists' = [lists EXCEPT ![l] = Found(@, lists[l].got)]
    /\ Answered(l)
    /\ UNCHANGED <<models, upstream, history, turn>>

\* The upstream stops answering, or answers again.
Outage ==
    /\ upstream.up => upstream.outages < MaxOutages
    /\ upstream' = [up |-> ~upstream.up,
                    outages |-> upstream.outages + (IF upstream.up THEN 1 ELSE 0)]
    /\ UNCHANGED <<models, cache, lists, talk>>

-----------------------------------------------------------------------------
(* Counting                                                                *)

CharsPerToken == 4
ShortText == 5     \* bytes of a text, and of an output that was cut
LongText == 13     \* bytes of a tool output

\* Only content counts: no calls, no reasoning, no file.
item_chars(item, cut) ==
    CASE item.kind \in {"call", "reasoning"} -> 0
      [] item.kind = "user" /\ item.turn \in Silent -> 0
      [] item.kind = "output" /\ ~cut -> LongText
      [] OTHER -> ShortText

\* The sum of a sequence of numbers.
Total(w) ==
    LET sum[i \in 0..Len(w)] == IF i = 0 THEN 0 ELSE sum[i - 1] + w[i]
    IN  sum[Len(w)]

count_message_chars(message) ==
    Total([i \in DOMAIN message.body |-> item_chars(message.body[i], message.cut)])

content_chars(messages) ==
    Total([i \in DOMAIN messages |-> count_message_chars(messages[i])])

\* POST /v1/responses/input_tokens.
estimate_tokens(messages) ==
    IF content_chars(messages) = 0 THEN 0
    ELSE Max({1, content_chars(messages) \div CharsPerToken})

\* The upstream counts all that it is sent, calls too, a token at least for
\* each item with something in it.
UpstreamTokens(messages) ==
    Total([i \in DOMAIN messages |->
        Total([j \in DOMAIN messages[i].body |->
            1 + item_chars(messages[i].body[j], messages[i].cut) \div CharsPerToken])])

Rounded(a, b) == (2 * a + b) \div (2 * b)

\* Mutant: total_tokens stays what the upstream said.
apply_input_char_scale_InputOnly(usage, full, sent) ==
    IF full <= sent \/ sent = 0 THEN usage
    ELSE [usage EXCEPT !.input = Rounded(usage.input * full, sent)]

\* Mutant: the ratio is the wrong way round.
apply_input_char_scale_Shrinks(usage, full, sent) ==
    LET scaled == Rounded(usage.input * sent, full) IN
    IF full <= sent \/ sent = 0 THEN usage
    ELSE [usage EXCEPT !.input = scaled, !.total = scaled + usage.output]

\* The input tokens of what was sent, grown to what there was before the limits.
apply_input_char_scale(usage, full, sent) ==
    LET scaled == Rounded(usage.input * full, sent) IN
    IF full <= sent \/ sent = 0 THEN usage
    ELSE [usage EXCEPT !.input = scaled, !.total = scaled + usage.output]

-----------------------------------------------------------------------------
(* Turns                                                                   *)

Provider == models[1]

\* The outputs of all calls, or else what the user says.
News(n) ==
    IF client.calls = <<>> THEN <<Item("user", n)>>
    ELSE [i \in DOMAIN client.calls |-> Output(n, client.calls[i].call)]

\* Mutant: the size is taken when the limits have been applied.
Measured_Late(full, sent) == sent

\* What is measured before the limits.
Measured(full, sent) == full

\* The client begins a turn while it believes there is room. A replaying
\* client sends all it knows; a chained one names the last turn.
Ask ==
    LET n == client.turns + 1
        new == News(n)
        full == IF client.style = "chained" THEN responses_to_chat(history, <<>>, new)
                ELSE responses_to_chat(<<>>, <<>>, client.known \o new)
        sent == enforce_budgets(full, Provider.budget)
    IN  /\ client.pc = "ready" /\ n <= MaxTurns
        /\ client.reported < client.window
        /\ turn' = [NoTurn EXCEPT !.full = Measured(full, sent), !.sent = sent, !.new = new,
                                  !.estimate = estimate_tokens(full)]
        /\ client' = [client EXCEPT !.pc = "waiting", !.turns = n, !.known = @ \o new]
        /\ UNCHANGED <<catalog, history>>

\* The reply, its usage, and what is stored: the messages that were sent and
\* the reply. The upstream does what is asked and tells the usage.
Reply ==
    /\ client.pc = "waiting"
    /\ \E kinds \in Replies :
          LET n == client.turns
              reply == [i \in DOMAIN kinds |->
                          [Item(kinds[i], n) EXCEPT
                              !.call = IF kinds[i] = "call" THEN <<n, i>> ELSE @]]
              said == items_to_chat_messages(reply)
              in == UpstreamTokens(turn.sent)
              out == UpstreamTokens(said)
              usage == apply_input_char_scale(
                          [input |-> in, output |-> out, total |-> in + out],
                          content_chars(turn.full), content_chars(turn.sent))
          IN  /\ turn' = [turn EXCEPT !.usage = usage]
              /\ history' = turn.sent \o said
              /\ client' = [client EXCEPT !.pc = "ready", !.known = @ \o reply,
                               !.calls = OfKind("call", reply), !.reported = usage.total]
    /\ UNCHANGED catalog

\* The client compacts, between its turns: a summary takes the place of all,
\* of what was called too.
Compact ==
    LET summary == Item("summary", client.turns) IN
    /\ client.pc = "ready" /\ client.reported >= client.window
    /\ client' = [client EXCEPT !.known = <<summary>>, !.calls = <<>>, !.reported = 0]
    /\ history' = <<System(summary)>>
    /\ UNCHANGED <<catalog, turn>>

Next ==
    \/ \E l \in Lists : List(l)
    \/ \E l \in Lists : Look(l)
    \/ \E l \in Lists : Fetch(l)
    \/ \E l \in Lists : Keep(l)
    \/ Outage
    \/ Ask
    \/ Reply
    \/ Compact

Spec == Init /\ [][Next]_vars

-----------------------------------------------------------------------------
(* Properties                                                              *)

TypeOK ==
    /\ \A i \in DOMAIN models : models[i].window \in Window /\ Key(models[i]) \in DOMAIN Offered
    /\ \A k \in DOMAIN Offered : cache[k] \in Window \cup {Absent}
    /\ \A l \in Lists :
          /\ lists[l].pc \in {"idle", "look", "fetch", "keep", "answered"}
          /\ lists[l].pc = "answered" <=> Len(lists[l].found) = Len(models)
          /\ lists[l].at = Len(lists[l].found) + 1
    /\ upstream.outages \in 0..MaxOutages
    /\ client.pc \in {"starting", "ready", "waiting"} /\ client.turns \in 0..MaxTurns
    /\ client.pc = "starting" <=> lists[ClientsList].pc # "answered"
    /\ client.window \in Nat /\ client.reported \in Nat
    /\ turn.usage.total = turn.usage.input + turn.usage.output

\* What is listed for a model is the override, or what its own upstream says
\* of it, or nothing: whatever requests and models share the cache.
WindowIsItsOwn ==
    \A l \in Lists : \A i \in DOMAIN lists[l].found : LET p == models[i] IN
        IF p.window # None THEN lists[l].found[i] = p.window
        ELSE lists[l].found[i] \in {None, Offered[<<p.base, p.model>>]}

\* A request never asks for what was fetched before it came, with whatever
\* result (app.rs:39-40, "so we don't re-fetch on every `/v1/models` request").
FetchedOnce ==
    \A l \in Lists : lists[l].pc \in {"fetch", "keep"} =>
        <<At(l).base, At(l).model>> \notin lists[l].knew

\* The cache gives each model its own window, and spares the upstream.
WindowsAreKept == WindowIsItsOwn /\ FetchedOnce

\* The conversation as it would be sent without limits, in bytes.
Size == content_chars(items_to_chat_messages(client.known))

\* What the client asks is at most what fits its window, and what is new. A
\* turn whose usage could not be grown -- nothing with text was sent -- may
\* have told it too little.
KeepsToWindow(style) ==
    client.pc = "waiting" /\ client.style = style /\ client.turns - 1 \notin Silent =>
        Size <= CharsPerToken * client.window + content_chars(items_to_chat_messages(turn.new))

\* A client that replays its conversation compacts it in time, however much
\* the limits take out of it.
CompactsInTime == KeepsToWindow("replaying")

\* What input_tokens estimates for a request is at most what its turn reports.
EstimateIsReported ==
    client.pc = "ready" /\ content_chars(turn.sent) # 0 => turn.estimate <= turn.usage.input

-----------------------------------------------------------------------------
(* What the documents promise and the code does not do                     *)

\* create.rs:140-143: usage is scaled "so Codex's auto-compaction threshold
\* (keyed off server-reported total_tokens) fires on time instead of being
\* masked by our truncation". By id too.
ChainedCompactsInTime == KeepsToWindow("chained")

\* app.rs:39: "A cached `None` records that the upstream had nothing to offer".
NoneIsNothingOffered == \A k \in DOMAIN Offered : cache[k] = None => Offered[k] = None
=============================================================================
