# A TLA+ model of responses-proxy

responses-proxy accepts the OpenAI *Responses* API over HTTP, server-sent events
and WebSocket, and serves it from providers that only speak *Chat Completions*.
It converts each request, relays the provider's stream as Responses events, and
keeps the conversation of every response, so that a client can continue it by
`previous_response_id`.

This directory holds TLA+ modules that model that program, TLC configurations
that check them on small instances, and TLAPS proofs for every instance. Paths
below are relative to the repository's root, `src/...` is its Rust source.

    tlc -workers 2 -config Store.cfg Store          # one run
    tlapm StoreProof.tla                            # the proofs

`PROJECT.json` lists the components, the runs, for each checked property a
mutation of the code that breaks it (the operators named `X_Something` next to
the `X` they replace), the hazards the properties are for, and for each
definition the lines it models. Where a property is a conjunction of named parts,
the modules keep mutants for more than one part, and `PROJECT.json` names one.

## 1. The system

### Components, state and operations

| component | state | operations | modelled in |
|---|---|---|---|
| Streaming state machine, `types/streaming.rs` | `StreamState`: three accumulators (reasoning, text or refusal, one per tool call), closed items, the next output index and sequence number | one Chat chunk; `[DONE]`; the items persisted at any moment | `ChatStream`, abstractly `ItemProtocol` |
| SSE relay, `handlers/responses.rs` `handle_streaming` | a spawned task, a channel of 64 events, a cancel token | register, lifecycle events, the select over cancel and upstream, send, persist, unregister | `SseStream`, `Frames` |
| WebSocket connection, `handlers/websocket*.rs` | one task per connection; its socket; the running turn | receive, five ways to answer `response.create`, `run_stream`, persist | `WsConnection`, `Frames` |
| Cancel endpoint, `handlers/cancel.rs` | none of its own: the token map of the store | take a token and signal it, or 404 | `SseStream`, `WsConnection` |
| Conversation store, `store.rs` | memory map with a TTL, one JSONL file per id, tool registry, token map | put, get, load from the disk, sweep, delete, put and get of tools | `Store` |
| Turns and their histories, `handlers/responses.rs`, `websocket/create.rs`, `handlers/compact.rs` | none; a background task | JSON, structured, streamed, background and compaction turns: read history and tools, ask, put | `Conversation` |
| Reading an event stream, `handlers/responses.rs`, `websocket/create.rs`, `upstream.rs` | a text buffer per stream | decode a read, take what is complete, at the end take or drop the rest | `SseBuffer` |
| Request and response conversion, `convert/*.rs` | none | items to Chat messages and back, order of calls and outputs, instructions, budgets | `ChatMessages` |
| Tools: `convert/*.rs`, `types/tool.rs`, the registry in `store.rs` | the registry: tools and names of custom tools per response, with a TTL, in memory only | flatten, filter, cap, offer; wrap and unwrap the input of custom calls; put and get | `CodeMode` |
| Rewrite engine and its configuration, `rewrite.rs`, `config.rs` | a profile per model | parse, validate, resolve; rename, remove, replace, reset by paths with wildcards | `JsonRewrite`, `Rewrite` |
| Context windows and usage, `app.rs`, `upstream.rs`, `handlers/input_tokens.rs` | a map of what providers advertise | look up, fetch, insert, list; count, estimate, scale usage | `ContextWindow` |
| Authentication, prompts, encryption, most of the wire types, start-up | none, or read once | | not modelled, section 7 |

### How they interact

A handler converts its request (for a continuation it `get`s the history and the
tool registry), calls the provider, feeds what it reads to a `StreamState`, sends
the events that gives to the client, and `put`s the history, the tool registry
first. Handlers meet only in the store: a continuation reads what an earlier
turn put; the cancel endpoint reaches a running turn through its token; the
sweeper and the file tasks that `put`, `get` and the sweeper spawn work on the
same map and files as every request. Nothing orders the file tasks.

### What is hard

* **Interleaving.** `store.rs` releases each lock before it acts on what it saw
  under it: an eviction, a sweep or a load from the disk can meet a newer put.
  A cancel, or a client that leaves, can strike a turn at every await.
* **Order.** One Chat chunk may end some items and start others; two spawned
  writers write one file; history and tool registry are put in two steps.
* **Failure.** The upstream ends, times out or sends what does not parse in the
  middle of a buffer; a client stalls or leaves; a write fails half way; the
  process dies and starts again with the files it finds.
* **Long chains.** Each turn sees only what the turn before put, in another form
  than it was sent: what is wrong in one conversion shows turns later.
* **Time.** Entries and files expire by ages derived from each other; a
  continuation can outlive its tools and not its history.
* **Two views of one thing.** A custom tool is a function for the upstream and
  custom for the client; a conversation has one size for the client and another
  behind the limits; a wildcard is several paths, and they shift under it.
* **Bytes.** A stream is cut into reads anywhere.

### What makes each component correct

* *State machine*: the client can assemble items from the events (announced
  once, closed once, never touched again, what was closed is what was streamed),
  no text is lost, and every prefix of a stream can be persisted without loss.
* *SSE relay*: order and completeness of what the client sees; what it saw is
  stored, with the tools; the token goes whatever happens; the task ends.
* *WebSocket*: turns do not mix; a turn is stored unless it was cancelled;
  a cancel finds a turn that relays; each turn ends, or waits for its client.
* *Conversion and turns*: whatever the chain of modes, the upstream is sent the
  whole conversation, in order, outputs with their calls, with the last
  instructions and tools; budgets and ages cut what they say they cut.
* *Store*: a put is lost to no get or sweep but one that had looked before it, an
  answer is whole and not older than the TTL, files converge and are forgotten.
* *Reading*: each payload once, in order, whatever the cuts.
* *Tools*: a call comes back in the shape its tool was declared in, also turns
  later; what is offered carries over; what is kept of a call fits the tool.
* *Rewriting*: a bad file stops the start; a rule changes what it names only;
  the shipped profile gives what its provider takes.
* *Context windows*: the window listed for a model is its own; the usage reported
  makes a client compact before the window is overrun.

## 2. The modules

    SseBuffer                                       from bytes to payloads
    ItemProtocol <-- refined by -- ChatStream       one stream, chunk by chunk
    Frames <-- extended by -- SseStream             one SSE turn, await by await
           <-- extended by -- WsConnection          one connection and its turns
    ChatMessages <-- extended by -- Conversation    what a chain of turns sends and puts
                 <-- extended by -- ContextWindow   windows, usage, compaction
    CodeMode                                        tools and calls over a chain of turns
    JsonRewrite <-- extended by -- Rewrite          profiles, from the file to a body
    Store                                           history, files, expiry, crashes

    SequenceLemmas <-- SseStreamProof, WsConnectionProof, ChatStreamProof,
                       ConversationProof, ContextWindowProof, CodeModeProof
    StoreProof                                      the theorems, section 5

The `*Proof` modules and `SequenceLemmas` have no model in them. The `MC*` modules
give the runs their sets of chunks, reads, replies, tools,
files and bodies.

**`SseBuffer`** reads one body. `Read` takes any number of the bytes that are
left, so every cut is tried; `Lossy` is `from_utf8_lossy` of one read;
`drain_sse_buffer` takes the complete frames. A relay and the drain of a
compaction differ in what they do at the end of the body and when it breaks off.
Bytes are of six kinds: the starts of a `data:` and an `event:` line, a character
of one byte, the two bytes of another, and the end of a line.

**`ItemProtocol`** is what a streamed response promises, without Chat chunks:
items open at the next output index, grow, close once with the content their
deltas add up to, and are then frozen; the response finishes once with every item
closed. **`ChatStream`** is shown to implement it. `ss` is `StreamState` under
its field names, with the events emitted so far in `ss.log`; `Receive(c)` is
`process_chunk_value`, `ReceiveDone` is `[DONE]`. The refinement mapping is
`ClientItems`: what a client assembles from the log. Texts are sequences of
pieces that name the chunk they came from, so a lost, doubled or displaced piece
shows, and their characters do not matter. `build_response_from_state` and
`to_response_message`, the two forms in which handlers persist a stream, are
operators over the same state. One choice per chunk is what a provider sends
when `n` is not set.

**`SseStream`** starts where `handle_streaming` spawns its task. A frame of the
upstream is a number and one of four kinds; `Frames` says which events it gives.
`task.pc` names the await the task is at: registering the token, the lifecycle
events, the `select!`, the frames of one buffer (sent event by event), the error
event, the two puts, freeing the token. The client reads, stalls or leaves, and
may cancel once it knows the id.

**`WsConnection`** is `run` with `create::handle` and `run_stream`. A turn takes
one of the five ways through `handle` (`Mode`); while it streams, it also
listens to its socket. `Send` is `socket.send().await`, which has no timeout:
while there is something to send and the client takes nothing and stays, the task
is `Stalled`. Pongs and echoes carry no state and are left out.

**`Store`** has an action for each stretch of `store.rs` between two awaits. An
entry and a file carry an *age* instead of an instant; ages stop at the first
value past the TTL, so time itself is unbounded. A writer is a record with its
own offset: a second writer that truncates the file leaves the first writing past
its end (`Hole`), and a writer whose file was removed goes on writing to nothing.
A get may come at any time, before the first put too: a streamed answer gives its
id to the client before it is put, and a guessed or mistyped id was never put. An
id is put once, or twice by a background turn, whose second put may come long after
the first. It begins with the first only if the turn came `alone`, without
instructions or a history; both kinds are initial states. `owed`, `putAge`,
`touched` and `answer` are history variables, and so are `displaced`, the ids whose
entry a get or a sweep took away that had looked before the put, and `spoiled`,
those whose file is no longer the work of one writer at a time. A get reads a
file in one step, whereas the code reads it line by line, and lines count as
equally long. `ReadsAlone`, a part of `AnswersAreWhole`, shows that the first loses
nothing for a get that no put has overtaken: nobody writes a file while it reads.

**`ChatMessages`** has the conversions as operators under the source's names. An
item is its kind and the turn that said it; a message is a role and the items it
was made of, so that a lost, doubled or misplaced item shows. `walk` is the match
that `responses_to_chat` and `items_to_chat_messages` share, with its pending
calls, deferred outputs and pending reasoning.

**`Conversation`** composes them with the store and a client. A turn has one of
eight modes; its actions are the stretches between two effects others can see:
`Convert` (request to upstream request), `FirstPut` (background), `Reply` or
`Fail`, `PutTools`, `Put`. A client is of one of two styles: it stores and
continues by id, or it replays everything (Codex), except on a socket. It begins
the next turn as soon as it knows an id, so turns overlap where the code lets
them: after `response.completed` and before the put, or while a background turn
runs. `said` and `expected` are history variables, what the conversation has said
and which tools it last declared; `whole` tells whether every turn in the chain
found what the one before put last. A turn that fails puts nothing, unless it is a
background turn; a 200 whose body is an error counts as a reply of nothing, and is
put. Expiry is `Store`'s, streams cut short
are `SseStream`'s and `WsConnection`'s.

**`CodeMode`** follows tools where `Conversation` follows messages. A declaration
is the request's top-level tools and those of its `additional_tools` items;
`tool_request_to_chat_tools` and `custom_function_names` say what the upstream is
offered and which calls the client must get back as custom. A turn reads the
registry up to three times (`WrapReplayed`, `OfferTools`, `ResolveNames`), in an
order that differs between HTTP and a socket, and the registry may expire, be
swept or die with the process between any two of them. A call's arguments are an
object, `{ input: text }` or the text itself. A client that replays a custom call
declares its tool again; one that continues by id need not. The ghost fields of a kept call,
`said` and `by`, are what the model wrote and who kept it.

**`JsonRewrite`** has the rules as operators on small JSON trees, and **`Rewrite`**
the life of a configuration file: a profile is a sequence of stages, a stage has
steps (one for each `rename`, `remove`, ... of the file), a step has rules, none
perhaps. A file is read, checked and resolved model by model in any order, or refused; then bodies are rewritten one rule at a time, and a rule that
fails drops the body.

**`ContextWindow`** has two halves. Requests for `GET /v1/models` resolve one
model after the other with the cache, whose lock is not held during the fetch, and
an upstream that goes down. A client takes its window from one such answer, talks
in turns whose messages go through the budgets of `ChatMessages`, is told the
usage that `apply_input_char_scale` makes of the upstream's, and compacts when
what it was told reaches the window. That the client does so is modelled after
the comments in `create.rs` and `input_tokens.rs`; so is what the upstream
counts.

## 3. The runs

| run | bounds | distinct states | shows |
|---|---|---|---|
| `SseBuffer` | bodies of 2 or 3 frames of 6 shapes, cut anywhere | 57,499 | payloads once and in order, blurred only where a read cuts a character |
| `ChatStream` | 15 chunk shapes, 4 chunks, 2 tool calls (one custom) | 40,796 | item grammar, gap-free numbers, no text lost, every prefix persists, nothing missing at the end, refinement of `ItemProtocol` |
| `SseStream` | 7 reads of 1 or 2 frames, no read after 3 frames, channel of 2, 2 cancels | 27,616 | order, history, tools, token, cancel answers, end of the task |
| `WsConnection` | 4 reads, no read after 3 frames, 2 client frames, 1 cancel | 845,099 | turns, history, token, cancel answers, end of each turn |
| `Store` | 1 id, 2 puts, 1 reader, TTL of 2 ticks, 1 crash or failed write | 515,430 | see section 4 |
| `Conversation` | 3 turns, 3 replies (text; two calls; reasoning, text and a call), no limit, one on size, or both; `KEEP_LAST_TURNS` = 1 | 5,736,305 | see section 4 |
| `CodeMode` | 3 turns, 4 declarations, 4 tool choices, 3 settings (allowed types, cap), a TTL that one tick ends | 4,042,361 | see section 4 |
| `ContextWindow` | 4 turns, 3 replies, 2 lists, 1 outage, 2 models, 8 configurations, windows of 5, 8, 9 and 12 tokens, `KEEP_LAST_TURNS` = 2 | 228,166 | see section 4 |
| `Rewrite` | the shipped file with 54 bodies; 196 files of one rule or two with 2 bodies; 820 files for the start | 4,428 | see section 4 |
| `StoreEarlyGet`, `ConversationSummary`, `ContextWindowChained` | as above, with 1 put; without limits; with 5 turns and 1 list | | the findings of section 6: each checks one property that is violated |

Why the bounds are enough:

* *Four chunks and two calls*: opening an item, closing it by another, reopening
  it and ending takes four; two calls are the fewest of which one can be closed
  while another is open.
* *A channel of two*: full, empty and in between, with more events in one buffer
  than fit. *Two cancels*: one that finds the token and one that comes too late.
* *Three frames*: an event before, at and after a bad frame in one buffer. *Two
  client frames*: two turns, or a turn and what interrupts it.
* *One id*: ids share nothing but the sweeper's walk, and the theorems hold for
  any number. *Two puts* is all the background path makes. *One reader* with the
  sweeper and the file tasks: a get may look, be overtaken by a put and load or evict
  afterwards, and look again at what it has done. *A TTL of two ticks*: fresh, at the
  boundary and past it. With two readers the safety properties hold too (11,779,190
  states), but the run with `Forgotten` would take too long to keep; the theorems are
  for any number.
* *Three turns*: one that puts, one that reads and puts in another mode, one that
  reads what both have left. The last turn only asks, and then a mode that asks
  like another one (`AsksAlike`) need not be tried. *The limits* are so small that
  three turns exceed them, and the second turn may.
* *A TTL one tick ends* (`CodeMode`): fresh and expired, and the tick may fall
  between any two reads. *The declarations* are a code-mode client's (custom tools
  and namespaces in `additional_tools`, hosted actions among them), a classic
  one's (`apply_patch`, a custom tool, a hosted tool), hosted tools only, and the
  first one's `exec` as a function. A name keeps its kind in a conversation
  (`Redeclares = FALSE`; see section 6).
* *Four turns* (`ContextWindow`): two that fill the window, one that finds the
  limits at work, one after a compaction. A turn whose user only gives a file
  (`Silent`) has no size at all. *Windows* are smaller and larger than the limits
  on history; the two models have the same upstream name at one base URL or at two.
* *Bodies with an element of every type*, arrays in arrays, and an object whose
  field is named like an index, under paths that fit them and paths that do not;
  pairs of rules where the second finds what the first has moved or made.
* *Three frames* of a body: one that a read completes together with another, one
  cut by it, and a rest.

Deadlock is not checked where the modelled thing ends: a body, a stream, a task, a
connection, a conversation, a program that refuses to start. `Store` runs for ever, and there it is.

## 4. What the properties say

Several properties are conjunctions whose parts have names of their own; the
parts are named here in brackets.

*`SseBuffer`*. `FedAsSent` compares what a reader hands on with the frames of the
body taken as a whole. `TypeOK` also says that nothing complete waits in the
buffer for a read that may never come.

*`ChatStream`*. `EventsAreWellFormed` (`SequenceIsGapFree`, `ItemGrammar`) and
`TextIsRelayed` are about the client's view; `PersistedIsWhole` about what a
handler persists when the stream is cut at this moment (`PartialStateKeepsItems`,
`PartialMessageKeepsText`) and about the final event (`FinalOutputKeepsItems`).
The upstream is taken to keep to the Chat contract: calls are numbered in order, a
call's first delta has its id, and a call that text has followed is over
(`ToolsResumeAfterText = FALSE`). Without the last, `EventsAreWellFormed` still holds
(section 5), but not the protocol: a call that goes on after text is announced a
second time, under a slot whose id was cleared, and never closed.

*`SseStream`*. `HistoryIsWhole`: also when the client leaves or cancels in the
middle of a buffer, everything it was shown is stored (`HistoryHoldsSeen`), and
the tools with it (`HistoryHasTools`). `TokenFollowsTask`: the token goes with the
task (`TokenIsFreed`), and a cancel that is answered 404 came too late or too early
(`NotFoundMeansOver`). `CompletedIsStored` is a liveness property: the client sees
`response.completed` *before* the put, and the put follows whatever anyone does in
between. `EndsOrBlocked`: the task ends, or it waits for ever for a client that
neither reads nor leaves -- there the channel is full, and the wait does not hear a
cancel.

*`WsConnection`*. `TurnIsKept`: a stream is stored although its client hung up or
interrupted it, unless it was cancelled (`KeptUnlessCancelled`), and as a whole
(`HistoryIsWhole`). `TokenFollowsTurn` (`TokenIsFreed`,
`NotFoundMeansNotRelaying`): 404 only before the token is registered, or after the
stream. `TurnEndsOrStalls`: every turn ends and the connection listens again or
closes, or a client that stays and takes nothing more holds it for ever; no cancel
ends that wait, as a send is no branch of the `select!`.

*`Store`*. Clients may ask for an id at any time, also before it is put, which a
client that continues at `response.completed` does. `MemoryHoldsLatest`: until it
expires or the process dies, the map holds the last version put, at its true age,
unless a get or a sweep that had looked *before* that put took it away afterwards
(`displaced`); the code takes no second look (`store.rs:164`, `189`, `285`), so that
is possible (section 6), but nobody who looks later does it. `NoStaleAnswer`: files
and entries do not renew each other's life. `HistoriesAreWhole` has three parts.
`AnswersAreWhole`: without a fault every answer is a version that was put, after one
it may lack messages but has none doubled or out of order; this is said of gets that
no put has overtaken, about ids neither `displaced` nor `spoiled`. `AnswersAreOrdered`:
whoever was overtaken and whatever failed, where the puts begin with one another no
message is answered twice or out of order. `FilesSettleWhole`: unordered writers of
one file settle on one whole version. Where the second put begins with the first,
this holds however the two overlap, as each write starts by truncating; where it does
not -- a background turn with instructions or with a history -- only if the second
write did not open the file while the first was writing it (`spoiled`, section 6). `Forgotten`: every
entry and file goes in the end, without a reader's help.

*`Conversation`*. All are about what turns send upstream, at the end of every chain
of modes. `DialogueIsSent`: without a limit on messages all that the user, the upstream
and the tools have said is sent again (`WordsAreSent`); with any limits there is no tool
message without the call it answers, as a provider would refuse it
(`CallsPrecedeOutputs`). `ConversationIsSent` has two parts. `TurnsStayTogether`:
nothing moves to another turn, but rounds of calls replayed inline may be gathered in
one message; that holds also for a turn that overtook the put of the one before.
`OnlyLimitsCut`: without a limit on messages reasoning is sent again too, unless nothing
came of it (`ReasoningIsSent`), with one only whole turns from the start are missing
(`BudgetCutsTurns`), and of the outputs a request brings none of the last turns is
cut by age (`OnlyOldIsCut`). `LastGivenApplies`: instructions are sent once at most,
first and alone, and they are those the request gives, if it gives any
(`InstructionsAreReplaced`); a turn without tools gets the last declared, never
older ones (`ToolsCarryOver`). If a background or a compaction turn came in
between, it gets none: these put no tools, and the property names that as its only
exception (section 6). They hold for turns whose chain is `whole`; the others are
in section 6.

*`CodeMode`*. `CallsComeBackAsDeclared`: what a client declared as custom, in this
turn or one it continues, comes back as `custom_tool_call` with the bare text, and
nothing else does. `OfferedToolsCarryOver`: the upstream is offered the leading
tools that the client can execute, and a turn that brings none is offered exactly
what the one before was -- a cap, applied again to what was capped, does not drift.
`KeptCallsFit`: a call that was written as `{ input: text }` is kept, or wrapped
again when it is replayed, so that it fits the function that is offered. All
three except turns that asked the registry in vain, or were answered with what such
a turn put (`lost`); the model says which those are, and `Tick`, `sweep`, `Restart`
and background turns, which put no tools, make them.

*`ContextWindow`*. `WindowsAreKept`: whatever requests, models and outages share the
cache, a listed window is the override, the provider's own, or none
(`WindowIsItsOwn`), and nothing that was fetched before a request came is fetched by
it (`FetchedOnce`). `CompactsInTime`: a client that replays its conversation never
sends more than its window and what is new, however much the limits cut from it --
that is what the scaling of usage is for. `EstimateIsReported`: what
`input_tokens` estimates is at most what the turn then reports.

*`Rewrite`*. `StartupIsStrict`: the program starts with exactly the files that are
acceptable as a whole, although it decides piece by piece and in any order, and
then every model has every step of its profile and no other. A stage counts as
empty if it has no step, as in the code; that one whose steps are empty passes is
in section 6. `OnlyNamedPathsChange`: after any
number of rules, a leaf of the document that differs is above, at or below a path
that some applied rule names. `RemovedIsGone`: a removed field is in none of the
elements a wildcard stands for. `ProviderDialect`: the shipped
`deepseek.config.yaml` turns every mix of effort, format and roles into what its own
comments say the provider takes, and refuses none -- but for the efforts `max` and
`ultra`, for which it has no rules: they go on as they came, without a `thinking`
(section 6).

### Fairness

`WF(TaskStep)`, `WF(~Stalled /\ ConnStep)`: the runtime polls a task that can run,
and the request timeout (`.timeout(provider.timeout)`, which covers the body) ends
every read, so a `select!` never waits for ever. The client has no fairness: it may
stall or stay silent, and a send to a client that stays and takes nothing waits as
long as it does, on the channel of an SSE stream (`EndsOrBlocked`) as on a socket
(`TurnEndsOrStalls`). In `Store` the spawned file tasks, started gets, the
spawning half of a put and the sweeper (an endless loop over an interval timer)
run, and time passes; no get or put has to begin.

## 5. What is proved

Each `*Proof` module extends the module it is about and proves its theorems for
every value of the constants that the module's `ASSUME` admits; TLC evaluates these
assumptions in every run. Each invariant below was checked by TLC on the instance
of its run before it was proved.

| module | theorem | states |
|---|---|---|
| `ChatStreamProof` | `TypeCorrect` | `TypeOK`, under `Transport` |
| | `StreamsAreWellFormed` | `EventsAreWellFormed`, under `Transport` |
| | `StreamImplementsProtocol` | `ImplementsItemProtocol`, under `Transport` and `Contract` |
| | `TextReachesTheClient` | `TextIsRelayed`, under `Transport` |
| | `NothingAnnouncedIsLost` | `PersistedIsWhole`, under `Transport` and `Contract` |
| `StoreProof` | `TypeCorrect` | `TypeOK` |
| | `LatestIsHeld` | `MemoryHoldsLatest` |
| | `AnswersAreFresh` | `NoStaleAnswer` |
| | `HistoriesStayWhole` | `HistoriesAreWhole` |
| `SseStreamProof` | `TypeCorrect` | `TypeOK` |
| | `TokensFollowTasks` | `TokenFollowsTask` |
| | `HistoriesHoldWhatWasSeen` | `HistoryIsWhole` |
| | `EventsAreRelayed` | `RelayedInOrder` |
| `WsConnectionProof` | `TypeCorrect` | `TypeOK` |
| | `TokensFollowTurns` | `TokenFollowsTurn` |
| | `TurnsAreKept` | `TurnIsKept` |
| | `TurnsDoNotMix` | `TurnsAreSequential` |
| `ContextWindowProof` | `TypeCorrect` | `TypeOK` |
| | `EachModelItsWindow` | `WindowsAreKept` |
| | `EstimateHolds` | `EstimateIsReported` |
| | `ReplayingCompactsInTime` | `CompactsInTime`, under `Roomy` |
| `ConversationProof` | `TypeCorrect` | `TypeOK` |
| | `TheLastGivenApplies` | `LastGivenApplies` |
| | `AnswersFollowCalls` | `CallsPrecedeOutputs`, under `CallsTogether` |
| | `NothingSaidIsLost` | `WordsAreSent`, under `CallsTogether` |
| | `TheDialogueGoesOn` | `DialogueIsSent`, the two together |
| `CodeModeProof` | `TypeCorrect` | `TypeOK` |
| | `ToolsCarryOver` | `OfferedToolsCarryOver` |
| | `CallsAreKeptFitting` | `KeptCallsFit`, under `OnePlace` |
| | `ShapesComeBack` | `CallsComeBackAsDeclared`, under `Coherent`, `FunctionsPass` and `~Redeclares` |

### Assumptions

* `Transport`: the handler has sent the two lifecycle events itself, as both handlers
  do; otherwise they are numbered after the first chunk's own events.
  `Contract`: a call that text has followed is over, and no delta has an empty id.
  The upstream has to keep it, the code does not check it; `TypeCorrect`,
  `StreamsAreWellFormed` and `TextReachesTheClient` hold without it.
* `StoreAssumption`: an id is put at most twice, which is all that any handler does,
  and a file is written within the TTL. Nothing is assumed of when clients ask, of how
  old the first put is at the second, or of what the second one holds.
* `SseStreamAssumption`, `WsConnectionAssumption`, `ConversationAssumption`,
  `ChatMessagesAssumption`: types, a channel that holds something (64 in the code),
  a client that keeps a turn at least. `ContextWindowAssumption` and
  `ConfigsAssumption`: what a configured model resolves to, and that `Offered` says
  of each model what its upstream would answer. `CodeModeAssumption`: what
  definitions, allowlists and caps are.
* `Roomy`: every window, configured, advertised or the client's own, has room for more
  than one token. A summary has more than that, so a client whose window is one token
  has no room left as soon as it has compacted.
* `CallsTogether`: in a reply that ends with a call, only calls follow the first call.
  The replies of `Conversation.cfg` are such. Without it a stream over a socket that goes
  from a call to text and back keeps only the last calls (`ChatStreamLostCall`, section
  6), and TLC refutes `CallsPrecedeOutputs` for a reply of call, text, call.
* `Coherent`: no request declares a name as a function and as a custom tool;
  `~Redeclares`: nor does a later one (the code has one set of names per turn, and no
  shape can be right for both). `FunctionsPass`: `"function"` is in the allowlist, as it
  is by default (`config.rs:51`). Without it a request whose only tools are functions
  made of custom ones, `apply_patch` say, has names of its own and the tools of the
  turn before (section 6).
* `OnePlace`: a top-level custom tool has its name from no namespace, `additional_tools`
  item or `apply_patch` of any request. It matters where the allowlist has `"custom"`:
  there the same name is a raw tool in one request and a function with an input in
  another, and a call of one is replayed for the other. The declarations of
  `CodeMode.cfg` are `OnePlace` and `Coherent`, and two of its three settings let
  functions pass.

### The arguments

*`ChatStreamProof`*. `ItemGrammar` says of the log that its items are well-formed, not
why the next chunk keeps them so. `Sound` does: each item announced is at rest or in the
hand of exactly one accumulator (`Items`), which knows its index and kind and, under the
contract, has as its content what the client was told in deltas; an item in a
hand has not come further than its deltas (`OpenAt`), one at rest is closed with what its
deltas said (`ClosedAt`). `Kept` is about the log alone: its numbers, how many items it
announces, and that whatever the log before the chunk had closed is untouched. Every
operation is one accumulator that opens an item, goes on with it or lets go of it
(`Moves`, `ItemsMove`), and what it emits is a part of one item's life, event by event
(`Life`). Accumulators that were closed but not yet cleared are a parameter of
`Sound`, so it holds between the steps of a chunk too, and `CompletionCloses` is that at
`[DONE]` all of them are closed. `CallsAreOpen` ties the contract to the state: a call
that began and that no text followed has its slot open, so no delta without an id meets a
closed one. The refinement compares the logs before and after a step: `GoesFrom` gives
`Advances`, `ClosedAt` gives `Consistent`, `AllClosed` gives `Finish`.

`TextIsRelayed` compares the log with all chunks so far. `Relays`: the text that the
log tells is what was received, in its order, and the indexes of the messages told
never decrease along the log (`Ordered`). Because of this the client may collect the
text index by index (`ByIndex`) and has the same text; `Tally` says which received
pieces are text, which refusals, and that none comes twice, so refusals told
apart keep their order. `PersistedIsWhole` is about three collections made from one
state. `EachIsKept`: every index handed out belongs to exactly one item, which is either
completed, as the client has it, or open in one accumulator. `Whole`: the
text of the messages kept, followed by that of the open one, is what was received.
`LeavesNoneOut`: the output of the final event has every index.

*`StoreProof`*. `MemoryHoldsLatest` is not inductive: it says nothing of those who
already hold the means to destroy an entry. `LatestInv` does. Call an id *settled* when
the map owes nothing for it: it was never put, or not since the process started, or
the put is older than the TTL. A get that did not answer from memory at once found the
entry missing or expired, and so did the sweeper with every key it collected; unless the
id was displaced already, it was settled then (`MissIsSettled`), and it stays so until
the next put (`SettledStays`). So whoever may take an entry away holds one of three
things (`ReadersAreLate`, `SweepIsLate`): the id is settled, or displaced, or a put has
come since and overtaken it. In the last case the entry becomes `displaced` when it
goes; in the others nothing was owed.

`NoStaleAnswer` follows from bounds on `touched`, the time since anybody put or
wrote an id: it is at most the age of the file (`FilesAreDated`), the age that a
loading reader took from the file and the ticks since (`ReadersAreDated`), and the age
of the entry and the time one read may take (`EntriesAreDated`). A write renews the
file only, and an entry takes the age of the file it came from, so neither
renews the other.

`HistoriesAreWhole` needs to know what a half-written file can turn into. `HistoryInv`
says that each writer writes a version that was put (`WritersAreRecent`), and then
there are two cases. Where the puts begin with one another, each line of a file is in
its own place or a hole (`InPlace`), and while nothing has failed a hole, or a file
that ends early, has a writer left that holds the file open and has not come past that
line (`Fillable`). Where they do not, at most one writer has the file open, and the
file is what that one has written so far (`Exact`), until it is spoiled. A put that was
displaced before `put` reads it back gives the writer what displaced it, which may
be a file cut short: `FirstsInv` says that then there was one writer before this at
most, so that all there is of the id is the beginning of what it wrote (`Once`), or
nothing (`Unwritten`). Readers and entries hold whole versions, or after a fault
thinned ones, as long as the id is `Clean` (`HeldFit`), and in any case rising ones
where the puts begin with one another. `ReadsAlone` follows from `LatestInv`: a file of
a settled id has no writer, as a write takes less than the TTL.

*`SseStreamProof`*. `Base` places the task in the stream: its buffer is the rest of
what was received (`FramesAreOwed`), each location has its own buffers empty.
`TokenInv`: a token that is gone before the end was taken by a cancel that was told
so. `DataIsKept`: an event sent or about to be sent shows only frames that
`processed` has; `HistoryInv`: nothing is processed after the put. `RelayInv`: while
the client is there, what it read, the channel and the events still to send are
together the events of the frames handled so far. `RelayedInOrder` follows at every
location, the await a client leaves at included.

*`WsConnectionProof`*. The same four parts for the turn that runs, and what keeps
turns apart: `InTurn` (events are in the order of their turns, none is of a turn to
come), `CancelInv` (only a cancel that was answered 200 signals a turn that holds
its token), and for the turns before the last that nothing of them changes
(`OthersStay`).

*`ContextWindowProof`*. `CacheIsTrue`: a cached window is the upstream's own or
`None`; `ListIsTrue`: a request has told, in the order of the models, windows that may
be told, is fetching what it did not know, and what it knew is still known.

`CompactsInTime` is about sums of sizes. `Weighs` is what a walk has made so far, and
`WalkWeighs` says that each item adds its own `Weight` whatever the walk does with it, so
a request weighs its history and its items (`AppendItemsWeighs`). An item's
weight depends on whether it is old; with more items what was old stays old
(`OldStaysOld`), so a longer request weighs at most what its parts weigh
(`WeightsTogether`). The limits only make it smaller and never take the last message
(`BudgetsKeepLast`). Then arithmetic: the bytes are at most four times the
upstream's tokens (`TokensAreMany`), and the bytes of a request at most four times what
is reported and one more, which rounding loses (`ScaledIsEnough`). The invariant
follows the client: while it waits, what a replaying client has was measured
(`Asked`); between turns it was told at least a quarter of that, or has just compacted
it into a summary (`Told`). `Roomy` then says that there is room for the next turn.

*`ConversationProof`*. `LastGivenApplies` says what turns send; what they send is
made from what an earlier turn put, which was made by the same conversions.
`Inv` closes the circle. `Typed` has all that is held or sent *headed*: an
instructions item stands alone in a system message, and that message is first.
Each conversion keeps this: the two walks (`Keeps`: they go on after the messages they
start with, and add none with instructions), the replacement of the old
instructions, the budgets, which cut from the head but keep a leading system message.
`TurnsHaveTools` follows the tools of a turn from what the client was told to what it
puts, and `ClientHasTools` says of the turn the client continues that its tools are
those the client declared last, where its history is there. The other case is carried
along: there are none, and a turn since the declaration is in `Gone`, those that are
over and have passed no tools on. `Gone` only grows, so what was lost stays lost until
the client declares again.

`CallsPrecedeOutputs` is not kept by the limits: they cut a history at a user's message,
and a call before the cut may have its answer after it. `Rounds` is what they keep: an
answer comes after its call *with no message of the user in between*. A walk keeps it
(`AppendItemsHolds`) because each output it has deferred answers a call that the messages
hold or that is still in `calls` (`WalkHolds`), and `settle` writes the calls first. What
has to be known of the items is the same thing of items (`Answers`): of what
the client replays, and of what it adds to a history, given the calls that it may
answer. So `RoundsInv` has three parts: what each turn asks, sends and has put has its
answers after its calls (`TurnAnswers`); the client knows no answer without its call, and
its open calls come after the last user's message (`ClientAnswers`); and the turn it
continues has left, or will leave, those calls where they can be answered
(`LeavesCalls`). The last one is about the ways in which a mode writes down a reply
(`HistoryHolds`), of which `to_response_message` needs `CallsTogether` (`OpenCalls`).

`WordsAreSent` needs the same circle once more, for what is said (`Words`: the items of
the user, the upstream and the tools, not instructions, summaries or reasoning).
`WordsInv` has two parts. `TurnSays`: while the upstream is asked and until the put, the
request of a turn says all that its client had said so far. `LeavesWords`: the turn
that the client continues has put all that the client knows, or has it in its request and
its reply. A walk loses no item because it hears it in one of three places (`Heard`): the
messages, the calls, or the outputs it defers; the end flushes the last two
(`AppendItemsSays`). Instructions do replace a message of the history, so the
invariant says too that a system message that leads what is sent or stored has no words
(`Quiet`), and what is replaced loses none. `HistorySays` takes the ways in which a mode
writes down a reply; `to_response_message` is again the one that needs `CallsTogether`.
`Unlimited` is the property's own condition: a limit on messages is there to lose some.

*`CodeModeProof`*. Two descriptions of a request have to meet: the tools it becomes
(`chat_tools`) and what its client knows them by (`Executable`). `Along` says that two
sequences agree position by position, `Offers` what agreement is here (the same name,
an input if and only if the client takes it for custom, a name in
`custom_tool_names` if the call must be unwrapped), and `RequestOffers` that they do for
every request: it goes definition by definition (`DefinitionBecomes`) through the two
flattenings (`AlongFlatten`). `ToolsInv` places the registry's entry: from `PutTools` to
`Put` it is what the turn offered, else what the last turn did; and what was capped
once is within the cap, so capping it again changes nothing. `CallsInv`: a call that was
written as `{ input: text }` and shown as custom is for a name in `Wrappable`, those
that some request has as a function with an input, so the request that replays it
wraps it again (`DeclaredAsWrapped`). `ShapesInv` is what makes reads that happen apart
fit: the entry agrees with what the client had declared when it was put
(`EntryAgrees`), and of a turn that has read its names only, or its tools only, enough is
remembered to know that the other will match (`NamesAreRead`, `ToolsAreRead`).
`TogetherAgree` then takes the four ways in which names and tools may come from the
request or from the registry; one of them cannot happen if functions pass.

`SequenceLemmas` holds what these proofs share: `FlattenSeq` of a
sequence that grows, prefixes, the events of a growing list of frames. Induction is
done with sets: `Inductive` says that a set of naturals with 0 and with the
successors of its members is `Nat` (it follows from `WFMin`, the least element of a
set under a well-founded relation), and `RecursionExists` that a function defined by
recursion over an interval exists. With them the folds of `Frames` and
of `ChatStream`, the walk and the budgets of `ChatMessages` and the sums of
`ContextWindow`, which are recursive functions, can be reasoned about.

### Only model-checked

* Liveness (`Forgotten`, `CompletedIsStored`, `EndsOrBlocked`, `TurnEndsOrStalls`): it
  rests on fairness and `ENABLED`.
* `ConversationIsSent` of `Conversation`: that turns are not mixed, where reasoning goes,
  and what exactly the limits take.
* `SseBuffer` and `Rewrite`: what they say is what their operators compute of a text
  and of a tree.

## 6. Findings

Where the code does not do what a comment, a doc or a test says. Three have a run
among those of section 3:

1. `StoreEarlyGet`. A client that continues a response when it sees
   `response.completed`, before the put, and meets the file the put is just
   creating is answered with an empty history, not with a miss
   (`store.rs:284`; `tests/store_files_integration.rs:146`).
2. `ConversationSummary`. A compaction persists its summary as a leading system
   message; a continuation with instructions takes that for the old instructions
   and replaces it (`convert/request.rs:104`; `handlers/responses.rs:1018`).
3. `ContextWindowChained`. Usage is scaled by the size of the stored history, which
   the limits have already cut. A client that continues by id is told what is left
   of its conversation, not how large it is, and never reaches the threshold at
   which it would compact (`websocket/create.rs:144`, the comment above it).

Further configurations, each of which TLC ends with a counterexample to the one
property it checks:

4. `ChatStreamOutputTwice.cfg` (`MCChatStream`). An item still open at `[DONE]` is
   twice in the output of the final event: closing it appends it to
   `completed_items` but does not clear its accumulator, which is then collected
   too (`streaming.rs:744`, the comment above it).
5. `ChatStreamLostCall.cfg` (`MCChatStream`). `to_response_message` takes closed
   calls only if no call is open, so a call closed by text is lost when another
   follows (`streaming.rs:181`).
6. `StoreMixedFile.cfg` (`Store`). A background turn puts its input and later the
   instructions, the history, the input and the reply (`responses.rs:188`, `223`). Each
   put spawns its writer, and when both write at once, the file keeps lines of both, in
   an order neither wrote (`store.rs:93`). The store answers from memory until the
   entry expires or the process restarts; then it reads that file.
7. `WsLostCreate.cfg` (`MCWsConnection`). A `response.create` that arrives while a
   turn streams ends that turn and is dropped (`websocket/create.rs:538`;
   `docs/openai-websocket-summary.md:141`).
8. `ConversationOrder.cfg` (`MCConversation`). A reply in one piece that has text
   and calls is listed with the calls first (`convert/response.rs:126`, `153`).
   Replayed or continued, the text becomes a message between the calls and their
   outputs, against README.md:10, "with correct message ordering".
9. `CodeModeReplay.cfg` (`MCCodeMode`). A custom call of a reply in one piece is kept
   with its bare text as the arguments, and a continuation by id sends that, against
   `convert/request.rs:262`: "raw freeform is not valid JSON arguments".
10. `ContextWindowNone.cfg` (`MCContextWindow`). A fetch that failed is remembered as
    "no window" for the life of the process, also over a window that another
    request has just fetched (`app.rs:39`: "A cached `None` records that the upstream
    had nothing to offer").
11. `RewriteWildcardRemove.cfg` (`MCRewrite`). A `remove` whose path ends in a wildcard
    takes every second element: the paths are expanded once and then removed one by
    one, each shifting those after it (`rewrite.rs:25`; README.md:220).
12. `StoreLateLoad.cfg` (`Store`). A get that missed an id before it was put, and finds
    the file that the put is writing, inserts what it has read over the entry that was
    put (`store.rs:285`), so the map holds a part of the history, or none, although
    nothing has expired (`store.rs:155`, "Returns None if not found or expired"). A get or a
    sweep that has met an expired entry and evicts it after a put of the same id does
    the same (`store.rs:164`, `189`). Clients know an id before the put: a stream tells
    it at its start (`responses.rs:617`, `create.rs:369`).
13. `ConversationTools.cfg` (`MCConversation`). A background turn (`responses.rs:183`)
    and a compaction put a history and no tools, so a turn that continues one by id and
    brings none is offered none, against `convert/request.rs:414`: "Restore the registry
    cached under the previous response so the conversation keeps its tools".
14. `RewriteEmptyStep.cfg` (`MCRewrite`). A stage is empty if it has no steps
    (`config.rs:469`). `at: chat-out, remove: []` has one, without rules, and starts,
    against README.md:222, "empty rewrite stages ... fail at startup", and the message
    at `config.rs:477`, "must contain at least one rule".
15. `RewriteEffort.cfg` (`MCRewrite`). The shipped `deepseek.config.yaml` has no rule
    for the efforts `max` and `ultra`, which `config.rs:167` advertises by default and
    `convert/request.rs:43` sends. `ultra` reaches a provider that "only accepts high /
    max" (`deepseek.config.yaml:43`; `config.rs:165` wants it clamped), and with `max`
    thinking is not asked for.

Seen while modelling, without a configuration:

* The handlers' two lifecycle events take the numbers 0 and 1, and the state
  machine begins at 0 again (`responses.rs:591`), though `streaming.rs:53` calls
  the number monotonic.
* A cut file left by a crash is answered as the whole history: nothing marks the
  end. An upstream that goes back to a call after text meets the leftovers of its
  slot. After `[DONE]` the persisted history of an SSE turn repeats the last open
  item, and a WebSocket turn's its text (the root of 4), so that the next
  request of the chain says it twice.
* Each read is decoded by itself (`responses.rs:634`, `create.rs:480`,
  `upstream.rs:85`), so a character that a read cuts becomes two replacement
  characters. The relays drop a last frame that no empty line ends, the drain feeds
  it; frames separated by CRLF are never found; a compaction takes an early clean
  end of the body for the end of the summary.
* A continuation of a background turn that comes before its result finds the
  turn's input alone, and one that gets a miss finds nothing: its tool outputs go
  upstream without their calls. `docs/openai-websocket-summary.md:92` wants
  `previous_response_not_found` there. Background turns put their result also
  with `store: false`; their task may die on
  `&body[..200]` (`responses.rs:381`), when byte 200 is inside a character, and put
  no result.
* Stored instructions are inherited, which
  `docs/openai-responses-api-summary.md:68` says they are not.
* Without a compaction key a replayed plain summary is dropped by both
  conversions (`convert/request.rs:1090`), though README.md:288 names that form.
* Age cuts apply to what a request brings, not to what was stored, and come before
  the size is measured by which usage is scaled; what is stored was trimmed by the
  budgets already. Usage is not scaled where nothing with text was sent. A restart
  keeps the histories and loses the tool registry.
* Tools: a raw `custom` tool that a stream calls is shown as a `function_call`
  without a name (`CustomCallsAreNative` in `CodeMode`; `request.rs:476`). A request
  that has hosted tools only counts as one without tools and gets those of the turn
  before. A name that is declared again in another kind can be shown by the kind it
  had (`Redeclares = TRUE`). The choice of a custom tool that is presented as a
  function is sent as a choice of a custom tool, and that of `apply_patch` is dropped.
  Tools and names are read from the registry one after the other (`store.rs:129`,
  `142`): an entry that expires in between gives a turn its tools and no names, and the
  turn puts them so, under its own id; the turns that continue it show custom calls as
  function calls, although the registry answers them. Where the allowlist leaves
  `"function"` out, a request whose tools all become functions has names and no tools,
  and takes the registry's tools (`request.rs:411`) with its own names (`550`).
* Rewriting: `set: null` reads as no `set`, a `with` that repeats the rule's own path
  is only refused beside a `set` (README.md:220, 222), naming a field of an array
  puts an object in its place, a rename to a wildcard that fits nothing loses the
  value, and a `reset` of an object's field that is named like an index fails the
  request.
* The default reasoning level need not be among the levels a file configures
  (`config.rs:180`).

## 7. What is not modelled

* Authentication and JSON extraction: stateless checks of one request.
* Encryption: a library's cipher around a text; that a key is configured or not is
  the constant `HasKey`.
* Prompts, and all of a catalog entry but its window: static data.
* Wire types but those of tools: declarations for serde.
* Start-up, router, logging: wiring; that it starts the sweeper is taken for granted
  in `Store`. Of the configuration, what has no rules of its own: addresses, keys,
  log level, reasoning levels.
* `delete` of the store, which nothing calls, and namespaces, a prefix of ids.
* Of the conversions: parameters that are copied, multimodal content, annotations,
  log probabilities, several choices in one chunk. Message items of the roles system
  and developer (`convert/request.rs:250`, `1212`): a message of an input is a user's
  or an assistant's. One that leads a stored history is replaced by later instructions
  (`request.rs:104`), as the summary of finding 2 is.
* Of the streaming state machine: text and refusal share one message and one kind of
  events in `ChatStream`, whereas the code has parts and event types for each
  (`streaming.rs:620`, `930`, `971`); their order and completeness are kept apart in
  `TextIsRelayed`.
* In `Store`: lines of different lengths, so that a writer past a truncation lands in
  the middle of a line, and a get that reads between two lines. The second can only
  happen to a get that a put has overtaken, or of a displaced id (`ReadsAlone`), of
  which only `AnswersAreOrdered` is claimed; a reader that goes down a file while two
  writers extend it meets its lines in order.

## 8. Plan

The core is modelled. What could still be composed: the registry with the histories
in `Store` (today in `CodeMode`, with one chain), and gets that read a file line by
line, for those that a put has overtaken (`ReadsAlone` of `Store` covers the others).

Theorems next: `ReasoningIsSent` of `Conversation`, where a walk must be known to hold
reasoning only for a message that is still to come; `StartupIsStrict` of `Rewrite`, whose
files are decided upon model by model.
