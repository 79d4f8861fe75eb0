------------------------------ MODULE CodeMode ------------------------------
(***************************************************************************)
(* The tools of a conversation: what a client declares, what of it the     *)
(* upstream is offered, and in which shape the model's calls come back and *)
(* are kept (src/convert/request.rs, convert/response.rs, the tool         *)
(* registry of store.rs, and its use by handlers/responses.rs and          *)
(* websocket/create.rs). A declaration is top-level tools and those of     *)
(* additional_tools items; schemas and descriptions are left out.          *)
(***************************************************************************)
EXTENDS Integers, SequencesExt

CONSTANTS
    Declarations,    \* what a request may bring
    ToolChoices,         \* tool_choice of a request, as JSON: its fields by name
    Settings,        \* [allowed : allowed-tool-types, max_tools : max-tools]
    TTL,             \* the registry's, in ticks
    MaxTurns,        \* bound on the turns
    Redeclares       \* may a name be declared again in another shape?

\* A definition, as it is parsed.
Member == [type : {"function", "custom"}, name : STRING]
Definition == [type : STRING \ {"namespace"}, name : STRING]
                 \cup [type : {"namespace"}, name : STRING, tools : Seq(Member)]

ASSUME CodeModeAssumption ==
    /\ Declarations \subseteq [tools : Seq(Definition), additional : Seq(Definition)]
    /\ Settings \subseteq [allowed : SUBSET STRING, max_tools : Nat]
    /\ TTL \in Nat /\ MaxTurns \in Nat /\ Redeclares \in BOOLEAN

None == [type |-> "none"]

VARIABLES
    turn,       \* the client's turn, which is alone
    count,      \* of the turns so far
    client,     \* what it has seen and declared, and of the response it would continue:
    history,    \* the calls in its history
    registry,   \* its StoredTools (in Store.tools), or None
    offered,    \* the tools its turn offered
    setting

kept == <<history, registry, offered>>
vars == <<turn, count, client, kept, setting>>

Mode == {"whole", "sse", "ws", "warmup", "background"}
Streams == {"sse", "ws"}
Socket == {"ws", "warmup"}

-----------------------------------------------------------------------------
(* What a definition becomes                                               *)

\* Hosted in OpenAI's runtime: no client executes these.
is_multi_agent_hosted_action(name) ==
    name \in {"spawn_agent", "send_message", "followup_task", "wait_agent",
              "interrupt_agent", "list_agents"}

\* A Chat tool. A freeform one has a text for its argument: as a function it
\* takes { input: text }.
function_tool(name) == [type |-> "function", name |-> name, freeform |-> FALSE]
custom_as_function(name) == [type |-> "function", name |-> name, freeform |-> TRUE]
custom_tool(name) == [type |-> "custom", name |-> name, freeform |-> TRUE]

\* What the client executes of a namespace.
Members(ns) ==
    IF ns.name = "collaboration" THEN <<>>
    ELSE FlattenSeq([i \in DOMAIN ns.tools |->
            IF is_multi_agent_hosted_action(ns.tools[i].name) THEN <<>> ELSE <<ns.tools[i]>>])

\* What is hosted, or has no equivalent, becomes nothing.
tool_request_to_chat_tools(t, keep_raw_custom) ==
    CASE t.type \in {"function", "custom"} ->
            IF is_multi_agent_hosted_action(t.name) THEN <<>>
            ELSE <<IF t.type = "function" THEN function_tool(t.name)
                   ELSE IF keep_raw_custom THEN custom_tool(t.name)
                   ELSE custom_as_function(t.name)>>
      [] t.type = "apply_patch" -> <<custom_as_function("apply_patch")>>
      [] t.type = "namespace" ->
            [i \in DOMAIN Members(t) |->
                IF Members(t)[i].type = "custom" THEN custom_as_function(Members(t)[i].name)
                ELSE function_tool(Members(t)[i].name)]
      [] OTHER -> <<>>

custom_function_names(t, include_custom) ==
    CASE t.type = "custom" ->
            IF include_custom /\ ~is_multi_agent_hosted_action(t.name) THEN {t.name} ELSE {}
      [] t.type = "apply_patch" -> {"apply_patch"}
      [] t.type = "namespace" -> {m.name : m \in {x \in ToSet(Members(t)) : x.type = "custom"}}
      [] OTHER -> {}

NamesOf(tools, include_custom) ==
    UNION {custom_function_names(t, include_custom) : t \in ToSet(tools)}

keep_raw_custom == "custom" \in setting.allowed

custom_tool_names(request) ==
    NamesOf(request.tools, ~keep_raw_custom) \cup NamesOf(request.additional, TRUE)

Flattened(tools, raw) ==
    FlattenSeq([i \in DOMAIN tools |-> tool_request_to_chat_tools(tools[i], raw)])

\* The tools of one definition are all functions, or one raw custom tool.
Accepted(tools) ==
    IF \A c \in ToSet(tools) : c.type = "function" => "function" \in setting.allowed
    THEN tools ELSE <<>>

\* The allowlist is asked of top-level tools only.
chat_tools(request) ==
    FlattenSeq([i \in DOMAIN request.tools |->
                   Accepted(tool_request_to_chat_tools(request.tools[i], keep_raw_custom))])
        \o Flattened(request.additional, FALSE)

\* Mutant: the trailing tools are kept.
enforce_tool_budget_Trailing(tools) ==
    IF setting.max_tools = 0 \/ Len(tools) <= setting.max_tools THEN tools
    ELSE SubSeq(tools, Len(tools) - setting.max_tools + 1, Len(tools))

enforce_tool_budget(tools) ==
    IF setting.max_tools = 0 \/ Len(tools) <= setting.max_tools THEN tools
    ELSE SubSeq(tools, 1, setting.max_tools)

\* ToolChoice as it is parsed, in this order, and as Chat has it.
ToolChoice(c) ==
    IF "string" \in DOMAIN c THEN "String"
    ELSE IF "mode" \in DOMAIN c THEN "Mode"
    ELSE IF c.type = "mcp" /\ "server_label" \in DOMAIN c THEN "Mcp"
    ELSE IF c.type = "apply_patch" THEN "ApplyPatch"
    ELSE IF c.type = "shell" /\ DOMAIN c = {"type"} THEN "Shell"
    ELSE IF "name" \in DOMAIN c THEN "Specific"
    ELSE "Types"

convert_tool_choice(c) ==
    IF \/ ToolChoice(c) \in {"String", "Mode"}
       \/ ToolChoice(c) = "Specific" /\ c.type \in {"function", "custom"}
    THEN c ELSE None

-----------------------------------------------------------------------------
(* Calls. The arguments are an object by some schema, { input: text }      *)
(* ("wrapped"), or the text itself ("raw").                                *)

unwrap_custom_input(arguments) == IF arguments = "wrapped" THEN "raw" ELSE arguments

\* What the client is shown. A streamed custom call has no function that the
\* delta could name.
Shown(t, call) ==
    CASE call.type = "custom" /\ t.mode \in Streams ->
            [type |-> "function_call", name |-> "", arguments |-> ""]
      [] call.type = "custom" /\ t.mode \notin Streams ->
            [type |-> "custom_tool_call", name |-> call.name, arguments |-> call.arguments]
      [] OTHER ->
            IF call.name \in t.names
            THEN [type |-> "custom_tool_call", name |-> call.name,
                  arguments |-> unwrap_custom_input(call.arguments)]
            ELSE [type |-> "function_call", name |-> call.name, arguments |-> call.arguments]

\* Mutant: the stream keeps the call as it showed it.
Kept_AsShown(t, call) ==
    [name |-> Shown(t, call).name, said |-> call.arguments, by |-> t.mode,
     arguments |-> Shown(t, call).arguments]

\* What is kept of it: a stream keeps the function-shaped call, a whole reply
\* what it shows, with no wrapping. (said and by are only for the properties.)
Kept(t, call) ==
    [name |-> Shown(t, call).name, said |-> call.arguments, by |-> t.mode,
     arguments |-> IF t.mode \in Streams /\ call.type = "function" THEN call.arguments
                   ELSE Shown(t, call).arguments]

\* A call the client replays.
Replayed(item, names) ==
    [name |-> item.name, said |-> item.said, by |-> "client",
     arguments |-> IF item.type = "custom_tool_call" /\ item.name \in names THEN "wrapped"
                   ELSE item.arguments]

-----------------------------------------------------------------------------
(* The client                                                              *)

Nothing == [tools |-> <<>>, additional |-> <<>>]

\* The names a definition declares for the client's own tools, each with its kind.
Said(t) ==
    CASE t.type \in {"function", "custom"} /\ ~is_multi_agent_hosted_action(t.name) ->
            <<[name |-> t.name, kind |-> t.type]>>
      [] t.type = "apply_patch" -> <<[name |-> "apply_patch", kind |-> "custom"]>>
      [] t.type = "namespace" ->
            [i \in DOMAIN Members(t) |-> [name |-> Members(t)[i].name, kind |-> Members(t)[i].type]]
      [] OTHER -> <<>>
Declared(definitions) == FlattenSeq([i \in DOMAIN definitions |-> Said(definitions[i])])

\* The kind of each name, as it was last declared.
Kinds(request, before) ==
    LET said == Declared(request.tools \o request.additional) IN
    [name \in DOMAIN before \cup {d.name : d \in ToSet(said)} |->
        IF \E d \in ToSet(said) : d.name = name
        THEN said[Max({i \in DOMAIN said : said[i].name = name})].kind
        ELSE before[name]]

NoTurn == [pc |-> "over", mode |-> "whole", continues |-> FALSE, request |-> Nothing,
           choice |-> None, given |-> <<>>, names |-> {}, tools |-> <<>>, history |-> <<>>,
           call |-> None, shown |-> None, kinds |-> <<>>, lost |-> FALSE]

Init ==
    /\ turn = NoTurn
    /\ count = 0
    /\ client = [last |-> FALSE, lost |-> FALSE, calls |-> <<>>, kinds |-> <<>>]
    /\ history = <<>> /\ registry = None /\ offered = <<>>
    /\ setting \in Settings

\* A turn continues the last response, and brings tools or not; or it replays
\* the calls and declares the custom tools of these again. A socket asks for the
\* names before the conversion, HTTP after it.
Begin(mode) ==
    /\ count < MaxTurns /\ turn.pc = "over"
    /\ \E request \in Declarations \cup {Nothing}, continues \in BOOLEAN :
          LET kinds == Kinds(request, IF continues THEN client.kinds ELSE <<>>) IN
          /\ continues => client.last
          /\ continues \/ \A call \in ToSet(client.calls) : call.type = "custom_tool_call" =>
                             call.name \in DOMAIN kinds /\ kinds[call.name] = "custom"
          /\ Redeclares \/ \A name \in DOMAIN kinds \cap DOMAIN client.kinds :
                               kinds[name] = client.kinds[name]
          /\ turn' = [NoTurn EXCEPT !.pc = IF mode \in Socket THEN "names" ELSE "convert",
                                    !.mode = mode, !.continues = continues,
                                    !.request = request, !.kinds = kinds,
                                    !.given = IF continues THEN <<>> ELSE client.calls]
    /\ count' = count + 1
    /\ UNCHANGED <<client, kept, setting>>

-----------------------------------------------------------------------------
(* The registry                                                            *)

Fresh == registry # None /\ registry.age <= TTL

\* get_tools and get_custom_names of the response before: an entry that has
\* expired is removed.
Found == turn.continues /\ Fresh
Read(asks) ==
    /\ registry' = IF asks /\ ~Fresh THEN None ELSE registry
    /\ UNCHANGED <<count, client, history, offered, setting>>

AsksForNames == custom_tool_names(turn.request) = {} /\ turn.continues
AsksForTools == chat_tools(turn.request) = <<>> /\ turn.continues
Lost(asks) == turn.lost \/ (asks /\ (~Found \/ client.lost))

\* Mutant: only the request's own.
resolve_custom_tool_names_Own == custom_tool_names(turn.request)

\* A request with no names of its own has those put for the response before.
resolve_custom_tool_names ==
    IF AsksForNames /\ Found THEN registry.custom_names ELSE custom_tool_names(turn.request)

\* The names by which calls are shown.
ResolveNames ==
    /\ turn.pc = "names"
    /\ turn' = [turn EXCEPT !.names = resolve_custom_tool_names, !.lost = Lost(AsksForNames),
                            !.pc = IF turn.mode \in Socket THEN "convert" ELSE "upstream"]
    /\ Read(AsksForNames)

\* responses_to_chat begins with its own names, and wraps what is replayed.
WrapReplayed ==
    LET names == resolve_custom_tool_names IN
    /\ turn.pc = "convert"
    /\ turn' = [turn EXCEPT
          !.pc = "tools", !.given = <<>>, !.lost = Lost(AsksForNames),
          !.history = IF turn.continues THEN history
                      ELSE [i \in DOMAIN turn.given |-> Replayed(turn.given[i], names)]]
    /\ Read(AsksForNames)

\* It ends with the tools, which the handler caps, and the request's tool_choice.
OfferTools ==
    LET tools == IF AsksForTools /\ Found THEN registry.tools ELSE chat_tools(turn.request) IN
    /\ turn.pc = "tools"
    /\ \E choice \in ToolChoices :
          turn' = [turn EXCEPT !.tools = enforce_tool_budget(tools),
                               !.choice = convert_tool_choice(choice),
                               !.lost = Lost(AsksForTools),
                               !.pc = CASE turn.mode = "warmup" -> "put_tools"
                                        [] turn.mode = "ws" -> "upstream"
                                        [] OTHER -> "names"]
    /\ Read(AsksForTools)

-----------------------------------------------------------------------------
(* The reply                                                               *)

\* The model calls a tool it is offered, or none. It may give a text where
\* { input: text } is asked for.
Arguments(tool) ==
    CASE tool.type = "custom" -> {"raw"}
      [] tool.type = "function" /\ tool.freeform -> {"wrapped", "raw"}
      [] OTHER -> {"object"}
Calls(tools) ==
    UNION {{[type |-> c.type, name |-> c.name, arguments |-> a] : a \in Arguments(c)} : c \in ToSet(tools)}

\* Background turns put no tools.
Reply ==
    /\ turn.pc = "upstream" /\ count < MaxTurns
    /\ \E call \in Calls(turn.tools) \cup {None} :
          turn' = [turn EXCEPT !.call = call, !.choice = None,
                               !.shown = IF call = None THEN None ELSE Shown(turn, call),
                               !.pc = IF turn.mode = "background" THEN "put" ELSE "put_tools"]
    /\ UNCHANGED <<count, client, kept, setting>>

Fail ==
    /\ turn.pc = "upstream" /\ count < MaxTurns
    /\ turn' = NoTurn
    /\ UNCHANGED <<count, client, kept, setting>>

\* Mutant: the tools as they were before the turn.
put_tools_Stale == [tools |-> offered, custom_names |-> turn.names, age |-> 0]

\* The new response's StoredTools: none when there is nothing to hold.
put_tools ==
    IF turn.tools = <<>> /\ turn.names = {} THEN None
    ELSE [tools |-> turn.tools, custom_names |-> turn.names, age |-> 0]

PutTools ==
    /\ turn.pc = "put_tools"
    /\ registry' = put_tools
    /\ turn' = [turn EXCEPT !.pc = "put"]
    /\ UNCHANGED <<count, client, history, offered, setting>>

\* From here the client may continue this response. What a background turn
\* called it is never told.
Put ==
    /\ turn.pc = "put"
    /\ history' = turn.history \o IF turn.call = None THEN <<>> ELSE <<Kept(turn, turn.call)>>
    /\ offered' = turn.tools
    /\ registry' = IF turn.mode = "background" THEN None ELSE registry
    /\ client' = [client EXCEPT
          !.last = TRUE, !.lost = turn.lost,
          !.calls = IF turn.shown = None \/ turn.mode = "background" THEN @
                    ELSE Append(@, [type |-> turn.shown.type, name |-> turn.shown.name,
                                    arguments |-> turn.shown.arguments, said |-> turn.call.arguments]),
          !.kinds = IF turn.mode = "background" THEN <<>> ELSE turn.kinds]
    /\ turn' = NoTurn
    /\ UNCHANGED <<count, setting>>

\* Time passes, up to the first age that is too old.
Tick ==
    /\ Fresh
    /\ registry' = [registry EXCEPT !.age = @ + 1]
    /\ UNCHANGED <<turn, count, client, history, offered, setting>>

\* The part of Store::sweep that is about tools.
sweep ==
    /\ registry # None /\ ~Fresh
    /\ registry' = None
    /\ UNCHANGED <<turn, count, client, history, offered, setting>>

\* The process dies and comes back: the registry is in memory only, histories
\* are in files.
Restart ==
    /\ registry' = None
    /\ turn' = NoTurn
    /\ UNCHANGED <<count, client, history, offered, setting>>

Next ==
    \/ \E mode \in Mode : Begin(mode)
    \/ ResolveNames \/ WrapReplayed \/ OfferTools
    \/ Reply \/ Fail \/ PutTools \/ Put
    \/ Tick \/ sweep \/ Restart

Spec == Init /\ [][Next]_vars

-----------------------------------------------------------------------------
(* Properties. A turn is lost that asked the registry in vain: its entry    *)
(* had expired, between two reads perhaps, had died with the process, or    *)
(* was never put. So is one that is answered with what a lost turn put.     *)

TypeOK ==
    /\ setting \in Settings /\ count \in 0..MaxTurns /\ client.last \in BOOLEAN
    /\ turn.pc \in {"names", "convert", "tools", "upstream", "put_tools", "put", "over"}
    /\ turn.mode \in Mode
    /\ registry # None => /\ registry.age \in 0..(TTL + 1)
                          /\ registry.tools # <<>> \/ registry.custom_names # {}
    /\ turn.choice \in {None} \cup {c \in ToolChoices : ToolChoice(c) \in {"String", "Mode", "Specific"}}

\* Codex cancels a call whose shape it did not declare (store.rs:26-28): what it
\* declared as custom comes back as custom_tool_call with the text itself, and
\* nothing else does, in whatever turn and by whatever mode it was declared.
\* (Of streamed raw custom calls, see CustomCallsAreNative.)
CallsComeBackAsDeclared ==
    LET call == turn.call IN
    call # None /\ ~turn.lost /\ ~(call.type = "custom" /\ turn.mode \in Streams) =>
        /\ turn.shown.name = call.name
        /\ IF turn.kinds[call.name] = "custom"
           THEN turn.shown.type = "custom_tool_call" /\ turn.shown.arguments = "raw"
           ELSE turn.shown.type = "function_call" /\ turn.shown.arguments = call.arguments

\* What of a request is for the client to execute, where the allowlist lets it pass.
Passes(t) == "function" \in setting.allowed \/ (t.type = "custom" /\ keep_raw_custom)
Executable(request) ==
    FlattenSeq([i \in DOMAIN request.tools |->
                   IF Passes(request.tools[i]) THEN Said(request.tools[i]) ELSE <<>>])
        \o Declared(request.additional)

\* The upstream is offered the leading tools the client can execute, in the
\* client's order and up to max-tools, and a turn that brings none is offered
\* exactly what the turn before was (responses.rs:126-128: the registry
\* "matches what was sent").
OfferedToolsCarryOver ==
    LET own == Executable(turn.request) IN
    turn.pc = "upstream" =>
        /\ own # <<>> =>
              /\ Len(turn.tools) = IF setting.max_tools \in 1..Len(own) THEN setting.max_tools ELSE Len(own)
              /\ \A i \in DOMAIN turn.tools :
                    /\ turn.tools[i].name = own[i].name
                    /\ turn.tools[i].freeform <=> own[i].kind = "custom"
        /\ own = <<>> /\ turn.continues /\ ~turn.lost => turn.tools = offered

\* Of every kept call that is for a tool still offered as a function with an
\* input: what the model wrote as { input: text } it finds so again.
FitsIfKeptBy(who) ==
    turn.pc = "upstream" /\ ~turn.lost =>
        \A h \in ToSet(turn.history), tool \in ToSet(turn.tools) :
            /\ h.by \in who /\ h.name = tool.name
            /\ tool.type = "function" /\ tool.freeform /\ h.said = "wrapped"
            => h.arguments = "wrapped"

\* That holds whether a stream kept the call or the client replays it, and
\* whatever turns came between.
KeptCallsFit == FitsIfKeptBy(Streams \cup {"client"})

-----------------------------------------------------------------------------
(* What the documents promise and the code does not do                     *)

\* request.rs:262-264: "so the replayed assistant call must use that JSON shape
\* (raw freeform is not valid JSON arguments)". Of calls in whole replies too.
ReplayedCallsAreJson == FitsIfKeptBy(Mode \cup {"client"})

\* request.rs:476-477: "A raw `custom` tool the upstream accepts unchanged
\* (`keep_raw_custom`) already emits `custom_tool_call` natively".
CustomCallsAreNative ==
    turn.call # None /\ turn.call.type = "custom" => turn.shown.type = "custom_tool_call"
=============================================================================
