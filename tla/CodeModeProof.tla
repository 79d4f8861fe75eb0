---------------------------- MODULE CodeModeProof ----------------------------
(***************************************************************************)
(* The tools of a conversation, for every declaration, allowlist and cap,  *)
(* and however many turns: what is offered carries over, what is kept of a *)
(* call fits, and a call comes back in the shape its tool was declared in. *)
(***************************************************************************)
EXTENDS CodeMode, SequenceLemmas

-----------------------------------------------------------------------------
(* What the theorems assume of clients and settings                        *)

Requests == Declarations \cup {Nothing}
DeclaredBy(request) == ToSet(Declared(request.tools \o request.additional))

\* No request declares a name as a function and as a custom tool.
Coherent ==
    \A request \in Declarations : \A c \in DeclaredBy(request), d \in DeclaredBy(request) :
        c.name = d.name => c.kind = d.kind

\* A name that is a top-level custom tool in one request is a custom tool in no
\* other place: not in a namespace, nor in additional_tools, nor apply_patch.
AlwaysFunctions(request) ==
    NamesOf(request.tools, FALSE) \cup NamesOf(request.additional, TRUE)
OnePlace ==
    \A request \in Declarations, other \in Declarations : \A t \in ToSet(request.tools) :
        t.type = "custom" => t.name \notin AlwaysFunctions(other)

\* No allowlist leaves functions out.
FunctionsPass == \A s \in Settings : "function" \in s.allowed

-----------------------------------------------------------------------------
(* The invariants                                                          *)

\* A name, or none. (The provers do not know that a literal is a STRING.)
Name == STRING \cup {"apply_patch", ""}
Kind == {"function", "custom"}
ChatTool == {c \in [type : Kind, name : Name, freeform : BOOLEAN] : c.type = "custom" => c.freeform}
Saying == [name : Name, kind : Kind]
KindMap == UNION {[S -> Kind] : S \in SUBSET Name}
Argument == {"raw", "wrapped", "object"}
Call == [type : Kind, name : Name, arguments : Argument]
ItemType == {"function_call", "custom_tool_call"}
Item == [type : ItemType, name : Name, arguments : Argument \cup {""}]
Given == [type : ItemType, name : Name, arguments : Argument \cup {""}, said : Argument]
Past == [name : Name, said : Argument, by : Mode \cup {"client"}, arguments : Argument \cup {""}]
Entry == [tools : Seq(ChatTool), custom_names : SUBSET Name, age : 0..(TTL + 1)]
Choice == {None} \cup {c \in ToolChoices : ToolChoice(c) \in {"String", "Mode", "Specific"}}

Turn == [pc : {"names", "convert", "tools", "upstream", "put_tools", "put", "over"},
         mode : Mode, continues : BOOLEAN, request : Requests, choice : Choice,
         given : Seq(Given), names : SUBSET Name, tools : Seq(ChatTool),
         history : Seq(Past), call : Call \cup {None}, shown : Item \cup {None},
         kinds : KindMap, lost : BOOLEAN]
Client == [last : BOOLEAN, lost : BOOLEAN, calls : Seq(Given), kinds : KindMap]

Typed ==
    /\ turn \in Turn /\ client \in Client /\ count \in 0..MaxTurns
    /\ turn.shown # None => turn.call # None
    /\ history \in Seq(Past) /\ offered \in Seq(ChatTool) /\ setting \in Settings
    /\ registry \in Entry \cup {None}
    /\ registry # None => registry.tools # <<>> \/ registry.custom_names # {}

\* A call is of an offered tool, and shown as the turn's names say.
Called ==
    turn.call # None =>
        /\ turn.pc \in {"put_tools", "put"}
        /\ turn.call \in Calls(turn.tools)
        /\ turn.shown = Shown(turn, turn.call)

\* Has the turn its tools? Its names?
HasTools == turn.pc \in {"upstream", "put_tools", "put"} \/ (turn.pc = "names" /\ turn.mode \notin Socket)
HasNames == turn.pc \in {"upstream", "put_tools", "put"} \/ (turn.pc \in {"convert", "tools"} /\ turn.mode \in Socket)

\* The registry's entry is that of the turn that puts, from PutTools on.
PutsEntry == turn.pc = "put" /\ turn.mode # "background"

InBudget(tools) == setting.max_tools = 0 \/ Len(tools) <= setting.max_tools

\* What the registry has is what was offered, and is what a turn takes.
ToolsInv ==
    /\ turn.pc = "put_tools" => turn.mode # "background"
    /\ registry # None => registry.tools = IF PutsEntry THEN turn.tools ELSE offered
    /\ InBudget(offered) /\ InBudget(turn.tools)
    /\ HasTools => IF AsksForTools THEN ~turn.lost => turn.tools = offered
                   ELSE turn.tools = enforce_tool_budget(chat_tools(turn.request))

\* The names by which a call can be shown as custom: the upstream has, or once
\* had, a function with an input for each.
Wrappable == UNION {custom_tool_names(request) : request \in Requests}

Replayable(c) ==
    c.said = "wrapped" => IF c.type = "custom_tool_call" THEN c.name \in Wrappable
                          ELSE c.arguments = "wrapped"
KeptFits(h) == h.by \in Streams \cup {"client"} /\ h.said = "wrapped" => h.arguments = "wrapped"

CallsInv ==
    /\ turn.names \subseteq Wrappable
    /\ registry # None => registry.custom_names \subseteq Wrappable
    /\ \A c \in ToSet(client.calls) \cup ToSet(turn.given) : Replayable(c)
    /\ \A h \in ToSet(history) \cup ToSet(turn.history) : KeptFits(h)
    /\ turn.given # <<>> =>
          /\ ~turn.continues
          /\ turn.kinds = Kinds(turn.request, <<>>)
          /\ \A c \in ToSet(turn.given) : c.type = "custom_tool_call" =>
                c.name \in DOMAIN turn.kinds /\ turn.kinds[c.name] = "custom"

\* These names are of custom tools; these tools have the kind they were declared
\* in; and the names have every function with an input among them.
NamesFit(names, kinds) == \A n \in names : n \in DOMAIN kinds /\ kinds[n] = "custom"
ToolsFit(tools, kinds) ==
    \A c \in ToSet(tools) : c.name \in DOMAIN kinds /\ (c.freeform <=> kinds[c.name] = "custom")
Named(tools, names) ==
    \A c \in ToSet(tools) : c.type = "function" /\ c.freeform => c.name \in names
Agree(tools, names, kinds) == NamesFit(names, kinds) /\ ToolsFit(tools, kinds) /\ Named(tools, names)

\* What was put agrees with what the client has declared.
EntryAgrees ==
    /\ registry # None /\ PutsEntry /\ ~turn.lost =>
          Agree(registry.tools, registry.custom_names, turn.kinds)
    /\ registry # None /\ ~PutsEntry /\ ~client.lost =>
          Agree(registry.tools, registry.custom_names, client.kinds)

\* A turn that continues declares nothing otherwise than before.
TurnIsRead ==
    \E before \in KindMap :
        /\ turn.kinds = Kinds(turn.request, before)
        /\ turn.continues => /\ before = client.kinds
                             /\ \A n \in DOMAIN before : turn.kinds[n] = before[n]

\* Its names and its tools are its own, or what the registry has for the turn before.
NamesAreRead ==
    HasNames /\ ~turn.lost =>
        IF AsksForNames
        THEN /\ ~client.lost /\ NamesFit(turn.names, client.kinds)
             /\ registry # None /\ ~PutsEntry => turn.names = registry.custom_names
        ELSE turn.names = custom_tool_names(turn.request)
ToolsAreRead ==
    HasTools /\ ~turn.lost /\ AsksForTools => ~client.lost /\ ToolsFit(turn.tools, client.kinds)

BothAgree == HasTools /\ HasNames /\ ~turn.lost => Agree(turn.tools, turn.names, turn.kinds)

ShapesInv ==
    /\ EntryAgrees /\ (turn.pc # "over" => TurnIsRead)
    /\ NamesAreRead /\ ToolsAreRead /\ BothAgree

-----------------------------------------------------------------------------
(* Two sequences of one length, related position by position               *)

Along(s, t, R) == Len(s) = Len(t) /\ \A k \in 1..Len(s) : <<s[k], t[k]>> \in R

LEMMA AlongConcat ==
    ASSUME NEW S, NEW T, NEW R, NEW a \in Seq(S), NEW b \in Seq(T), NEW x \in Seq(S), NEW y \in Seq(T),
           Along(a, b, R), Along(x, y, R)
    PROVE  Along(a \o x, b \o y, R)
<1>1. Len(a \o x) = Len(b \o y) /\ Len(a \o x) = Len(a) + Len(x)
  <2>1. Len(a \o x) = Len(a) + Len(x) /\ Len(b \o y) = Len(b) + Len(y)
    OBVIOUS
  <2>2. Len(a) = Len(b) /\ Len(x) = Len(y)
    BY DEF Along
  <2> QED BY <2>1, <2>2
<1>2. ASSUME NEW k \in 1..Len(a \o x) PROVE <<(a \o x)[k], (b \o y)[k]>> \in R
  <2>1. CASE k <= Len(a)
    <3>1. k \in 1..Len(a) /\ (a \o x)[k] = a[k] /\ (b \o y)[k] = b[k]
      BY <2>1, <1>1 DEF Along
    <3> QED BY <3>1 DEF Along
  <2>2. CASE ~(k <= Len(a))
    <3>1. /\ k - Len(a) \in 1..Len(x) /\ (a \o x)[k] = x[k - Len(a)]
          /\ (b \o y)[k] = y[k - Len(a)]
      BY <2>2, <1>1 DEF Along
    <3> QED BY <3>1 DEF Along
  <2> QED BY <2>1, <2>2
<1> QED BY <1>1, <1>2 DEF Along

\* Where the parts are related, so are the whole sequences.
LEMMA AlongFlatten ==
    ASSUME NEW S, NEW T, NEW R, NEW ss \in Seq(Seq(S)), NEW tt \in Seq(Seq(T)),
           Len(ss) = Len(tt), \A i \in 1..Len(ss) : Along(ss[i], tt[i], R)
    PROVE  Along(FlattenSeq(ss), FlattenSeq(tt), R)
<1> DEFINE G == {m \in Nat : m <= Len(ss) => Along(FlattenSeq(Upto(ss, m)), FlattenSeq(Upto(tt, m)), R)}
<1>1. 0 \in G
  <2>1. FlattenSeq(Upto(ss, 0)) = <<>> /\ FlattenSeq(Upto(tt, 0)) = <<>>
    BY UptoIs, FlattenEmpty
  <2>2. Along(<<>>, <<>>, R)
    BY DEF Along
  <2> QED BY <2>1, <2>2
<1>2. ASSUME NEW m \in Nat, m \in G PROVE m + 1 \in G
  <2> SUFFICES ASSUME m + 1 <= Len(ss)
               PROVE  Along(FlattenSeq(Upto(ss, m + 1)), FlattenSeq(Upto(tt, m + 1)), R)
    OBVIOUS
  <2>1. /\ FlattenSeq(Upto(ss, m + 1)) = FlattenSeq(Upto(ss, m)) \o ss[m + 1]
        /\ FlattenSeq(Upto(ss, m)) \in Seq(S) /\ ss[m + 1] \in Seq(S)
    BY FlattenUpto
  <2>2. /\ FlattenSeq(Upto(tt, m + 1)) = FlattenSeq(Upto(tt, m)) \o tt[m + 1]
        /\ FlattenSeq(Upto(tt, m)) \in Seq(T) /\ tt[m + 1] \in Seq(T)
    BY FlattenUpto
  <2>3. Along(FlattenSeq(Upto(ss, m)), FlattenSeq(Upto(tt, m)), R)
    BY <1>2
  <2>4. Along(ss[m + 1], tt[m + 1], R)
    OBVIOUS
  <2> DEFINE a == FlattenSeq(Upto(ss, m))
             b == FlattenSeq(Upto(tt, m))
  <2>5. Along(a \o ss[m + 1], b \o tt[m + 1], R)
    <3>1. a \in Seq(S) /\ b \in Seq(T) /\ Along(a, b, R)
      BY <2>1, <2>2, <2>3
    <3> HIDE DEF a, b
    <3> QED BY <3>1, <2>1, <2>2, <2>4, AlongConcat
  <2> QED BY <2>1, <2>2, <2>5
<1> HIDE DEF G
<1>3. G = Nat
  BY <1>1, <1>2, Inductive DEF G
<1>4. Len(ss) \in G /\ Upto(ss, Len(ss)) = ss /\ Upto(tt, Len(tt)) = tt
  BY <1>3, UptoIs
<1> QED BY <1>4 DEF G

-----------------------------------------------------------------------------
(* One definition                                                          *)

LEMMA MembersAre ==
    ASSUME NEW ns \in [type : {"namespace"}, name : STRING, tools : Seq(Member)]
    PROVE  /\ Members(ns) \in Seq(Member)
           /\ \A m : m \in ToSet(Members(ns)) <=>
                 /\ ns.name # "collaboration" /\ m \in ToSet(ns.tools)
                 /\ ~is_multi_agent_hosted_action(m.name)
<1> DEFINE ss == [i \in DOMAIN ns.tools |->
                    IF is_multi_agent_hosted_action(ns.tools[i].name) THEN <<>> ELSE <<ns.tools[i]>>]
<1>1. CASE ns.name = "collaboration"
  BY <1>1 DEF Members, ToSet
<1>2. CASE ns.name # "collaboration"
  <2>1. Members(ns) = FlattenSeq(ss)
    BY <1>2 DEF Members
  <2>2. ns.tools \in Seq(Member) /\ DOMAIN ns.tools = 1..Len(ns.tools)
    OBVIOUS
  <2>3. ss \in Seq(Seq(Member)) /\ Len(ss) = Len(ns.tools)
    <3>1. \A i \in 1..Len(ns.tools) : ss[i] \in Seq(Member)
      BY <2>2
    <3> QED BY <2>2, <3>1
  <2>4. \A m : m \in ToSet(FlattenSeq(ss)) <=> \E i \in 1..Len(ss) : m \in ToSet(ss[i])
    BY <2>3, FlattenRange
  <2>5. \A m : \A i \in 1..Len(ss) :
           m \in ToSet(ss[i]) <=> m = ns.tools[i] /\ ~is_multi_agent_hosted_action(ns.tools[i].name)
    <3> SUFFICES ASSUME NEW m, NEW i \in 1..Len(ss)
                 PROVE  m \in ToSet(ss[i]) <=>
                           m = ns.tools[i] /\ ~is_multi_agent_hosted_action(ns.tools[i].name)
      OBVIOUS
    <3>1. ss[i] = IF is_multi_agent_hosted_action(ns.tools[i].name) THEN <<>> ELSE <<ns.tools[i]>>
      BY <2>2, <2>3
    <3>2. ~(m \in ToSet(<<>>)) /\ (m \in ToSet(<<ns.tools[i]>>) <=> m = ns.tools[i])
      BY DEF ToSet
    <3> HIDE DEF ss
    <3> QED BY <3>1, <3>2
  <2>6. \A m : m \in ToSet(ns.tools) <=> \E i \in 1..Len(ss) : m = ns.tools[i]
    BY <2>2, <2>3 DEF ToSet
  <2> HIDE DEF ss
  <2>7. FlattenSeq(ss) \in Seq(Member)
    BY <2>3, FlattenType
  <2> QED BY <1>2, <2>1, <2>4, <2>5, <2>6, <2>7
<1> QED BY <1>1, <1>2

\* A tool, and the name and kind by which the client knows it; a function with
\* an input is for one of these names.
Offers(names) ==
    {p \in ChatTool \X Saying :
        /\ p[1].name = p[2].name /\ (p[1].freeform <=> p[2].kind = "custom")
        /\ p[1].type = "function" /\ p[1].freeform => p[1].name \in names}

Customs(said) == {d.name : d \in {x \in ToSet(said) : x.kind = "custom"}}

LEMMA RangeOfOne ==
    ASSUME NEW x
    PROVE  ToSet(<<x>>) = {x}
<1>1. \A y : y \in ToSet(<<x>>) <=> y = x
  BY DEF ToSet
<1> QED BY <1>1

\* What a definition becomes when it is one tool.
LEMMA OneTool ==
    ASSUME NEW c \in ChatTool, NEW d \in Saying, NEW names, <<c, d>> \in Offers(names),
           names = IF c.type = "function" /\ c.freeform THEN {c.name} ELSE {}
    PROVE  /\ <<c>> \in Seq(ChatTool) /\ <<d>> \in Seq(Saying) /\ Along(<<c>>, <<d>>, Offers(names))
           /\ ToSet(<<c>>) = {c}
           /\ names \subseteq Customs(<<d>>)
           /\ \A n \in Customs(<<d>>) : n \in names \/ (c.type = "custom" /\ n = c.name)
<1>1. ToSet(<<c>>) = {c} /\ ToSet(<<d>>) = {d}
  BY RangeOfOne
<1>2. Along(<<c>>, <<d>>, Offers(names))
  BY DEF Along
<1>3. Customs(<<d>>) = IF d.kind = "custom" THEN {d.name} ELSE {}
  BY <1>1 DEF Customs
<1>4. c.name = d.name /\ (c.freeform <=> d.kind = "custom") /\ c.type \in Kind
  BY DEF Offers, ChatTool
<1>5. names \subseteq Customs(<<d>>) /\ \A n \in Customs(<<d>>) : n \in names \/ (c.type = "custom" /\ n = c.name)
  BY <1>3, <1>4 DEF Kind
<1> QED BY <1>1, <1>2, <1>5

LEMMA DefinitionBecomes ==
    ASSUME NEW t \in Definition, NEW raw \in BOOLEAN
    PROVE  /\ tool_request_to_chat_tools(t, raw) \in Seq(ChatTool)
           /\ Said(t) \in Seq(Saying)
           /\ Along(tool_request_to_chat_tools(t, raw), Said(t), Offers(custom_function_names(t, ~raw)))
           /\ \A c \in ToSet(tool_request_to_chat_tools(t, raw)) :
                 c.type = IF t.type = "custom" /\ raw THEN "custom" ELSE "function"
           /\ custom_function_names(t, ~raw) \subseteq Customs(Said(t))
           /\ \A n \in Customs(Said(t)) :
                 n \in custom_function_names(t, ~raw) \/ (raw /\ t.type = "custom" /\ n = t.name)
<1> DEFINE tools == tool_request_to_chat_tools(t, raw)
           said == Said(t)
           names == custom_function_names(t, ~raw)
<1>2. ASSUME tools = <<>>, said = <<>>, names = {}
      PROVE  /\ tools \in Seq(ChatTool) /\ said \in Seq(Saying) /\ Along(tools, said, Offers(names))
             /\ ToSet(tools) = {} /\ Customs(said) = {}
  BY <1>2 DEF Along, ToSet, Customs
<1>3. CASE t.type \in {"function", "custom"}
  <2>1. t.name \in STRING
    BY <1>3 DEF Definition
  <2>2. CASE is_multi_agent_hosted_action(t.name)
    <3>1. tools = <<>> /\ said = <<>> /\ names = {}
      BY <1>3, <2>2 DEF tool_request_to_chat_tools, Said, custom_function_names
    <3> QED BY <3>1, <1>2
  <2>3. CASE ~is_multi_agent_hosted_action(t.name)
    <3> DEFINE c == IF t.type = "function" THEN function_tool(t.name)
                    ELSE IF raw THEN custom_tool(t.name) ELSE custom_as_function(t.name)
               d == [name |-> t.name, kind |-> t.type]
    <3>1. tools = <<c>> /\ said = <<d>>
      BY <1>3, <2>3 DEF tool_request_to_chat_tools, Said
    <3>2. names = IF t.type = "custom" /\ ~raw THEN {t.name} ELSE {}
      BY <1>3, <2>3 DEF custom_function_names
    <3>3. /\ c \in ChatTool /\ d \in Saying /\ c.name = d.name /\ (c.freeform <=> d.kind = "custom")
          /\ c.type = "function" /\ c.freeform <=> t.type = "custom" /\ ~raw
          /\ c.type = IF t.type = "custom" /\ raw THEN "custom" ELSE "function"
          /\ c.name = t.name /\ d.name = t.name
      BY <1>3, <2>1 DEF ChatTool, Saying, Kind, Name, function_tool, custom_as_function, custom_tool
    <3> HIDE DEF tools, said, names, c, d
    <3>4. <<c, d>> \in Offers(names)
      BY <3>2, <3>3 DEF Offers
    <3>5. names = IF c.type = "function" /\ c.freeform THEN {c.name} ELSE {}
      BY <3>2, <3>3
    <3>6. /\ <<c>> \in Seq(ChatTool) /\ <<d>> \in Seq(Saying) /\ Along(<<c>>, <<d>>, Offers(names))
          /\ ToSet(<<c>>) = {c} /\ names \subseteq Customs(<<d>>)
          /\ \A n \in Customs(<<d>>) : n \in names \/ (c.type = "custom" /\ n = c.name)
      BY <3>3, <3>4, <3>5, OneTool
    <3>7. c.type = "custom" => raw /\ t.type = "custom"
      BY <3>3
    <3> QED BY <3>1, <3>3, <3>6, <3>7 DEF tools, said, names
  <2> QED BY <2>2, <2>3
<1>4. CASE t.type = "apply_patch"
  <2> DEFINE c == custom_as_function("apply_patch")
             d == [name |-> "apply_patch", kind |-> "custom"]
  <2>1. tools = <<c>> /\ said = <<d>> /\ names = {"apply_patch"}
    BY <1>4 DEF tool_request_to_chat_tools, Said, custom_function_names
  <2>2. /\ c \in ChatTool /\ d \in Saying /\ c.type = "function" /\ c.freeform
        /\ c.name = "apply_patch" /\ d.name = "apply_patch" /\ d.kind = "custom"
    BY DEF ChatTool, Saying, Kind, Name, custom_as_function
  <2> HIDE DEF tools, said, names, c, d
  <2>3. <<c, d>> \in Offers(names) /\ names = IF c.type = "function" /\ c.freeform THEN {c.name} ELSE {}
    BY <2>1, <2>2 DEF Offers
  <2>4. /\ <<c>> \in Seq(ChatTool) /\ <<d>> \in Seq(Saying) /\ Along(<<c>>, <<d>>, Offers(names))
        /\ ToSet(<<c>>) = {c} /\ names \subseteq Customs(<<d>>)
        /\ \A n \in Customs(<<d>>) : n \in names \/ (c.type = "custom" /\ n = c.name)
    BY <2>2, <2>3, OneTool
  <2> QED BY <1>4, <2>1, <2>2, <2>4 DEF tools, said, names
<1>5. CASE t.type = "namespace"
  <2> DEFINE ms == Members(t)
             tool(m) == IF m.type = "custom" THEN custom_as_function(m.name) ELSE function_tool(m.name)
             saying(m) == [name |-> m.name, kind |-> m.type]
  <2>1. t \in [type : {"namespace"}, name : STRING, tools : Seq(Member)]
    BY <1>5 DEF Definition
  <2>2. /\ ms \in Seq(Member)
        /\ \A m : m \in ToSet(ms) <=>
              /\ t.name # "collaboration" /\ m \in ToSet(t.tools)
              /\ ~is_multi_agent_hosted_action(m.name)
    BY <2>1, MembersAre
  <2>3. tools = [i \in DOMAIN ms |-> tool(ms[i])] /\ said = [i \in DOMAIN ms |-> saying(ms[i])]
    BY <1>5 DEF tool_request_to_chat_tools, Said
  <2>4. names = {m.name : m \in {x \in ToSet(ms) : x.type = "custom"}}
    BY <1>5 DEF custom_function_names
  <2>5. \A m \in Member : /\ tool(m) \in ChatTool /\ saying(m) \in Saying
                          /\ tool(m).name = m.name /\ saying(m).name = m.name
                          /\ saying(m).kind = m.type /\ tool(m).type = "function"
                          /\ tool(m).freeform <=> m.type = "custom"
    BY DEF Member, ChatTool, Saying, Kind, Name, function_tool, custom_as_function
  <2> HIDE DEF tools, said, names, ms, tool, saying
  <2>6. DOMAIN ms = 1..Len(ms) /\ Len(ms) \in Nat /\ \A i \in 1..Len(ms) : ms[i] \in Member
    BY <2>2
  <2>7. tools \in Seq(ChatTool) /\ said \in Seq(Saying) /\ Len(tools) = Len(ms) /\ Len(said) = Len(ms)
        /\ \A i \in 1..Len(ms) : tools[i] = tool(ms[i]) /\ said[i] = saying(ms[i])
    BY <2>3, <2>5, <2>6
  <2>8. \A i \in 1..Len(ms) : ms[i].type = "custom" => ms[i].name \in names
    BY <2>4, <2>6 DEF ToSet
  <2>9. Along(tools, said, Offers(names))
    <3>1. ASSUME NEW i \in 1..Len(ms) PROVE <<tools[i], said[i]>> \in Offers(names)
      <4>1. /\ tools[i] = tool(ms[i]) /\ said[i] = saying(ms[i]) /\ ms[i] \in Member
            /\ ms[i].type = "custom" => ms[i].name \in names
        BY <2>6, <2>7, <2>8
      <4> QED BY <4>1, <2>5 DEF Offers
    <3> QED BY <2>7, <3>1 DEF Along
  <2>10. \A c \in ToSet(tools) : c.type = "function"
    BY <2>5, <2>6, <2>7 DEF ToSet
  <2>11. Customs(said) = names
    <3>1. \A n : n \in names <=> \E i \in 1..Len(ms) : n = ms[i].name /\ ms[i].type = "custom"
      BY <2>4, <2>6 DEF ToSet
    <3>2. ToSet(said) = {said[i] : i \in 1..Len(ms)}
      BY <2>7 DEF ToSet
    <3>3. \A i \in 1..Len(ms) : said[i].name = ms[i].name /\ said[i].kind = ms[i].type
      BY <2>5, <2>6, <2>7
    <3>4. \A n : n \in Customs(said) <=> \E i \in 1..Len(ms) : n = said[i].name /\ said[i].kind = "custom"
      BY <3>2 DEF Customs
    <3> HIDE DEF said, names
    <3>5. \A n : n \in Customs(said) <=> n \in names
      BY <3>1, <3>3, <3>4
    <3> QED BY <3>5, SetExtensionality
  <2> QED BY <1>5, <2>7, <2>9, <2>10, <2>11 DEF tools, said, names
<1>6. CASE t.type \notin {"function", "custom", "apply_patch", "namespace"}
  <2>1. tools = <<>> /\ said = <<>> /\ names = {}
    BY <1>6 DEF tool_request_to_chat_tools, Said, custom_function_names
  <2> QED BY <2>1, <1>2
<1> QED BY <1>3, <1>4, <1>5, <1>6

-----------------------------------------------------------------------------
(* A request                                                               *)

LEMMA Widens ==
    ASSUME NEW a, NEW b, NEW names, NEW more, Along(a, b, Offers(names)), names \subseteq more
    PROVE  Along(a, b, Offers(more))
<1>1. Offers(names) \subseteq Offers(more)
  BY DEF Offers
<1> QED BY <1>1 DEF Along

\* The allowlist drops what the client does not take for executable.
LEMMA TopLevelBecomes ==
    ASSUME NEW t \in Definition
    PROVE  LET tools == Accepted(tool_request_to_chat_tools(t, keep_raw_custom))
               said  == IF Passes(t) THEN Said(t) ELSE <<>>
           IN  /\ tools \in Seq(ChatTool) /\ said \in Seq(Saying)
               /\ Along(tools, said, Offers(custom_function_names(t, ~keep_raw_custom)))
<1> DEFINE all == tool_request_to_chat_tools(t, keep_raw_custom)
           names == custom_function_names(t, ~keep_raw_custom)
<1>1. /\ all \in Seq(ChatTool) /\ Said(t) \in Seq(Saying) /\ Along(all, Said(t), Offers(names))
      /\ \A c \in ToSet(all) : c.type = IF t.type = "custom" /\ keep_raw_custom THEN "custom" ELSE "function"
  <2>1. keep_raw_custom \in BOOLEAN
    BY DEF keep_raw_custom
  <2> QED BY <2>1, DefinitionBecomes
<1> HIDE DEF all, names
<1>2. CASE Passes(t)
  <2>1. \A c \in ToSet(all) : c.type = "function" => "function" \in setting.allowed
    BY <1>1, <1>2 DEF Passes
  <2>2. Accepted(all) = all
    BY <2>1 DEF Accepted
  <2> QED BY <1>1, <1>2, <2>2 DEF all, names
<1>3. CASE ~Passes(t)
  <2>1. "function" \notin setting.allowed /\ \A c \in ToSet(all) : c.type = "function"
    BY <1>1, <1>3 DEF Passes
  <2>2. ASSUME all = <<>> PROVE Accepted(all) = <<>>
    BY <2>2 DEF Accepted
  <2>3. ASSUME all # <<>> PROVE Accepted(all) = <<>>
    <3>1. all[1] \in ToSet(all)
      BY <1>1, <2>3 DEF ToSet
    <3> QED BY <2>1, <3>1 DEF Accepted
  <2>4. Accepted(all) = <<>>
    BY <2>2, <2>3
  <2>5. Along(<<>>, <<>>, Offers(names))
    BY DEF Along
  <2> QED BY <1>3, <2>4, <2>5 DEF all, names
<1> QED BY <1>2, <1>3

LEMMA DeclaredIs ==
    ASSUME NEW definitions \in Seq(Definition)
    PROVE  /\ Declared(definitions) \in Seq(Saying)
           /\ \A x : x \in ToSet(Declared(definitions)) <=>
                        \E t \in ToSet(definitions) : x \in ToSet(Said(t))
<1> DEFINE ss == [i \in DOMAIN definitions |-> Said(definitions[i])]
<1>1. \A i \in 1..Len(definitions) : Said(definitions[i]) \in Seq(Saying)
  <2> SUFFICES ASSUME NEW i \in 1..Len(definitions) PROVE Said(definitions[i]) \in Seq(Saying)
    OBVIOUS
  <2>1. definitions[i] \in Definition /\ TRUE \in BOOLEAN
    OBVIOUS
  <2> QED BY <2>1, DefinitionBecomes
<1>2. ss \in Seq(Seq(Saying)) /\ Len(ss) = Len(definitions)
      /\ \A i \in 1..Len(ss) : ss[i] = Said(definitions[i])
  BY <1>1
<1>3. Declared(definitions) = FlattenSeq(ss)
  BY DEF Declared
<1> HIDE DEF ss
<1>4. FlattenSeq(ss) \in Seq(Saying)
  BY <1>2, FlattenType
<1>5. \A x : x \in ToSet(FlattenSeq(ss)) <=> \E i \in 1..Len(ss) : x \in ToSet(ss[i])
  BY <1>2, FlattenRange
<1>6. ToSet(definitions) = {definitions[i] : i \in 1..Len(ss)}
  <2>1. DOMAIN definitions = 1..Len(ss)
    BY <1>2
  <2> QED BY <2>1 DEF ToSet
<1> QED BY <1>2, <1>3, <1>4, <1>5, <1>6

LEMMA RequestType ==
    ASSUME NEW request \in Requests
    PROVE  /\ request.tools \in Seq(Definition) /\ request.additional \in Seq(Definition)
           /\ \A t \in ToSet(request.tools) \cup ToSet(request.additional) : t \in Definition
           /\ ToSet(request.tools \o request.additional) = ToSet(request.tools) \cup ToSet(request.additional)
<1>1. request.tools \in Seq(Definition) /\ request.additional \in Seq(Definition)
  <2>1. CASE request \in Declarations
    <3>1. request \in [tools : Seq(Definition), additional : Seq(Definition)]
      BY <2>1, CodeModeAssumption DEF CodeModeAssumption
    <3> QED BY <3>1
  <2>2. CASE request = Nothing
    BY <2>2 DEF Nothing
  <2> QED BY <2>1, <2>2 DEF Requests
<1>2. \A t \in ToSet(request.tools) \cup ToSet(request.additional) : t \in Definition
  BY <1>1 DEF ToSet
<1>3. \A t : t \in ToSet(request.tools \o request.additional) <=>
               t \in ToSet(request.tools) \/ t \in ToSet(request.additional)
  BY <1>1, RangeOfConcat
<1> QED BY <1>1, <1>2, <1>3

LEMMA DeclaredByIs ==
    ASSUME NEW request \in Requests
    PROVE  /\ Declared(request.tools \o request.additional) \in Seq(Saying)
           /\ \A x : x \in DeclaredBy(request) <=>
                        \E t \in ToSet(request.tools) \cup ToSet(request.additional) : x \in ToSet(Said(t))
<1>1. request.tools \o request.additional \in Seq(Definition)
  BY RequestType
<1> QED BY <1>1, RequestType, DeclaredIs DEF DeclaredBy

LEMMA NamesOfAre ==
    ASSUME NEW tools, NEW include_custom
    PROVE  \A n : n \in NamesOf(tools, include_custom) <=>
                     \E t \in ToSet(tools) : n \in custom_function_names(t, include_custom)
<1> DEFINE names(t) == custom_function_names(t, include_custom)
<1>1. NamesOf(tools, include_custom) = UNION {names(t) : t \in ToSet(tools)}
  BY Zenon DEF NamesOf
<1> HIDE DEF names
<1>2. \A n : n \in UNION {names(t) : t \in ToSet(tools)} <=> \E t \in ToSet(tools) : n \in names(t)
  OBVIOUS
<1>3. \A n : n \in NamesOf(tools, include_custom) <=> \E t \in ToSet(tools) : n \in names(t)
  BY <1>1, <1>2, Zenon
<1> QED BY <1>3 DEF names

LEMMA CustomNamesAre ==
    ASSUME NEW request
    PROVE  \A n : n \in custom_tool_names(request) <=>
              \/ \E t \in ToSet(request.tools) : n \in custom_function_names(t, ~keep_raw_custom)
              \/ \E t \in ToSet(request.additional) : n \in custom_function_names(t, TRUE)
<1>1. \A n : n \in custom_tool_names(request) <=>
              n \in NamesOf(request.tools, ~keep_raw_custom) \/ n \in NamesOf(request.additional, TRUE)
  BY Zenon DEF custom_tool_names
<1>2. /\ \A n : n \in NamesOf(request.tools, ~keep_raw_custom) <=>
                \E t \in ToSet(request.tools) : n \in custom_function_names(t, ~keep_raw_custom)
      /\ \A n : n \in NamesOf(request.additional, TRUE) <=>
                \E t \in ToSet(request.additional) : n \in custom_function_names(t, TRUE)
  BY NamesOfAre, Zenon
<1> QED BY <1>1, <1>2, Zenon

\* What is offered of a request is what the client can execute of it, in its
\* order; and a function with an input is for one of the custom tool names.
LEMMA RequestOffers ==
    ASSUME NEW request \in Requests
    PROVE  /\ chat_tools(request) \in Seq(ChatTool) /\ Executable(request) \in Seq(Saying)
           /\ Along(chat_tools(request), Executable(request), Offers(custom_tool_names(request)))
<1> DEFINE names == custom_tool_names(request)
           tools(i) == Accepted(tool_request_to_chat_tools(request.tools[i], keep_raw_custom))
           said(i) == IF Passes(request.tools[i]) THEN Said(request.tools[i]) ELSE <<>>
           a == [i \in DOMAIN request.tools |-> tools(i)]
           b == [i \in DOMAIN request.tools |-> said(i)]
           more(i) == tool_request_to_chat_tools(request.additional[i], FALSE)
           saidmore(i) == Said(request.additional[i])
           c == [i \in DOMAIN request.additional |-> more(i)]
           d == [i \in DOMAIN request.additional |-> saidmore(i)]
<1>1. /\ request.tools \in Seq(Definition) /\ request.additional \in Seq(Definition)
      /\ DOMAIN request.tools = 1..Len(request.tools)
      /\ DOMAIN request.additional = 1..Len(request.additional)
      /\ \A i \in 1..Len(request.tools) : request.tools[i] \in Definition /\ request.tools[i] \in ToSet(request.tools)
      /\ \A i \in 1..Len(request.additional) :
            request.additional[i] \in Definition /\ request.additional[i] \in ToSet(request.additional)
  <2>1. request.tools \in Seq(Definition) /\ request.additional \in Seq(Definition)
    BY RequestType
  <2> QED BY <2>1 DEF ToSet
<1>2. ASSUME NEW i \in 1..Len(request.tools)
      PROVE  /\ tools(i) \in Seq(ChatTool) /\ said(i) \in Seq(Saying)
             /\ Along(tools(i), said(i), Offers(names))
  <2> DEFINE t == request.tools[i]
             own == custom_function_names(t, ~keep_raw_custom)
  <2>1. t \in Definition /\ t \in ToSet(request.tools)
    BY <1>1
  <2>2. own \subseteq names
    BY <2>1, CustomNamesAre
  <2>3. /\ tools(i) \in Seq(ChatTool) /\ said(i) \in Seq(Saying)
        /\ Along(tools(i), said(i), Offers(own))
    BY <2>1, TopLevelBecomes
  <2> HIDE DEF tools, said, own, names
  <2> QED BY <2>2, <2>3, Widens
<1>3. ASSUME NEW i \in 1..Len(request.additional)
      PROVE  /\ more(i) \in Seq(ChatTool) /\ saidmore(i) \in Seq(Saying)
             /\ Along(more(i), saidmore(i), Offers(names))
  <2> DEFINE t == request.additional[i]
             own == custom_function_names(t, ~FALSE)
  <2>1. t \in Definition /\ t \in ToSet(request.additional) /\ FALSE \in BOOLEAN
    BY <1>1
  <2>2. custom_function_names(t, TRUE) \subseteq names
    BY <2>1, CustomNamesAre
  <2>3. own \subseteq names
    <3>1. ~FALSE = TRUE
      OBVIOUS
    <3> QED BY <2>2, <3>1, Zenon
  <2>4. /\ tool_request_to_chat_tools(t, FALSE) \in Seq(ChatTool) /\ Said(t) \in Seq(Saying)
        /\ Along(tool_request_to_chat_tools(t, FALSE), Said(t), Offers(own))
    BY <2>1, DefinitionBecomes
  <2> HIDE DEF own, names, t
  <2> QED BY <2>3, <2>4, Widens DEF t
<1>4. /\ a \in Seq(Seq(ChatTool)) /\ b \in Seq(Seq(Saying)) /\ Len(a) = Len(b)
      /\ \A i \in 1..Len(a) : Along(a[i], b[i], Offers(names))
  <2> HIDE DEF tools, said, names
  <2>1. \A i \in 1..Len(request.tools) : a[i] = tools(i) /\ b[i] = said(i)
    BY <1>1
  <2>2. a \in Seq(Seq(ChatTool)) /\ b \in Seq(Seq(Saying))
        /\ Len(a) = Len(request.tools) /\ Len(b) = Len(request.tools)
    BY <1>1, <1>2
  <2> HIDE DEF a, b
  <2> QED BY <1>2, <2>1, <2>2
<1>5. /\ c \in Seq(Seq(ChatTool)) /\ d \in Seq(Seq(Saying)) /\ Len(c) = Len(d)
      /\ \A i \in 1..Len(c) : Along(c[i], d[i], Offers(names))
  <2> HIDE DEF more, saidmore, names
  <2>1. \A i \in 1..Len(request.additional) : c[i] = more(i) /\ d[i] = saidmore(i)
    BY <1>1
  <2>2. c \in Seq(Seq(ChatTool)) /\ d \in Seq(Seq(Saying))
        /\ Len(c) = Len(request.additional) /\ Len(d) = Len(request.additional)
    BY <1>1, <1>3
  <2> HIDE DEF c, d
  <2> QED BY <1>3, <2>1, <2>2
<1>6. /\ chat_tools(request) = FlattenSeq(a) \o FlattenSeq(c)
      /\ Executable(request) = FlattenSeq(b) \o FlattenSeq(d)
  BY DEF chat_tools, Flattened, Executable, Declared
<1> HIDE DEF a, b, c, d, names
<1>7. /\ FlattenSeq(a) \in Seq(ChatTool) /\ FlattenSeq(b) \in Seq(Saying)
      /\ FlattenSeq(c) \in Seq(ChatTool) /\ FlattenSeq(d) \in Seq(Saying)
  BY <1>4, <1>5, FlattenType
<1>8. Along(FlattenSeq(a), FlattenSeq(b), Offers(names)) /\ Along(FlattenSeq(c), FlattenSeq(d), Offers(names))
  BY <1>4, <1>5, AlongFlatten
<1>9. Along(FlattenSeq(a) \o FlattenSeq(c), FlattenSeq(b) \o FlattenSeq(d), Offers(names))
  BY <1>7, <1>8, AlongConcat
<1>10. /\ FlattenSeq(a) \o FlattenSeq(c) \in Seq(ChatTool)
       /\ FlattenSeq(b) \o FlattenSeq(d) \in Seq(Saying)
  BY <1>7
<1> QED BY <1>6, <1>9, <1>10 DEF names

\* What is executable was declared, and all that was, if functions pass.
LEMMA ExecutableIs ==
    ASSUME NEW request \in Requests
    PROVE  /\ ToSet(Executable(request)) \subseteq DeclaredBy(request)
           /\ "function" \in setting.allowed => ToSet(Executable(request)) = DeclaredBy(request)
<1> DEFINE said(i) == IF Passes(request.tools[i]) THEN Said(request.tools[i]) ELSE <<>>
           b == [i \in DOMAIN request.tools |-> said(i)]
           rest == Declared(request.additional)
<1>1. request.tools \in Seq(Definition) /\ request.additional \in Seq(Definition)
  BY RequestType
<1>2. rest \in Seq(Saying) /\ \A x : x \in ToSet(rest) <=> \E t \in ToSet(request.additional) : x \in ToSet(Said(t))
  BY <1>1, DeclaredIs
<1>3. \A i \in 1..Len(request.tools) : said(i) \in Seq(Saying)
  <2> SUFFICES ASSUME NEW i \in 1..Len(request.tools) PROVE said(i) \in Seq(Saying)
    OBVIOUS
  <2>1. request.tools[i] \in Definition
    BY <1>1
  <2> QED BY <2>1, TopLevelBecomes
<1>4. b \in Seq(Seq(Saying)) /\ Len(b) = Len(request.tools) /\ \A i \in 1..Len(b) : b[i] = said(i)
  <2> HIDE DEF said
  <2>1. b \in Seq(Seq(Saying)) /\ Len(b) = Len(request.tools)
    BY <1>1, <1>3
  <2>2. \A i \in 1..Len(request.tools) : b[i] = said(i)
    BY <1>1
  <2> QED BY <2>1, <2>2
<1>5. Executable(request) = FlattenSeq(b) \o rest
  BY DEF Executable
<1> HIDE DEF b, rest
<1>6. \A x : x \in ToSet(FlattenSeq(b)) <=> \E i \in 1..Len(b) : x \in ToSet(b[i])
  BY <1>4, FlattenRange
<1>7. FlattenSeq(b) \in Seq(Saying)
  BY <1>4, FlattenType
<1>8. \A x : x \in ToSet(FlattenSeq(b) \o rest) <=> x \in ToSet(FlattenSeq(b)) \/ x \in ToSet(rest)
  BY <1>2, <1>7, RangeOfConcat
<1>9. ToSet(request.tools) = {request.tools[i] : i \in 1..Len(b)}
  <2>1. DOMAIN request.tools = 1..Len(b)
    BY <1>1, <1>4
  <2> QED BY <2>1 DEF ToSet
<1>10. \A x, i : i \in 1..Len(b) /\ x \in ToSet(b[i]) => x \in ToSet(Said(request.tools[i]))
  <2>1. ToSet(<<>>) = {}
    BY DEF ToSet
  <2> QED BY <2>1, <1>4
<1>11. "function" \in setting.allowed => \A i \in 1..Len(b) : b[i] = Said(request.tools[i])
  BY <1>4 DEF Passes
<1>12. \A x : x \in DeclaredBy(request) <=>
                 \E t \in ToSet(request.tools) \cup ToSet(request.additional) : x \in ToSet(Said(t))
  BY DeclaredByIs
<1>13. ASSUME NEW x, x \in ToSet(Executable(request)) PROVE x \in DeclaredBy(request)
  <2>1. CASE x \in ToSet(rest)
    BY <2>1, <1>2, <1>12
  <2>2. CASE x \in ToSet(FlattenSeq(b))
    <3>1. PICK i \in 1..Len(b) : x \in ToSet(b[i])
      BY <2>2, <1>6
    <3>2. x \in ToSet(Said(request.tools[i])) /\ request.tools[i] \in ToSet(request.tools)
      BY <3>1, <1>9, <1>10
    <3> QED BY <3>2, <1>12
  <2> QED BY <1>5, <1>8, <1>13, <2>1, <2>2
<1>14. ASSUME "function" \in setting.allowed, NEW x, x \in DeclaredBy(request)
       PROVE  x \in ToSet(Executable(request))
  <2>1. PICK t \in ToSet(request.tools) \cup ToSet(request.additional) : x \in ToSet(Said(t))
    BY <1>14, <1>12
  <2>2. CASE t \in ToSet(request.additional)
    BY <2>1, <2>2, <1>2, <1>5, <1>8
  <2>3. CASE t \in ToSet(request.tools)
    <3>1. PICK i \in 1..Len(b) : t = request.tools[i]
      BY <2>3, <1>9
    <3>2. x \in ToSet(b[i])
      BY <2>1, <3>1, <1>11, <1>14
    <3> QED BY <3>2, <1>5, <1>6, <1>8
  <2> QED BY <2>1, <2>2, <2>3
<1> QED BY <1>13, <1>14

\* The custom tool names are of tools declared custom; one that is missing is of
\* a top-level custom tool.
LEMMA NamesAre ==
    ASSUME NEW request \in Requests
    PROVE  /\ \A n \in custom_tool_names(request) : [name |-> n, kind |-> "custom"] \in DeclaredBy(request)
           /\ \A d \in DeclaredBy(request) : d.kind = "custom" =>
                 \/ d.name \in custom_tool_names(request)
                 \/ keep_raw_custom /\ \E t \in ToSet(request.tools) : t.type = "custom" /\ d.name = t.name
<1>1. \A t \in ToSet(request.tools) \cup ToSet(request.additional) : t \in Definition
  BY RequestType
<1>2. \A x : x \in DeclaredBy(request) <=>
                 \E t \in ToSet(request.tools) \cup ToSet(request.additional) : x \in ToSet(Said(t))
  BY DeclaredByIs
<1>3. ASSUME NEW t \in Definition, NEW keep \in BOOLEAN
      PROVE  /\ \A n \in custom_function_names(t, ~keep) : [name |-> n, kind |-> "custom"] \in ToSet(Said(t))
             /\ \A d \in ToSet(Said(t)) : d.kind = "custom" =>
                   d.name \in custom_function_names(t, ~keep) \/ (keep /\ t.type = "custom" /\ d.name = t.name)
  <2>1. /\ Said(t) \in Seq(Saying) /\ custom_function_names(t, ~keep) \subseteq Customs(Said(t))
        /\ \A n \in Customs(Said(t)) :
                 n \in custom_function_names(t, ~keep) \/ (keep /\ t.type = "custom" /\ n = t.name)
    BY DefinitionBecomes
  <2>2. \A d \in ToSet(Said(t)) : d \in Saying
    BY <2>1 DEF ToSet
  <2>3. \A n \in Customs(Said(t)) : [name |-> n, kind |-> "custom"] \in ToSet(Said(t))
    <3> SUFFICES ASSUME NEW n \in Customs(Said(t)) PROVE [name |-> n, kind |-> "custom"] \in ToSet(Said(t))
      OBVIOUS
    <3>1. PICK d \in ToSet(Said(t)) : d.kind = "custom" /\ d.name = n
      BY DEF Customs
    <3>2. d = [name |-> n, kind |-> "custom"]
      BY <2>2, <3>1 DEF Saying
    <3> QED BY <3>2
  <2>4. \A d \in ToSet(Said(t)) : d.kind = "custom" => d.name \in Customs(Said(t))
    BY DEF Customs
  <2> QED BY <2>1, <2>3, <2>4
<1>4. keep_raw_custom \in BOOLEAN /\ FALSE \in BOOLEAN /\ (~FALSE) = TRUE
  BY DEF keep_raw_custom
<1>5. ASSUME NEW t \in ToSet(request.tools)
      PROVE  /\ custom_function_names(t, ~keep_raw_custom) \subseteq custom_tool_names(request)
             /\ \A n \in custom_function_names(t, ~keep_raw_custom) :
                   [name |-> n, kind |-> "custom"] \in DeclaredBy(request)
             /\ \A d \in ToSet(Said(t)) : d.kind = "custom" =>
                 \/ d.name \in custom_tool_names(request)
                 \/ keep_raw_custom /\ t.type = "custom" /\ d.name = t.name
  <2>1. custom_function_names(t, ~keep_raw_custom) \subseteq custom_tool_names(request)
    BY CustomNamesAre
  <2>2. t \in Definition
    BY <1>1
  <2> QED BY <2>1, <2>2, <1>2, <1>3, <1>4
<1>6. ASSUME NEW t \in ToSet(request.additional)
      PROVE  /\ custom_function_names(t, TRUE) \subseteq custom_tool_names(request)
             /\ \A n \in custom_function_names(t, TRUE) :
                   [name |-> n, kind |-> "custom"] \in DeclaredBy(request)
             /\ \A d \in ToSet(Said(t)) : d.kind = "custom" => d.name \in custom_tool_names(request)
  <2>1. custom_function_names(t, TRUE) \subseteq custom_tool_names(request)
    BY CustomNamesAre
  <2>2. t \in Definition
    BY <1>1
  <2>3. /\ \A n \in custom_function_names(t, ~FALSE) : [name |-> n, kind |-> "custom"] \in ToSet(Said(t))
        /\ \A d \in ToSet(Said(t)) : d.kind = "custom" => d.name \in custom_function_names(t, ~FALSE)
    BY <2>2, <1>3, <1>4
  <2>4. custom_function_names(t, ~FALSE) = custom_function_names(t, TRUE)
    BY <1>4, Zenon
  <2> QED BY <2>1, <2>3, <2>4, <1>2
<1>7. ASSUME NEW n \in custom_tool_names(request)
      PROVE  [name |-> n, kind |-> "custom"] \in DeclaredBy(request)
  <2>1. CASE \E t \in ToSet(request.tools) : n \in custom_function_names(t, ~keep_raw_custom)
    BY <2>1, <1>5
  <2>2. CASE \E t \in ToSet(request.additional) : n \in custom_function_names(t, TRUE)
    BY <2>2, <1>6
  <2>3. \/ \E t \in ToSet(request.tools) : n \in custom_function_names(t, ~keep_raw_custom)
        \/ \E t \in ToSet(request.additional) : n \in custom_function_names(t, TRUE)
    BY <1>7, CustomNamesAre
  <2> QED BY <2>1, <2>2, <2>3
<1>8. ASSUME NEW d \in DeclaredBy(request), d.kind = "custom"
      PROVE  \/ d.name \in custom_tool_names(request)
             \/ keep_raw_custom /\ \E t \in ToSet(request.tools) : t.type = "custom" /\ d.name = t.name
  <2>1. PICK t \in ToSet(request.tools) \cup ToSet(request.additional) : d \in ToSet(Said(t))
    BY <1>2
  <2>2. CASE t \in ToSet(request.tools)
    BY <2>1, <2>2, <1>5, <1>8
  <2>3. CASE t \in ToSet(request.additional)
    BY <2>1, <2>3, <1>6, <1>8
  <2> QED BY <2>1, <2>2, <2>3
<1> QED BY <1>7, <1>8

-----------------------------------------------------------------------------
(* What the client takes a name for                                        *)

LEMMA NoKinds == <<>> \in KindMap
<1>1. <<>> \in [{} -> Kind]
  OBVIOUS
<1>2. {} \in SUBSET Name
  OBVIOUS
<1> QED BY <1>1, <1>2 DEF KindMap

LEMMA KindMapIs ==
    ASSUME NEW kinds
    PROVE  kinds \in KindMap <=>
              /\ kinds = [n \in DOMAIN kinds |-> kinds[n]]
              /\ DOMAIN kinds \subseteq Name /\ \A n \in DOMAIN kinds : kinds[n] \in Kind
<1>1. ASSUME kinds \in KindMap
      PROVE  /\ kinds = [n \in DOMAIN kinds |-> kinds[n]]
             /\ DOMAIN kinds \subseteq Name /\ \A n \in DOMAIN kinds : kinds[n] \in Kind
  <2>1. PICK S \in SUBSET Name : kinds \in [S -> Kind]
    BY <1>1 DEF KindMap
  <2> QED BY <2>1
<1>2. ASSUME kinds = [n \in DOMAIN kinds |-> kinds[n]], DOMAIN kinds \subseteq Name,
             \A n \in DOMAIN kinds : kinds[n] \in Kind
      PROVE  kinds \in KindMap
  <2>1. kinds \in [DOMAIN kinds -> Kind]
    BY <1>2
  <2>2. DOMAIN kinds \in SUBSET Name
    BY <1>2
  <2> QED BY <2>1, <2>2 DEF KindMap
<1> QED BY <1>1, <1>2

LEMMA KindsAre ==
    ASSUME NEW request \in Requests, NEW before \in KindMap
    PROVE  /\ Kinds(request, before) \in KindMap
           /\ DOMAIN Kinds(request, before) = DOMAIN before \cup {d.name : d \in DeclaredBy(request)}
           /\ Coherent => \A d \in DeclaredBy(request) : Kinds(request, before)[d.name] = d.kind
           /\ \A n \in DOMAIN Kinds(request, before) :
                 \/ [name |-> n, kind |-> Kinds(request, before)[n]] \in DeclaredBy(request)
                 \/ n \in DOMAIN before /\ Kinds(request, before)[n] = before[n]
<1> DEFINE said == Declared(request.tools \o request.additional)
           names == {d.name : d \in ToSet(said)}
           places(n) == {i \in DOMAIN said : said[i].name = n}
           kinds == Kinds(request, before)
<1>1. said \in Seq(Saying) /\ ToSet(said) = DeclaredBy(request)
  BY DeclaredByIs DEF DeclaredBy
<1>2. kinds = [n \in DOMAIN before \cup names |->
                  IF \E d \in ToSet(said) : d.name = n THEN said[Max(places(n))].kind ELSE before[n]]
  BY DEF Kinds
<1> HIDE DEF said, kinds
<1>3. DOMAIN said = 1..Len(said) /\ Len(said) \in Nat /\ ToSet(said) = {said[i] : i \in 1..Len(said)}
      /\ \A i \in 1..Len(said) : said[i] \in Saying
  <2>1. DOMAIN said = 1..Len(said) /\ Len(said) \in Nat /\ \A i \in 1..Len(said) : said[i] \in Saying
    BY <1>1
  <2> QED BY <2>1 DEF ToSet
<1>4. ASSUME NEW n \in DOMAIN before \cup names, \E d \in ToSet(said) : d.name = n
      PROVE  [name |-> n, kind |-> kinds[n]] \in ToSet(said) /\ kinds[n] \in Kind
  <2>1. PICK i \in 1..Len(said) : said[i].name = n
    BY <1>3, <1>4
  <2>2. places(n) \in SUBSET (1..Len(said)) /\ places(n) # {}
    BY <2>1, <1>3
  <2>3. Max(places(n)) \in places(n)
    <3> HIDE DEF places
    <3> QED BY <2>2, <1>3, MaxIsIn
  <2> DEFINE d == said[Max(places(n))]
  <2>4. d \in ToSet(said) /\ d \in Saying /\ d.name = n
    BY <2>3, <1>3
  <2>5. kinds[n] = d.kind
    BY <1>2, <1>4
  <2> HIDE DEF d
  <2>6. d = [name |-> n, kind |-> kinds[n]]
    BY <2>4, <2>5 DEF Saying
  <2> QED BY <2>4, <2>5, <2>6 DEF Saying
<1>5. ASSUME NEW n \in DOMAIN before \cup names, ~ \E d \in ToSet(said) : d.name = n
      PROVE  n \in DOMAIN before /\ kinds[n] = before[n] /\ kinds[n] \in Kind
  <2>1. n \in DOMAIN before
    BY <1>5
  <2>2. kinds[n] = before[n]
    BY <1>2, <1>5
  <2> QED BY <2>1, <2>2, KindMapIs
<1>6. DOMAIN kinds = DOMAIN before \cup names /\ kinds = [n \in DOMAIN kinds |-> kinds[n]]
  BY <1>2
<1>7. kinds \in KindMap
  <2>1. names \subseteq Name /\ DOMAIN before \subseteq Name
    <3>1. \A d \in ToSet(said) : d.name \in Name
      BY <1>3 DEF Saying
    <3> QED BY <3>1, KindMapIs
  <2>2. \A n \in DOMAIN kinds : kinds[n] \in Kind
    BY <1>4, <1>5, <1>6
  <2> QED BY <1>6, <2>1, <2>2, KindMapIs
<1>8. ASSUME Coherent, NEW d \in ToSet(said) PROVE kinds[d.name] = d.kind
  <2>1. [name |-> d.name, kind |-> kinds[d.name]] \in ToSet(said)
    BY <1>4
  <2>2. request \in Declarations
    <3>1. ToSet(Nothing.tools) \cup ToSet(Nothing.additional) = {}
      BY DEF Nothing, ToSet
    <3>2. request # Nothing
      BY <1>1, <3>1, DeclaredByIs
    <3> QED BY <3>2 DEF Requests
  <2>3. \A c \in DeclaredBy(request), e \in DeclaredBy(request) : c.name = e.name => c.kind = e.kind
    BY <1>8, <2>2 DEF Coherent
  <2> DEFINE c == [name |-> d.name, kind |-> kinds[d.name]]
  <2>4. c \in DeclaredBy(request) /\ d \in DeclaredBy(request) /\ c.name = d.name /\ c.kind = kinds[d.name]
    BY <1>1, <2>1
  <2> HIDE DEF c
  <2> QED BY <2>3, <2>4
<1>9. \A n \in DOMAIN kinds : \/ [name |-> n, kind |-> kinds[n]] \in ToSet(said)
                              \/ n \in DOMAIN before /\ kinds[n] = before[n]
  BY <1>4, <1>5, <1>6
<1> QED BY <1>1, <1>6, <1>7, <1>8, <1>9 DEF kinds

\* What a request brings agrees with what it says.
LEMMA OwnAgrees ==
    ASSUME Coherent, NEW request \in Requests, NEW before \in KindMap
    PROVE  Agree(chat_tools(request), custom_tool_names(request), Kinds(request, before))
<1> DEFINE kinds == Kinds(request, before)
           names == custom_tool_names(request)
           tools == chat_tools(request)
           own   == Executable(request)
<1>1. /\ DOMAIN kinds = DOMAIN before \cup {d.name : d \in DeclaredBy(request)}
      /\ \A d \in DeclaredBy(request) : kinds[d.name] = d.kind
  BY KindsAre
<1>2. tools \in Seq(ChatTool) /\ own \in Seq(Saying) /\ Along(tools, own, Offers(names))
  BY RequestOffers
<1>3. ToSet(own) \subseteq DeclaredBy(request)
  BY ExecutableIs
<1>4. \A n \in names : [name |-> n, kind |-> "custom"] \in DeclaredBy(request)
  BY NamesAre
<1> HIDE DEF kinds, names, tools, own
<1>5. NamesFit(names, kinds)
  <2> SUFFICES ASSUME NEW n \in names PROVE n \in DOMAIN kinds /\ kinds[n] = "custom"
    BY DEF NamesFit
  <2> DEFINE d == [name |-> n, kind |-> "custom"]
  <2>1. d \in DeclaredBy(request) /\ d.name = n /\ d.kind = "custom"
    BY <1>4
  <2> HIDE DEF d
  <2> QED BY <1>1, <2>1
<1>6. ASSUME NEW c \in ToSet(tools)
      PROVE  /\ c.name \in DOMAIN kinds /\ (c.freeform <=> kinds[c.name] = "custom")
             /\ c.type = "function" /\ c.freeform => c.name \in names
  <2>1. PICK k \in 1..Len(tools) : c = tools[k]
    BY <1>2 DEF ToSet
  <2>2. <<c, own[k]>> \in Offers(names) /\ k \in 1..Len(own)
    BY <1>2, <2>1 DEF Along
  <2>3. own[k] \in DeclaredBy(request)
    BY <1>2, <1>3, <2>2 DEF ToSet
  <2>4. /\ c.name = own[k].name /\ (c.freeform <=> own[k].kind = "custom")
        /\ c.type = "function" /\ c.freeform => c.name \in names
    BY <2>2 DEF Offers
  <2> QED BY <1>1, <2>3, <2>4
<1> QED BY <1>5, <1>6 DEF Agree, ToolsFit, Named, kinds, names, tools

\* Where functions pass, a request with names has tools.
LEMMA NamesComeWithTools ==
    ASSUME "function" \in setting.allowed, NEW request \in Requests, chat_tools(request) = <<>>
    PROVE  custom_tool_names(request) = {}
<1>1. Executable(request) \in Seq(Saying) /\ Len(Executable(request)) = 0
  <2>1. Executable(request) \in Seq(Saying)
        /\ Along(chat_tools(request), Executable(request), Offers(custom_tool_names(request)))
    BY RequestOffers
  <2> QED BY <2>1 DEF Along
<1>2. ToSet(Executable(request)) = {}
  BY <1>1 DEF ToSet
<1>3. DeclaredBy(request) = {}
  BY <1>2, ExecutableIs
<1> QED BY <1>3, NamesAre

LEMMA BudgetIs ==
    ASSUME setting \in Settings, NEW tools \in Seq(ChatTool)
    PROVE  LET cut == enforce_tool_budget(tools) IN
           /\ cut \in Seq(ChatTool) /\ InBudget(cut)
           /\ InBudget(tools) => cut = tools
           /\ tools # <<>> => cut # <<>>
           /\ Len(cut) = IF setting.max_tools \in 1..Len(tools) THEN setting.max_tools ELSE Len(tools)
           /\ \A i \in 1..Len(cut) : cut[i] = tools[i]
           /\ ToSet(cut) \subseteq ToSet(tools)
<1>1. setting.max_tools \in Nat
  BY CodeModeAssumption DEF CodeModeAssumption
<1>2. CASE setting.max_tools = 0 \/ Len(tools) <= setting.max_tools
  <2>1. enforce_tool_budget(tools) = tools
    BY <1>2 DEF enforce_tool_budget
  <2>2. Len(tools) = IF setting.max_tools \in 1..Len(tools) THEN setting.max_tools ELSE Len(tools)
    BY <1>1, <1>2
  <2> QED BY <1>2, <2>1, <2>2 DEF InBudget
<1>3. CASE ~(setting.max_tools = 0 \/ Len(tools) <= setting.max_tools)
  <2> DEFINE cut == SubSeq(tools, 1, setting.max_tools)
  <2>1. enforce_tool_budget(tools) = cut
    BY <1>3 DEF enforce_tool_budget
  <2>2. /\ setting.max_tools \in 1..Len(tools)
        /\ cut \in Seq(ChatTool) /\ Len(cut) = setting.max_tools
        /\ \A i \in 1..Len(cut) : cut[i] = tools[i] /\ i \in 1..Len(tools)
    BY <1>1, <1>3
  <2> HIDE DEF cut
  <2>3. ToSet(cut) \subseteq ToSet(tools)
    BY <2>2 DEF ToSet
  <2>4. cut # <<>>
    BY <1>1, <2>2
  <2> QED BY <1>1, <1>3, <2>1, <2>2, <2>3, <2>4 DEF InBudget
<1> QED BY <1>2, <1>3

\* And a cut one agrees too.
LEMMA FewerAgree ==
    ASSUME NEW tools, NEW fewer, NEW names, NEW kinds, Agree(tools, names, kinds),
           ToSet(fewer) \subseteq ToSet(tools)
    PROVE  Agree(fewer, names, kinds)
BY DEF Agree, ToolsFit, Named

\* What agreed still does when more is declared.
LEMMA MoreKinds ==
    ASSUME NEW names, NEW tools, NEW kinds, NEW more,
           \A n \in DOMAIN kinds : n \in DOMAIN more /\ more[n] = kinds[n]
    PROVE  /\ NamesFit(names, kinds) => NamesFit(names, more)
           /\ ToolsFit(tools, kinds) => ToolsFit(tools, more)
BY DEF NamesFit, ToolsFit

-----------------------------------------------------------------------------
(* Types                                                                   *)

LEMMA NamesType ==
    ASSUME NEW request \in Requests
    PROVE  custom_tool_names(request) \subseteq Name
<1> SUFFICES ASSUME NEW n \in custom_tool_names(request) PROVE n \in Name
  OBVIOUS
<1>1. [name |-> n, kind |-> "custom"] \in DeclaredBy(request)
  BY NamesAre
<1>2. \A x \in DeclaredBy(request) : x \in Saying
  BY DeclaredByIs DEF DeclaredBy, ToSet
<1> QED BY <1>1, <1>2 DEF Saying

LEMMA CallsAre ==
    ASSUME NEW tools \in Seq(ChatTool), NEW call \in Calls(tools)
    PROVE  /\ call \in Call
           /\ \E c \in ToSet(tools) : /\ c \in ChatTool /\ call.type = c.type /\ call.name = c.name
                                      /\ call.arguments \in Arguments(c)
<1>1. PICK c \in ToSet(tools) : call \in {[type |-> c.type, name |-> c.name, arguments |-> a] : a \in Arguments(c)}
  <2> DEFINE of(c) == {[type |-> c.type, name |-> c.name, arguments |-> a] : a \in Arguments(c)}
  <2>1. Calls(tools) = UNION {of(c) : c \in ToSet(tools)}
    BY Zenon DEF Calls
  <2> HIDE DEF of
  <2>2. \A x : x \in UNION {of(c) : c \in ToSet(tools)} <=> \E c \in ToSet(tools) : x \in of(c)
    OBVIOUS
  <2>3. \E c \in ToSet(tools) : call \in of(c)
    BY <2>1, <2>2, Zenon
  <2> QED BY <2>3 DEF of
<1>2. PICK a \in Arguments(c) : call = [type |-> c.type, name |-> c.name, arguments |-> a]
  BY <1>1
<1>3. c \in ChatTool
  BY DEF ToSet
<1>4. a \in Argument
  BY DEF Arguments, Argument
<1>5. call \in Call /\ call.type = c.type /\ call.name = c.name /\ call.arguments = a
  BY <1>2, <1>3, <1>4 DEF ChatTool, Call
<1> QED BY <1>2, <1>3, <1>5

LEMMA ShownType ==
    ASSUME NEW t \in Turn, NEW call \in Call
    PROVE  Shown(t, call) \in Item
BY DEF Shown, unwrap_custom_input, Call, Item, ItemType, Argument, Kind, Name

LEMMA KeptType ==
    ASSUME NEW t \in Turn, NEW call \in Call
    PROVE  Kept(t, call) \in Past
<1>1. Shown(t, call) \in Item
  BY ShownType
<1> QED BY <1>1 DEF Kept, Call, Item, Past, Turn

LEMMA ReplayedType ==
    ASSUME NEW c \in Given, NEW names
    PROVE  Replayed(c, names) \in Past
BY DEF Replayed, Given, Past, Argument

LEMMA InitTyped == Init => Typed
<1> SUFFICES ASSUME Init PROVE Typed
  OBVIOUS
<1>1. <<>> \in KindMap
  BY NoKinds
<1>2. NoTurn \in Turn /\ NoTurn.shown = None
  BY <1>1 DEF NoTurn, Turn, Mode, Choice, Requests, None
<1> QED BY <1>1, <1>2, CodeModeAssumption DEF CodeModeAssumption, Init, Typed, Client, None

LEMMA RegistryType ==
    ASSUME Typed, registry # None
    PROVE  /\ registry \in Entry
           /\ registry.tools \in Seq(ChatTool) /\ registry.custom_names \subseteq Name
           /\ registry.age \in 0..(TTL + 1)
BY DEF Typed, Entry

LEMMA ReadType ==
    ASSUME Typed, NEW asks \in BOOLEAN, Read(asks)
    PROVE  /\ UNCHANGED <<count, client, history, offered, setting>>
           /\ registry' = registry \/ registry' = None
           /\ registry' \in Entry \cup {None}
           /\ registry' # None => registry'.tools # <<>> \/ registry'.custom_names # {}
BY DEF Read, Typed

LEMMA ResolveType ==
    ASSUME Typed
    PROVE  resolve_custom_tool_names \subseteq Name
<1>1. turn.request \in Requests
  BY DEF Typed, Turn
<1>2. custom_tool_names(turn.request) \subseteq Name
  BY <1>1, NamesType
<1>3. Found => registry # None
  BY DEF Found, Fresh
<1> QED BY <1>2, <1>3, RegistryType DEF resolve_custom_tool_names

LEMMA StepTyped == Typed /\ [Next]_vars => Typed'
<1> SUFFICES ASSUME Typed, [Next]_vars PROVE Typed'
  OBVIOUS
<1>1. /\ turn \in Turn /\ client \in Client /\ count \in 0..MaxTurns
      /\ turn.shown # None => turn.call # None
      /\ history \in Seq(Past) /\ offered \in Seq(ChatTool) /\ setting \in Settings
      /\ registry \in Entry \cup {None}
      /\ registry # None => registry.tools # <<>> \/ registry.custom_names # {}
  BY DEF Typed
<1>2. NoTurn \in Turn /\ NoTurn.shown = None
  BY NoKinds DEF NoTurn, Turn, Mode, Choice, Requests, None
<1>3. ASSUME NEW mode \in Mode, Begin(mode) PROVE Typed'
  <2>1. PICK request \in Declarations \cup {Nothing}, continues \in BOOLEAN :
           turn' = [NoTurn EXCEPT !.pc = IF mode \in Socket THEN "names" ELSE "convert",
                                  !.mode = mode, !.continues = continues, !.request = request,
                                  !.kinds = Kinds(request, IF continues THEN client.kinds ELSE <<>>),
                                  !.given = IF continues THEN <<>> ELSE client.calls]
    BY <1>3 DEF Begin
  <2>2. (IF continues THEN client.kinds ELSE <<>>) \in KindMap
    BY <1>1, NoKinds DEF Client
  <2>3. Kinds(request, IF continues THEN client.kinds ELSE <<>>) \in KindMap
    BY <2>2, KindsAre DEF Requests
  <2>4. (IF continues THEN <<>> ELSE client.calls) \in Seq(Given)
    BY <1>1 DEF Client
  <2>5. turn' \in Turn /\ turn'.shown = None
    BY <1>2, <2>1, <2>3, <2>4 DEF Turn, Requests
  <2>6. count < MaxTurns /\ count' = count + 1 /\ UNCHANGED <<client, kept, setting>>
    BY <1>3 DEF Begin
  <2> QED BY <1>1, <2>5, <2>6, CodeModeAssumption DEF CodeModeAssumption, Typed, kept
<1>4. CASE ResolveNames
  <2>1. AsksForNames \in BOOLEAN /\ Lost(AsksForNames) \in BOOLEAN
    BY <1>1 DEF AsksForNames, Lost, Turn
  <2>2. turn' \in Turn
    <3>1. resolve_custom_tool_names \in SUBSET Name
      BY ResolveType
    <3> QED BY <1>1, <1>4, <2>1, <3>1 DEF ResolveNames, Turn
  <2> QED BY <1>1, <1>4, <2>1, <2>2, ReadType DEF ResolveNames, Typed
<1>5. CASE WrapReplayed
  <2> DEFINE names == resolve_custom_tool_names
             past == [i \in DOMAIN turn.given |-> Replayed(turn.given[i], names)]
  <2>1. AsksForNames \in BOOLEAN /\ Lost(AsksForNames) \in BOOLEAN
    BY <1>1 DEF AsksForNames, Lost, Turn
  <2>2. past \in Seq(Past)
    <3>1. turn.given \in Seq(Given)
      BY <1>1 DEF Turn
    <3>2. \A i \in 1..Len(turn.given) : Replayed(turn.given[i], names) \in Past
      BY <3>1, ReplayedType
    <3> HIDE DEF names
    <3> QED BY <3>1, <3>2
  <2>3. turn' = [turn EXCEPT !.pc = "tools", !.given = <<>>, !.lost = Lost(AsksForNames),
                             !.history = IF turn.continues THEN history ELSE past]
    BY <1>5 DEF WrapReplayed
  <2> HIDE DEF past
  <2>4. (IF turn.continues THEN history ELSE past) \in Seq(Past) /\ <<>> \in Seq(Given)
    BY <1>1, <2>2
  <2>5. turn' \in Turn /\ turn'.shown = turn.shown /\ turn'.call = turn.call
    BY <1>1, <2>1, <2>3, <2>4 DEF Turn
  <2> QED BY <1>1, <1>5, <2>1, <2>5, ReadType DEF WrapReplayed, Typed
<1>6. CASE OfferTools
  <2> DEFINE tools == IF AsksForTools /\ Found THEN registry.tools ELSE chat_tools(turn.request)
             pc == CASE turn.mode = "warmup" -> "put_tools" [] turn.mode = "ws" -> "upstream" [] OTHER -> "names"
  <2>1. AsksForTools \in BOOLEAN /\ Lost(AsksForTools) \in BOOLEAN
    BY <1>1 DEF AsksForTools, Lost, Turn
  <2>2. PICK choice \in ToolChoices :
           turn' = [turn EXCEPT !.tools = enforce_tool_budget(tools), !.choice = convert_tool_choice(choice),
                                !.lost = Lost(AsksForTools), !.pc = pc]
    BY <1>6 DEF OfferTools
  <2>3. enforce_tool_budget(tools) \in Seq(ChatTool)
    <3>1. turn.request \in Requests
      BY <1>1 DEF Turn
    <3>2. Found => registry # None
      BY DEF Found, Fresh
    <3>3. tools \in Seq(ChatTool)
      BY <3>1, <3>2, RegistryType, RequestOffers
    <3> HIDE DEF tools
    <3> QED BY <1>1, <3>3, BudgetIs
  <2>4. convert_tool_choice(choice) \in Choice
    BY DEF convert_tool_choice, Choice
  <2>5. pc \in {"put_tools", "upstream", "names"}
    OBVIOUS
  <2> HIDE DEF tools, pc
  <2>6. turn' \in Turn
    BY <1>1, <2>1, <2>2, <2>3, <2>4, <2>5 DEF Turn
  <2> QED BY <1>1, <1>6, <2>1, <2>6, ReadType DEF OfferTools, Typed
<1>7. CASE Reply
  <2>1. PICK call \in Calls(turn.tools) \cup {None} :
          turn' = [turn EXCEPT !.call = call, !.choice = None,
                               !.shown = IF call = None THEN None ELSE Shown(turn, call),
                               !.pc = IF turn.mode = "background" THEN "put" ELSE "put_tools"]
    BY <1>7 DEF Reply
  <2>2. call # None => call \in Call /\ Shown(turn, call) \in Item
    <3>1. turn.tools \in Seq(ChatTool)
      BY <1>1 DEF Turn
    <3> QED BY <1>1, <3>1, CallsAre, ShownType
  <2>3. turn' \in Turn
    BY <1>1, <2>1, <2>2 DEF Turn, Choice
  <2> QED BY <1>1, <1>7, <2>3 DEF Reply, Typed, kept
<1>8. CASE Fail
  BY <1>1, <1>2, <1>8 DEF Fail, Typed, kept
<1>9. CASE PutTools
  <2>1. turn' \in Turn
    BY <1>1, <1>9 DEF PutTools, Turn
  <2>2. 0 \in 0..(TTL + 1)
    BY CodeModeAssumption DEF CodeModeAssumption
  <2>3. /\ registry' \in Entry \cup {None}
        /\ registry' # None => registry'.tools # <<>> \/ registry'.custom_names # {}
    <3>1. turn.tools \in Seq(ChatTool) /\ turn.names \in SUBSET Name
      BY <1>1 DEF Turn
    <3>2. CASE turn.tools = <<>> /\ turn.names = {}
      BY <1>9, <3>2 DEF PutTools, put_tools
    <3>3. CASE ~(turn.tools = <<>> /\ turn.names = {})
      BY <1>9, <2>2, <3>1, <3>3 DEF PutTools, put_tools, Entry
    <3> QED BY <3>2, <3>3
  <2> QED BY <1>1, <1>9, <2>1, <2>3 DEF PutTools, Typed
<1>10. CASE Put
  <2>1. turn.history \in Seq(Past) /\ turn.tools \in Seq(ChatTool) /\ turn.call \in Call \cup {None}
        /\ turn.shown \in Item \cup {None} /\ turn.kinds \in KindMap /\ turn.lost \in BOOLEAN
    BY <1>1 DEF Turn
  <2>2. history' \in Seq(Past)
    <3> DEFINE more == IF turn.call = None THEN <<>> ELSE <<Kept(turn, turn.call)>>
    <3>1. more \in Seq(Past)
      BY <1>1, <2>1, KeptType
    <3>2. history' = turn.history \o more
      BY <1>10 DEF Put
    <3> HIDE DEF more
    <3> QED BY <2>1, <3>1, <3>2
  <2>3. ASSUME turn.shown # None, turn.call # None
        PROVE  [type |-> turn.shown.type, name |-> turn.shown.name,
                arguments |-> turn.shown.arguments, said |-> turn.call.arguments] \in Given
    BY <2>1, <2>3 DEF Item, Call, Given
  <2>4. client' \in Client
    <3> DEFINE g == [type |-> turn.shown.type, name |-> turn.shown.name,
                     arguments |-> turn.shown.arguments, said |-> turn.call.arguments]
               calls == IF turn.shown = None \/ turn.mode = "background" THEN client.calls
                        ELSE Append(client.calls, g)
               kinds == IF turn.mode = "background" THEN <<>> ELSE turn.kinds
    <3>1. client' = [client EXCEPT !.last = TRUE, !.lost = turn.lost, !.calls = calls, !.kinds = kinds]
      BY <1>10 DEF Put
    <3>2. calls \in Seq(Given)
      <4>1. client.calls \in Seq(Given)
        BY <1>1 DEF Client
      <4>2. turn.shown # None => g \in Given
        BY <1>1, <2>3
      <4> HIDE DEF g
      <4> QED BY <4>1, <4>2
    <3>3. kinds \in KindMap
      BY <2>1, NoKinds
    <3> HIDE DEF calls, kinds
    <3> QED BY <1>1, <2>1, <3>1, <3>2, <3>3 DEF Client
  <2> QED BY <1>1, <1>2, <1>10, <2>1, <2>2, <2>4 DEF Put, Typed
<1>11. CASE Tick
  <2>1. registry \in Entry /\ registry.age <= TTL
    BY <1>1, <1>11 DEF Tick, Fresh
  <2>2. registry' \in Entry /\ registry'.tools = registry.tools /\ registry'.custom_names = registry.custom_names
    BY <1>11, <2>1, CodeModeAssumption DEF CodeModeAssumption, Tick, Entry
  <2> QED BY <1>1, <1>11, <2>2 DEF Tick, Fresh, Typed
<1>12. CASE sweep
  BY <1>1, <1>12 DEF sweep, Typed
<1>13. CASE Restart
  BY <1>1, <1>2, <1>13 DEF Restart, Typed
<1>14. CASE UNCHANGED vars
  BY <1>1, <1>14 DEF vars, kept, Typed
<1> QED BY <1>3, <1>4, <1>5, <1>6, <1>7, <1>8, <1>9, <1>10, <1>11, <1>12, <1>13, <1>14 DEF Next

-----------------------------------------------------------------------------
(* What a step does to the turn                                            *)

LEMMA SameSetting ==
    ASSUME setting' = setting
    PROVE  /\ \A request : chat_tools(request)' = chat_tools(request)
           /\ \A request : custom_tool_names(request)' = custom_tool_names(request)
           /\ \A tools : enforce_tool_budget(tools)' = enforce_tool_budget(tools)
           /\ \A tools : InBudget(tools)' <=> InBudget(tools)
<1>1. \A request : custom_tool_names(request)' = custom_tool_names(request)
  BY DEF custom_tool_names, keep_raw_custom
<1>2. \A tools : enforce_tool_budget(tools)' = enforce_tool_budget(tools)
  BY DEF enforce_tool_budget
<1>3. \A tools : InBudget(tools)' <=> InBudget(tools)
  BY DEF InBudget
<1>4. \A request : chat_tools(request)' = chat_tools(request)
  BY DEF chat_tools, Flattened, Accepted, keep_raw_custom
<1> QED BY <1>1, <1>2, <1>3, <1>4

\* The request stays, and with it how it is shown and read.
SameTurn ==
    /\ turn'.mode = turn.mode /\ turn'.continues = turn.continues
    /\ turn'.request = turn.request /\ turn'.kinds = turn.kinds

LEMMA SameAsks ==
    ASSUME SameTurn, setting' = setting
    PROVE  /\ chat_tools(turn.request)' = chat_tools(turn.request)
           /\ custom_tool_names(turn.request)' = custom_tool_names(turn.request)
           /\ enforce_tool_budget(chat_tools(turn.request))' = enforce_tool_budget(chat_tools(turn.request))
           /\ (AsksForTools' <=> AsksForTools) /\ (AsksForNames' <=> AsksForNames)
<1>1. turn'.request = turn.request /\ turn'.continues = turn.continues
  BY DEF SameTurn
<1>2. chat_tools(turn.request)' = chat_tools(turn.request)
  BY <1>1 DEF chat_tools, Flattened, Accepted, keep_raw_custom
<1>3. custom_tool_names(turn.request)' = custom_tool_names(turn.request)
  BY <1>1 DEF custom_tool_names, keep_raw_custom
<1>4. enforce_tool_budget(chat_tools(turn.request))' = enforce_tool_budget(chat_tools(turn.request))
  BY <1>2 DEF enforce_tool_budget
<1> QED BY <1>1, <1>2, <1>3, <1>4 DEF AsksForTools, AsksForNames

LEMMA BeginDoes ==
    ASSUME Typed, NEW mode \in Mode, Begin(mode)
    PROVE  /\ turn.pc = "over" /\ UNCHANGED <<client, history, registry, offered, setting>>
           /\ turn'.pc = (IF mode \in Socket THEN "names" ELSE "convert") /\ turn'.mode = mode
           /\ turn'.names = {} /\ turn'.tools = <<>> /\ turn'.history = <<>> /\ turn'.call = None
           /\ turn'.lost = FALSE /\ turn'.request \in Requests
           /\ \E continues \in BOOLEAN :
                 LET before == IF continues THEN client.kinds ELSE <<>> IN
                 /\ turn'.continues = continues
                 /\ before \in KindMap
                 /\ turn'.kinds = Kinds(turn'.request, before)
                 /\ turn'.given = IF continues THEN <<>> ELSE client.calls
                 /\ continues \/ \A call \in ToSet(client.calls) : call.type = "custom_tool_call" =>
                       call.name \in DOMAIN turn'.kinds /\ turn'.kinds[call.name] = "custom"
                 /\ Redeclares \/ \A n \in DOMAIN turn'.kinds \cap DOMAIN client.kinds :
                                     turn'.kinds[n] = client.kinds[n]
<1>1. PICK request \in Declarations \cup {Nothing}, continues \in BOOLEAN :
        LET kinds == Kinds(request, IF continues THEN client.kinds ELSE <<>>) IN
        /\ turn' = [NoTurn EXCEPT !.pc = IF mode \in Socket THEN "names" ELSE "convert",
                                  !.mode = mode, !.continues = continues,
                                  !.request = request, !.kinds = kinds,
                                  !.given = IF continues THEN <<>> ELSE client.calls]
        /\ continues \/ \A call \in ToSet(client.calls) : call.type = "custom_tool_call" =>
                             call.name \in DOMAIN kinds /\ kinds[call.name] = "custom"
        /\ Redeclares \/ \A name \in DOMAIN kinds \cap DOMAIN client.kinds :
                               kinds[name] = client.kinds[name]
  BY DEF Begin
<1> DEFINE before == IF continues THEN client.kinds ELSE <<>>
           kinds == Kinds(request, before)
<1>2. before \in KindMap
  BY NoKinds DEF Typed, Client
<1> HIDE DEF kinds
<1>3. /\ turn'.pc = (IF mode \in Socket THEN "names" ELSE "convert") /\ turn'.mode = mode
      /\ turn'.names = {} /\ turn'.tools = <<>> /\ turn'.history = <<>> /\ turn'.call = None
      /\ turn'.lost = FALSE /\ turn'.request = request /\ turn'.continues = continues
      /\ turn'.kinds = kinds /\ turn'.given = IF continues THEN <<>> ELSE client.calls
  BY <1>1 DEF NoTurn, kinds
<1>4. turn.pc = "over" /\ UNCHANGED <<client, history, registry, offered, setting>>
  BY DEF Begin, kept
<1>5. /\ continues \/ \A call \in ToSet(client.calls) : call.type = "custom_tool_call" =>
                             call.name \in DOMAIN kinds /\ kinds[call.name] = "custom"
      /\ Redeclares \/ \A n \in DOMAIN kinds \cap DOMAIN client.kinds : kinds[n] = client.kinds[n]
  BY <1>1 DEF kinds
<1>6. turn'.kinds = Kinds(turn'.request, before)
  BY <1>3 DEF kinds
<1> QED BY <1>2, <1>3, <1>4, <1>5, <1>6 DEF Requests

LEMMA ResolveNamesDoes ==
    ASSUME Typed, ResolveNames
    PROVE  /\ turn.pc = "names" /\ turn'.pc = IF turn.mode \in Socket THEN "convert" ELSE "upstream"
           /\ turn'.names = resolve_custom_tool_names /\ turn'.lost = Lost(AsksForNames)
           /\ SameTurn /\ turn'.given = turn.given /\ turn'.tools = turn.tools
           /\ turn'.history = turn.history /\ turn'.call = turn.call
           /\ UNCHANGED <<count, client, history, offered, setting>>
           /\ registry' = registry \/ registry' = None
BY ReadType DEF ResolveNames, Typed, Turn, SameTurn, Read

LEMMA WrapReplayedDoes ==
    ASSUME Typed, WrapReplayed
    PROVE  /\ turn.pc = "convert" /\ turn'.pc = "tools" /\ turn'.given = <<>>
           /\ turn'.history = IF turn.continues THEN history
                              ELSE [i \in DOMAIN turn.given |-> Replayed(turn.given[i], resolve_custom_tool_names)]
           /\ turn'.lost = Lost(AsksForNames)
           /\ SameTurn /\ turn'.names = turn.names /\ turn'.tools = turn.tools /\ turn'.call = turn.call
           /\ UNCHANGED <<count, client, history, offered, setting>>
           /\ registry' = registry \/ registry' = None
BY DEF WrapReplayed, Typed, Turn, SameTurn, Read

LEMMA OfferToolsDoes ==
    ASSUME Typed, OfferTools
    PROVE  /\ turn.pc = "tools"
           /\ turn'.pc = CASE turn.mode = "warmup" -> "put_tools" [] turn.mode = "ws" -> "upstream" [] OTHER -> "names"
           /\ turn'.tools = enforce_tool_budget(
                               IF AsksForTools /\ Found THEN registry.tools ELSE chat_tools(turn.request))
           /\ turn'.lost = Lost(AsksForTools)
           /\ SameTurn /\ turn'.given = turn.given /\ turn'.names = turn.names
           /\ turn'.history = turn.history /\ turn'.call = turn.call
           /\ UNCHANGED <<count, client, history, offered, setting>>
           /\ registry' = registry \/ registry' = None
BY DEF OfferTools, Typed, Turn, SameTurn, Read

LEMMA ReplyDoes ==
    ASSUME Typed, Reply
    PROVE  /\ turn.pc = "upstream"
           /\ turn'.pc = (IF turn.mode = "background" THEN "put" ELSE "put_tools")
           /\ turn'.call \in Calls(turn.tools) \cup {None}
           /\ turn'.call # None => turn'.shown = Shown(turn, turn'.call)
           /\ SameTurn /\ turn'.given = turn.given /\ turn'.names = turn.names
           /\ turn'.history = turn.history /\ turn'.tools = turn.tools /\ turn'.lost = turn.lost
           /\ UNCHANGED <<count, client, history, registry, offered, setting>>
BY DEF Reply, Typed, Turn, SameTurn, kept

LEMMA PutToolsDoes ==
    ASSUME Typed, PutTools
    PROVE  /\ turn.pc = "put_tools" /\ turn'.pc = "put" /\ registry' = put_tools
           /\ SameTurn /\ turn'.given = turn.given /\ turn'.names = turn.names
           /\ turn'.history = turn.history /\ turn'.tools = turn.tools /\ turn'.lost = turn.lost
           /\ turn'.call = turn.call /\ turn'.shown = turn.shown
           /\ UNCHANGED <<count, client, history, offered, setting>>
BY DEF PutTools, Typed, Turn, SameTurn

LEMMA PutDoes ==
    ASSUME Typed, Put
    PROVE  /\ turn.pc = "put" /\ turn' = NoTurn /\ offered' = turn.tools /\ setting' = setting
           /\ registry' = IF turn.mode = "background" THEN None ELSE registry
           /\ history' = turn.history \o (IF turn.call = None THEN <<>> ELSE <<Kept(turn, turn.call)>>)
           /\ client'.lost = turn.lost
           /\ client'.kinds = IF turn.mode = "background" THEN <<>> ELSE turn.kinds
           /\ client'.calls = IF turn.shown = None \/ turn.mode = "background" THEN client.calls
                              ELSE Append(client.calls, [type |-> turn.shown.type, name |-> turn.shown.name,
                                                         arguments |-> turn.shown.arguments,
                                                         said |-> turn.call.arguments])
BY DEF Put, Typed, Client

LEMMA NoTurnIs ==
    /\ NoTurn.pc = "over" /\ NoTurn.call = None /\ NoTurn.names = {} /\ NoTurn.tools = <<>>
    /\ NoTurn.given = <<>> /\ NoTurn.history = <<>> /\ NoTurn.lost = FALSE /\ NoTurn.mode = "whole"
BY DEF NoTurn

\* Steps that end the turn or leave it, and leave what is kept, but for an
\* entry of the registry that ages or goes.
Idle ==
    /\ turn' = turn \/ turn' = NoTurn
    /\ UNCHANGED <<client, history, offered, setting>>
    /\ registry' # None => /\ registry # None
                           /\ registry'.tools = registry.tools
                           /\ registry'.custom_names = registry.custom_names
                           /\ turn' = turn \/ turn.pc # "put"

LEMMA IdleSteps ==
    ASSUME Typed, Fail \/ Tick \/ sweep \/ Restart \/ UNCHANGED vars
    PROVE  Idle
<1>1. CASE Fail
  BY <1>1 DEF Fail, kept, Idle
<1>2. CASE Tick
  <2>1. registry # None /\ registry \in Entry
    BY <1>2, RegistryType DEF Tick, Fresh
  <2>2. registry'.tools = registry.tools /\ registry'.custom_names = registry.custom_names
    BY <1>2, <2>1 DEF Tick, Entry
  <2> QED BY <1>2, <2>1, <2>2 DEF Tick, Idle
<1>3. CASE sweep
  BY <1>3 DEF sweep, Idle
<1>4. CASE Restart
  BY <1>4 DEF Restart, Idle
<1>5. CASE UNCHANGED vars
  BY <1>5 DEF vars, kept, Idle
<1> QED BY <1>1, <1>2, <1>3, <1>4, <1>5

-----------------------------------------------------------------------------
(* A call is of an offered tool                                            *)

LEMMA ShownSame ==
    ASSUME NEW t, NEW u, t.mode = u.mode, t.names = u.names, NEW call
    PROVE  Shown(t, call) = Shown(u, call)
BY DEF Shown

LEMMA StepCalled == Typed /\ Called /\ [Next]_vars => Called'
<1> SUFFICES ASSUME Typed, Called, [Next]_vars PROVE Called'
  OBVIOUS
<1>1. ASSUME NEW mode \in Mode, Begin(mode) PROVE Called'
  BY <1>1, BeginDoes DEF Called
<1>2. CASE ResolveNames
  BY <1>2, ResolveNamesDoes DEF Called
<1>3. CASE WrapReplayed
  BY <1>3, WrapReplayedDoes DEF Called
<1>4. CASE OfferTools
  BY <1>4, OfferToolsDoes DEF Called
<1>5. CASE Reply
  <2>1. /\ turn'.pc \in {"put_tools", "put"} /\ turn'.call \in Calls(turn.tools) \cup {None}
        /\ turn'.call # None => turn'.shown = Shown(turn, turn'.call)
        /\ turn'.tools = turn.tools /\ turn'.names = turn.names /\ turn'.mode = turn.mode
    BY <1>5, ReplyDoes DEF SameTurn
  <2>2. Shown(turn', turn'.call) = Shown(turn, turn'.call)
    BY <2>1, ShownSame
  <2> QED BY <2>1, <2>2 DEF Called
<1>6. CASE PutTools
  <2>1. /\ turn'.pc = "put" /\ turn'.call = turn.call /\ turn'.shown = turn.shown
        /\ turn'.tools = turn.tools /\ turn'.names = turn.names /\ turn'.mode = turn.mode
    BY <1>6, PutToolsDoes DEF SameTurn
  <2>2. Shown(turn', turn'.call) = Shown(turn, turn'.call)
    BY <2>1, ShownSame
  <2> QED BY <2>1, <2>2 DEF Called
<1>7. CASE Put
  BY <1>7, PutDoes, NoTurnIs DEF Called
<1>8. CASE Fail \/ Tick \/ sweep \/ Restart \/ UNCHANGED vars
  <2>1. turn' = turn \/ turn' = NoTurn
    BY <1>8, IdleSteps DEF Idle
  <2> QED BY <2>1, NoTurnIs DEF Called
<1> QED BY <1>1, <1>2, <1>3, <1>4, <1>5, <1>6, <1>7, <1>8 DEF Next

-----------------------------------------------------------------------------
(* What the registry has is what was offered                               *)

LEMMA LostIs ==
    ASSUME Typed, NEW asks \in BOOLEAN
    PROVE  /\ turn.lost => Lost(asks)
           /\ asks /\ ~Lost(asks) => Found /\ ~client.lost /\ registry # None
BY DEF Lost, Found, Fresh, Typed, Turn

LEMMA AsksType == AsksForNames \in BOOLEAN /\ AsksForTools \in BOOLEAN
BY DEF AsksForNames, AsksForTools

LEMMA InitTools == Init => ToolsInv
<1> SUFFICES ASSUME Init PROVE ToolsInv
  OBVIOUS
<1>1. setting.max_tools \in Nat
  BY CodeModeAssumption DEF CodeModeAssumption, Init
<1>2. InBudget(<<>>)
  BY <1>1 DEF InBudget
<1> QED BY <1>2, NoTurnIs DEF Init, ToolsInv, HasTools

LEMMA StepTools == Typed /\ Typed' /\ ToolsInv /\ [Next]_vars => ToolsInv'
<1> SUFFICES ASSUME Typed, Typed', ToolsInv, [Next]_vars PROVE ToolsInv'
  OBVIOUS
<1>1. /\ turn.pc = "put_tools" => turn.mode # "background"
      /\ registry # None => registry.tools = IF PutsEntry THEN turn.tools ELSE offered
      /\ InBudget(offered) /\ InBudget(turn.tools)
      /\ HasTools => IF AsksForTools THEN ~turn.lost => turn.tools = offered
                     ELSE turn.tools = enforce_tool_budget(chat_tools(turn.request))
  BY DEF ToolsInv
<1>2. /\ turn.request \in Requests /\ turn.tools \in Seq(ChatTool) /\ turn.lost \in BOOLEAN
      /\ offered \in Seq(ChatTool) /\ turn.mode \in Mode /\ turn.continues \in BOOLEAN
      /\ setting \in Settings
  BY DEF Typed, Turn
<1>3. chat_tools(turn.request) \in Seq(ChatTool)
  BY <1>2, RequestOffers
<1>4. InBudget(<<>>)
  BY <1>2, CodeModeAssumption DEF CodeModeAssumption, InBudget
\* The turn keeps its tools and its request; the registry may only lose its entry.
<1>5. ASSUME SameTurn, turn'.tools = turn.tools, UNCHANGED <<offered, setting>>,
             registry' = registry \/ registry' = None, ~PutsEntry, ~PutsEntry',
             turn'.pc = "put_tools" => turn'.mode # "background",
             HasTools' => HasTools, turn.lost => turn'.lost
      PROVE  ToolsInv'
  <2>1. InBudget(offered)' /\ InBudget(turn.tools)'
    BY <1>1, <1>5 DEF InBudget
  <2>2. registry' # None => registry'.tools = offered'
    BY <1>1, <1>5
  <2>3. HasTools' => IF AsksForTools' THEN ~turn'.lost => turn'.tools = offered'
                     ELSE turn'.tools = enforce_tool_budget(chat_tools(turn.request))'
    BY <1>1, <1>5, SameAsks
  <2> QED BY <1>1, <1>5, <2>1, <2>2, <2>3 DEF ToolsInv
\* The turn has not begun, or is over.
<1>6. ASSUME turn'.tools = <<>>, turn'.pc \in {"over", "convert"} \/ (turn'.pc = "names" /\ turn'.mode \in Socket),
             setting' = setting, InBudget(offered)', registry' # None => registry'.tools = offered'
      PROVE  ToolsInv'
  <2>1. ~HasTools' /\ ~PutsEntry' /\ turn'.pc # "put_tools"
    BY <1>6 DEF HasTools, PutsEntry
  <2>2. InBudget(turn.tools)'
    BY <1>4, <1>6 DEF InBudget
  <2> QED BY <1>6, <2>1, <2>2 DEF ToolsInv
<1>7. setting' = setting => (InBudget(offered)' <=> (setting.max_tools = 0 \/ Len(offered') <= setting.max_tools))
  BY DEF InBudget
<1>8. ASSUME NEW mode \in Mode, Begin(mode) PROVE ToolsInv'
  <2>1. /\ turn.pc = "over" /\ UNCHANGED <<client, history, registry, offered, setting>>
        /\ turn'.pc = (IF mode \in Socket THEN "names" ELSE "convert") /\ turn'.mode = mode
        /\ turn'.tools = <<>>
    BY <1>8, BeginDoes
  <2>2. ~PutsEntry
    BY <2>1 DEF PutsEntry
  <2>3. registry' # None => registry'.tools = offered'
    BY <1>1, <2>1, <2>2
  <2>4. InBudget(offered)'
    BY <1>1, <1>7, <2>1 DEF InBudget
  <2> QED BY <1>6, <2>1, <2>3, <2>4
<1>9. CASE ResolveNames
  <2>1. /\ turn.pc = "names" /\ turn'.pc = (IF turn.mode \in Socket THEN "convert" ELSE "upstream")
        /\ turn'.lost = Lost(AsksForNames) /\ SameTurn /\ turn'.tools = turn.tools
        /\ UNCHANGED <<offered, setting>>
        /\ registry' = registry \/ registry' = None
    BY <1>9, ResolveNamesDoes
  <2>2. HasTools' => HasTools
    BY <2>1 DEF HasTools
  <2> QED BY <1>5, <2>1, <2>2, LostIs, AsksType DEF PutsEntry
<1>10. CASE WrapReplayed
  <2>1. /\ turn.pc = "convert" /\ turn'.pc = "tools"
        /\ turn'.lost = Lost(AsksForNames) /\ SameTurn /\ turn'.tools = turn.tools
        /\ UNCHANGED <<offered, setting>>
        /\ registry' = registry \/ registry' = None
    BY <1>10, WrapReplayedDoes
  <2>2. ~HasTools'
    BY <2>1 DEF HasTools
  <2> QED BY <1>5, <2>1, <2>2, LostIs, AsksType DEF PutsEntry
<1>11. CASE OfferTools
  <2> DEFINE tools == IF AsksForTools /\ Found THEN registry.tools ELSE chat_tools(turn.request)
  <2>1. /\ turn.pc = "tools"
        /\ turn'.pc = CASE turn.mode = "warmup" -> "put_tools" [] turn.mode = "ws" -> "upstream" [] OTHER -> "names"
        /\ turn'.tools = enforce_tool_budget(tools)
        /\ turn'.lost = Lost(AsksForTools) /\ SameTurn
        /\ UNCHANGED <<offered, setting>>
        /\ registry' = registry \/ registry' = None
    BY <1>11, OfferToolsDoes
  <2>2. ~PutsEntry /\ ~PutsEntry' /\ (turn'.pc = "put_tools" => turn'.mode # "background")
    BY <2>1 DEF PutsEntry, SameTurn
  <2>3. registry # None => registry.tools = offered
    BY <1>1, <2>2
  <2>4. AsksForTools /\ Found => tools = offered
    BY <2>3 DEF Found, Fresh
  <2>5. tools \in Seq(ChatTool)
    BY <1>2, <1>3, <2>4
  <2>6. ~AsksForTools => tools = chat_tools(turn.request)
    OBVIOUS
  <2>8. AsksForTools /\ ~turn'.lost => tools = offered
    BY <2>1, <2>4, LostIs, AsksType
  <2> HIDE DEF tools
  <2>9. InBudget(turn'.tools)
    BY <1>2, <2>1, <2>5, BudgetIs
  <2>10. InBudget(turn.tools)' /\ InBudget(offered)'
    BY <1>1, <2>1, <2>9 DEF InBudget
  <2>11. enforce_tool_budget(offered) = offered
    BY <1>1, <1>2, BudgetIs
  <2>12. IF AsksForTools' THEN ~turn'.lost => turn'.tools = offered'
         ELSE turn'.tools = enforce_tool_budget(chat_tools(turn.request))'
    BY <2>1, <2>6, <2>8, <2>11, SameAsks
  <2>13. registry' # None => registry'.tools = offered'
    BY <2>1, <2>3
  <2> QED BY <2>2, <2>10, <2>12, <2>13 DEF ToolsInv
<1>12. CASE Reply
  <2>1. /\ turn.pc = "upstream" /\ turn'.pc = (IF turn.mode = "background" THEN "put" ELSE "put_tools")
        /\ SameTurn /\ turn'.tools = turn.tools /\ turn'.lost = turn.lost
        /\ UNCHANGED <<registry, offered, setting>>
    BY <1>12, ReplyDoes
  <2>2. HasTools /\ ~PutsEntry /\ ~PutsEntry'
    BY <2>1 DEF HasTools, PutsEntry, SameTurn
  <2> QED BY <1>5, <2>1, <2>2 DEF SameTurn
<1>13. CASE PutTools
  <2>1. /\ turn.pc = "put_tools" /\ turn'.pc = "put" /\ registry' = put_tools
        /\ SameTurn /\ turn'.tools = turn.tools /\ turn'.lost = turn.lost
        /\ UNCHANGED <<offered, setting>>
    BY <1>13, PutToolsDoes
  <2>2. HasTools /\ PutsEntry'
    BY <1>1, <2>1 DEF HasTools, PutsEntry, SameTurn
  <2>3. registry' # None => registry'.tools = turn'.tools
    BY <2>1 DEF put_tools
  <2>6. InBudget(turn.tools)' /\ InBudget(offered)'
    BY <1>1, <2>1 DEF InBudget
  <2>7. IF AsksForTools' THEN ~turn'.lost => turn'.tools = offered'
        ELSE turn'.tools = enforce_tool_budget(chat_tools(turn.request))'
    BY <1>1, <2>1, <2>2, SameAsks
  <2> QED BY <2>1, <2>2, <2>3, <2>6, <2>7 DEF ToolsInv
<1>14. CASE Put
  <2>1. /\ turn.pc = "put" /\ turn' = NoTurn /\ offered' = turn.tools /\ setting' = setting
        /\ registry' = IF turn.mode = "background" THEN None ELSE registry
    BY <1>14, PutDoes
  <2>2. registry' # None => registry'.tools = offered'
    BY <1>1, <2>1 DEF PutsEntry
  <2>3. InBudget(offered)'
    BY <1>1, <1>7, <2>1 DEF InBudget
  <2> QED BY <1>6, <2>1, <2>2, <2>3, NoTurnIs
<1>15. CASE Fail \/ Tick \/ sweep \/ Restart \/ UNCHANGED vars
  <2>1. /\ turn' = turn \/ turn' = NoTurn
        /\ UNCHANGED <<client, history, offered, setting>>
        /\ registry' # None => /\ registry # None
                               /\ registry'.tools = registry.tools
                               /\ turn' = turn \/ turn.pc # "put"
    BY <1>15, IdleSteps DEF Idle
  <2>2. InBudget(offered)'
    BY <1>1, <1>7, <2>1 DEF InBudget
  <2>3. CASE turn' = turn
    <3>1. SameTurn
      BY <2>3 DEF SameTurn
    <3>3. (HasTools' <=> HasTools) /\ (PutsEntry' <=> PutsEntry)
      BY <2>3 DEF HasTools, PutsEntry
    <3>4. InBudget(turn.tools)'
      BY <1>1, <2>1, <2>3 DEF InBudget
    <3>5. HasTools' => IF AsksForTools' THEN ~turn'.lost => turn'.tools = offered'
                       ELSE turn'.tools = enforce_tool_budget(chat_tools(turn.request))'
      BY <1>1, <2>1, <2>3, <3>1, <3>3, SameAsks
    <3>6. registry' # None => registry'.tools = IF PutsEntry' THEN turn'.tools ELSE offered'
      BY <1>1, <2>1, <2>3, <3>3
    <3> QED BY <1>1, <2>2, <2>3, <3>4, <3>5, <3>6 DEF ToolsInv
  <2>4. CASE turn' # turn
    <3>1. registry' # None => registry'.tools = offered'
      BY <1>1, <2>1, <2>4 DEF PutsEntry
    <3> QED BY <1>6, <2>1, <2>2, <2>4, <3>1, NoTurnIs
  <2> QED BY <2>3, <2>4
<1> QED BY <1>8, <1>9, <1>10, <1>11, <1>12, <1>13, <1>14, <1>15 DEF Next

-----------------------------------------------------------------------------
(* What is kept of a call fits                                             *)

LEMMA WrappableIs ==
    \A n : n \in Wrappable <=> \E request \in Requests : n \in custom_tool_names(request)
<1> DEFINE names(request) == custom_tool_names(request)
<1>1. Wrappable = UNION {names(request) : request \in Requests}
  BY Zenon DEF Wrappable
<1> HIDE DEF names
<1>2. \A n : n \in UNION {names(request) : request \in Requests} <=> \E request \in Requests : n \in names(request)
  OBVIOUS
<1>3. \A n : n \in Wrappable <=> \E request \in Requests : n \in names(request)
  BY <1>1, <1>2, Zenon
<1> QED BY <1>3 DEF names

\* A name that some request has for a custom tool is one for the request that
\* declares it as custom, too.
LEMMA DeclaredAsWrapped ==
    ASSUME OnePlace, NEW request \in Requests, NEW n \in Wrappable,
           [name |-> n, kind |-> "custom"] \in DeclaredBy(request)
    PROVE  n \in custom_tool_names(request)
<1> SUFFICES ASSUME n \notin custom_tool_names(request) PROVE FALSE
  OBVIOUS
<1> DEFINE d == [name |-> n, kind |-> "custom"]
<1>1. d \in DeclaredBy(request) /\ d.name = n /\ d.kind = "custom"
  OBVIOUS
<1> HIDE DEF d
<1>2. PICK t \in ToSet(request.tools) : keep_raw_custom /\ t.type = "custom" /\ t.name = n
  BY <1>1, NamesAre
<1>3. PICK other \in Requests : n \in custom_tool_names(other)
  BY WrappableIs
<1>4. n \in AlwaysFunctions(other)
  <2>1. (~keep_raw_custom) = FALSE
    BY <1>2 DEF keep_raw_custom
  <2>2. custom_tool_names(other) = NamesOf(other.tools, FALSE) \cup NamesOf(other.additional, TRUE)
    BY <2>1, Zenon DEF custom_tool_names
  <2> QED BY <1>3, <2>2 DEF AlwaysFunctions
<1>5. request \in Declarations
  <2>1. ToSet(Nothing.tools) = {}
    BY DEF Nothing, ToSet
  <2> QED BY <1>2, <2>1 DEF Requests
<1>6. other \in Declarations
  <2>1. ToSet(Nothing.tools) = {} /\ ToSet(Nothing.additional) = {}
    BY DEF Nothing, ToSet
  <2>2. other # Nothing
    BY <1>3, <2>1, CustomNamesAre
  <2> QED BY <2>2 DEF Requests
<1> QED BY <1>2, <1>4, <1>5, <1>6 DEF OnePlace

\* An object by the schema { input: text } is only given to a function with an input.
LEMMA WrappedIsFunction ==
    ASSUME Typed, Called, turn.call # None, turn.call.arguments = "wrapped"
    PROVE  turn.call.type = "function" /\ turn.shown = Shown(turn, turn.call)
<1>1. turn.tools \in Seq(ChatTool) /\ turn.call \in Calls(turn.tools) /\ turn.shown = Shown(turn, turn.call)
  BY DEF Typed, Turn, Called
<1>2. PICK c \in ChatTool : turn.call.type = c.type /\ turn.call.arguments \in Arguments(c)
  BY <1>1, CallsAre
<1> QED BY <1>1, <1>2 DEF Arguments, ChatTool, Kind

\* A call that is shown can be replayed, and what is kept of it fits.
LEMMA ShownIsReplayable ==
    ASSUME Typed, Called, turn.names \subseteq Wrappable, turn.call # None
    PROVE  /\ Replayable([type |-> turn.shown.type, name |-> turn.shown.name,
                          arguments |-> turn.shown.arguments, said |-> turn.call.arguments])
           /\ KeptFits(Kept(turn, turn.call))
<1> SUFFICES ASSUME turn.call.arguments = "wrapped"
             PROVE  /\ IF turn.shown.type = "custom_tool_call" THEN turn.shown.name \in Wrappable
                       ELSE turn.shown.arguments = "wrapped"
                    /\ turn.mode \in Streams \cup {"client"} => Kept(turn, turn.call).arguments = "wrapped"
  BY DEF Replayable, KeptFits, Kept
<1>1. turn.call.type = "function" /\ turn.shown = Shown(turn, turn.call)
  BY WrappedIsFunction
<1>2. turn.mode # "client"
  BY DEF Typed, Turn, Mode
<1>3. turn.mode \in Streams => Kept(turn, turn.call).arguments = "wrapped"
  BY <1>1 DEF Kept
<1>4. IF turn.call.name \in turn.names
      THEN turn.shown.type = "custom_tool_call" /\ turn.shown.name = turn.call.name
      ELSE turn.shown.type = "function_call" /\ turn.shown.arguments = turn.call.arguments
  BY <1>1 DEF Shown
<1> QED BY <1>2, <1>3, <1>4

LEMMA ResolvesWrappable ==
    ASSUME Typed, CallsInv
    PROVE  resolve_custom_tool_names \subseteq Wrappable
<1>1. Found => registry # None
  BY DEF Found, Fresh
<1>2. turn.request \in Requests
  BY DEF Typed, Turn
<1>3. custom_tool_names(turn.request) \subseteq Wrappable
  BY <1>2, WrappableIs
<1> QED BY <1>1, <1>3 DEF resolve_custom_tool_names, CallsInv

LEMMA InitCalls == Init => CallsInv
<1> SUFFICES ASSUME Init PROVE CallsInv
  OBVIOUS
<1>1. ToSet(<<>>) = {}
  BY DEF ToSet
<1> QED BY <1>1, NoTurnIs DEF Init, CallsInv

LEMMA StepCalls == OnePlace => (Typed /\ Called /\ CallsInv /\ [Next]_vars => CallsInv')
<1> SUFFICES ASSUME OnePlace, Typed, Called, CallsInv, [Next]_vars PROVE CallsInv'
  OBVIOUS
<1> USE DEF Replayable, KeptFits
<1>1. /\ turn.names \subseteq Wrappable
      /\ registry # None => registry.custom_names \subseteq Wrappable
      /\ \A c \in ToSet(client.calls) \cup ToSet(turn.given) : Replayable(c)
      /\ \A h \in ToSet(history) \cup ToSet(turn.history) : KeptFits(h)
      /\ turn.given # <<>> =>
            /\ ~turn.continues
            /\ turn.kinds = Kinds(turn.request, <<>>)
            /\ \A c \in ToSet(turn.given) : c.type = "custom_tool_call" =>
                  c.name \in DOMAIN turn.kinds /\ turn.kinds[c.name] = "custom"
  BY DEF CallsInv
<1>2. setting' = setting => Wrappable' = Wrappable
  BY DEF Wrappable, custom_tool_names, keep_raw_custom
<1>3. ToSet(<<>>) = {}
  BY DEF ToSet
\* What the turn replays, and what it was read for, stay.
<1>4. ASSUME setting' = setting, turn'.names \subseteq Wrappable,
             registry' # None => registry'.custom_names \subseteq Wrappable,
             client'.calls = client.calls, history' = history,
             \A h \in ToSet(turn'.history) : KeptFits(h),
             (SameTurn /\ turn'.given = turn.given) \/ turn'.given = <<>>
      PROVE  CallsInv'
  <2>1. Wrappable' = Wrappable
    BY <1>2, <1>4
  <2>2. \A c : Replayable(c)' <=> Replayable(c)
    BY <2>1
  <2>3. \A c \in ToSet(client'.calls) \cup ToSet(turn'.given) : Replayable(c)'
    BY <1>1, <1>3, <1>4, <2>2
  <2>4. \A h \in ToSet(history') \cup ToSet(turn'.history) : KeptFits(h)
    BY <1>1, <1>4
  <2>5. turn'.given # <<>> =>
            /\ ~turn'.continues
            /\ turn'.kinds = Kinds(turn'.request, <<>>)
            /\ \A c \in ToSet(turn'.given) : c.type = "custom_tool_call" =>
                  c.name \in DOMAIN turn'.kinds /\ turn'.kinds[c.name] = "custom"
    BY <1>1, <1>4 DEF SameTurn
  <2> QED BY <1>4, <2>1, <2>3, <2>4, <2>5 DEF CallsInv
<1>5. ASSUME NEW mode \in Mode, Begin(mode) PROVE CallsInv'
  <2>1. /\ UNCHANGED <<client, history, registry, offered, setting>>
        /\ turn'.names = {} /\ turn'.history = <<>>
    BY <1>5, BeginDoes
  <2>2. PICK continues \in BOOLEAN :
          /\ turn'.continues = continues
          /\ turn'.kinds = Kinds(turn'.request, IF continues THEN client.kinds ELSE <<>>)
          /\ turn'.given = IF continues THEN <<>> ELSE client.calls
          /\ continues \/ \A call \in ToSet(client.calls) : call.type = "custom_tool_call" =>
                call.name \in DOMAIN turn'.kinds /\ turn'.kinds[call.name] = "custom"
    BY <1>5, BeginDoes
  <2>3. Wrappable' = Wrappable
    BY <1>2, <2>1
  <2>4. \A c : Replayable(c)' <=> Replayable(c)
    BY <2>3
  <2>5. \A c \in ToSet(client'.calls) \cup ToSet(turn'.given) : Replayable(c)'
    BY <1>1, <1>3, <2>1, <2>2, <2>4
  <2>6. \A h \in ToSet(history') \cup ToSet(turn'.history) : KeptFits(h)
    BY <1>1, <1>3, <2>1
  <2>7. turn'.given # <<>> =>
            /\ ~turn'.continues
            /\ turn'.kinds = Kinds(turn'.request, <<>>)
            /\ \A c \in ToSet(turn'.given) : c.type = "custom_tool_call" =>
                  c.name \in DOMAIN turn'.kinds /\ turn'.kinds[c.name] = "custom"
    BY <2>2
  <2> QED BY <1>1, <2>1, <2>3, <2>5, <2>6, <2>7 DEF CallsInv
<1>6. CASE ResolveNames
  <2>1. /\ turn'.names = resolve_custom_tool_names /\ SameTurn /\ turn'.given = turn.given
        /\ turn'.history = turn.history /\ UNCHANGED <<client, history, setting>>
        /\ registry' = registry \/ registry' = None
    BY <1>6, ResolveNamesDoes
  <2> QED BY <1>1, <1>4, <2>1, ResolvesWrappable
<1>7. CASE WrapReplayed
  <2>1. /\ turn'.given = <<>> /\ turn'.names = turn.names /\ UNCHANGED <<client, history, setting>>
        /\ turn'.history = IF turn.continues THEN history
                           ELSE [i \in DOMAIN turn.given |-> Replayed(turn.given[i], resolve_custom_tool_names)]
        /\ registry' = registry \/ registry' = None
    BY <1>7, WrapReplayedDoes
  <2>2. ASSUME ~turn.continues, NEW c \in ToSet(turn.given)
        PROVE  KeptFits(Replayed(c, resolve_custom_tool_names))
    <3>1. resolve_custom_tool_names = custom_tool_names(turn.request)
      BY <2>2 DEF resolve_custom_tool_names, AsksForNames
    <3>2. turn.request \in Requests /\ turn.given # <<>>
      BY <1>3, <2>2 DEF Typed, Turn
    <3>3. ASSUME c.said = "wrapped", c.type = "custom_tool_call" PROVE c.name \in custom_tool_names(turn.request)
      <4>1. c.name \in Wrappable
        BY <1>1, <2>2, <3>3
      <4>2. /\ c.name \in DOMAIN Kinds(turn.request, <<>>)
            /\ Kinds(turn.request, <<>>)[c.name] = "custom"
        BY <1>1, <2>2, <3>2, <3>3
      <4>3. [name |-> c.name, kind |-> "custom"] \in DeclaredBy(turn.request)
        <5>1. \A n \in DOMAIN Kinds(turn.request, <<>>) :
                 \/ [name |-> n, kind |-> Kinds(turn.request, <<>>)[n]] \in DeclaredBy(turn.request)
                 \/ n \in DOMAIN <<>> /\ Kinds(turn.request, <<>>)[n] = <<>>[n]
          BY <3>2, NoKinds, KindsAre
        <5>2. DOMAIN <<>> = {}
          OBVIOUS
        <5> QED BY <4>2, <5>1, <5>2, Zenon
      <4> QED BY <3>2, <4>1, <4>3, DeclaredAsWrapped
    <3>4. c.said = "wrapped" /\ c.type # "custom_tool_call" => c.arguments = "wrapped"
      BY <1>1, <2>2
    <3> QED BY <3>1, <3>3, <3>4 DEF Replayed
  <2>3. \A h \in ToSet(turn'.history) : KeptFits(h)
    <3>1. CASE turn.continues
      BY <1>1, <2>1, <3>1
    <3>2. CASE ~turn.continues
      <4>1. \A h \in ToSet(turn'.history) : \E c \in ToSet(turn.given) :
               h = Replayed(c, resolve_custom_tool_names)
        BY <2>1, <3>2 DEF ToSet
      <4> QED BY <2>2, <3>2, <4>1
    <3> QED BY <3>1, <3>2
  <2> QED BY <1>1, <1>4, <2>1, <2>3
<1>8. CASE OfferTools
  <2>1. /\ turn'.names = turn.names /\ SameTurn /\ turn'.given = turn.given
        /\ turn'.history = turn.history /\ UNCHANGED <<client, history, setting>>
        /\ registry' = registry \/ registry' = None
    BY <1>8, OfferToolsDoes
  <2> QED BY <1>1, <1>4, <2>1
<1>9. CASE Reply
  <2>1. /\ turn'.names = turn.names /\ SameTurn /\ turn'.given = turn.given
        /\ turn'.history = turn.history /\ UNCHANGED <<client, history, registry, setting>>
    BY <1>9, ReplyDoes
  <2> QED BY <1>1, <1>4, <2>1
<1>10. CASE PutTools
  <2>1. /\ turn'.names = turn.names /\ SameTurn /\ turn'.given = turn.given
        /\ turn'.history = turn.history /\ UNCHANGED <<client, history, setting>> /\ registry' = put_tools
    BY <1>10, PutToolsDoes
  <2>2. registry' # None => registry'.custom_names = turn.names
    BY <2>1 DEF put_tools
  <2> QED BY <1>1, <1>4, <2>1, <2>2
<1>11. CASE Put
  <2> DEFINE g == [type |-> turn.shown.type, name |-> turn.shown.name,
                   arguments |-> turn.shown.arguments, said |-> turn.call.arguments]
             k == Kept(turn, turn.call)
  <2>1. /\ turn' = NoTurn /\ setting' = setting
        /\ registry' = IF turn.mode = "background" THEN None ELSE registry
        /\ history' = turn.history \o (IF turn.call = None THEN <<>> ELSE <<k>>)
        /\ client'.calls = IF turn.shown = None \/ turn.mode = "background" THEN client.calls
                           ELSE Append(client.calls, g)
    BY <1>11, PutDoes
  <2>2. /\ turn.history \in Seq(Past) /\ turn.call \in Call \cup {None} /\ client.calls \in Seq(Given)
        /\ turn.shown \in Item \cup {None}
        /\ turn.shown # None => turn.call # None
    BY DEF Typed, Turn, Client
  <2>3. turn.call # None => Replayable(g) /\ KeptFits(k)
    BY <1>1, ShownIsReplayable
  <2>4. /\ turn.call # None => k \in Past
        /\ turn.shown # None => g \in Given
    <3>1. turn \in Turn
      BY DEF Typed
    <3>2. turn.call # None => k \in Past
      BY <2>2, <3>1, KeptType
    <3>3. turn.shown # None => g \in Given
      BY <2>2 DEF Item, Call, Given
    <3> QED BY <3>2, <3>3
  <2> HIDE DEF g, k
  <2>5. Wrappable' = Wrappable
    BY <1>2, <2>1
  <2>6. \A c : Replayable(c)' <=> Replayable(c)
    BY <2>5
  <2>7. \A h \in ToSet(history') : KeptFits(h)
    <3>1. CASE turn.call = None
      <4>1. history' = turn.history
        BY <2>1, <2>2, <3>1
      <4> QED BY <1>1, <4>1
    <3>2. CASE turn.call # None
      <4>1. history' = turn.history \o <<k>> /\ <<k>> \in Seq(Past)
        BY <2>1, <2>4, <3>2
      <4>2. \A h : h \in ToSet(history') <=> h \in ToSet(turn.history) \/ h \in ToSet(<<k>>)
        BY <2>2, <4>1, RangeOfConcat
      <4>3. ToSet(<<k>>) = {k}
        BY RangeOfOne
      <4> QED BY <1>1, <2>3, <3>2, <4>2, <4>3
    <3> QED BY <3>1, <3>2
  <2>8. \A c \in ToSet(client'.calls) : Replayable(c)
    <3>1. CASE turn.shown = None \/ turn.mode = "background"
      BY <1>1, <2>1, <3>1
    <3>2. CASE ~(turn.shown = None \/ turn.mode = "background")
      <4>1. client'.calls = client.calls \o <<g>> /\ <<g>> \in Seq(Given)
        <5>1. g \in Given /\ client.calls \in Seq(Given) /\ client'.calls = Append(client.calls, g)
          BY <2>1, <2>2, <2>4, <3>2
        <5>2. ASSUME NEW s \in Seq(Given), NEW x \in Given PROVE Append(s, x) = s \o <<x>>
          OBVIOUS
        <5> QED BY <5>1, <5>2
      <4>2. \A c : c \in ToSet(client'.calls) <=> c \in ToSet(client.calls) \/ c \in ToSet(<<g>>)
        BY <2>2, <4>1, RangeOfConcat
      <4>3. ToSet(<<g>>) = {g}
        BY RangeOfOne
      <4> QED BY <1>1, <2>2, <2>3, <3>2, <4>2, <4>3
    <3> QED BY <3>1, <3>2
  <2>9. turn'.names = {} /\ turn'.given = <<>> /\ turn'.history = <<>>
    BY <2>1, NoTurnIs
  <2>10. \A c \in ToSet(client'.calls) \cup ToSet(turn'.given) : Replayable(c)'
    BY <1>3, <2>6, <2>8, <2>9
  <2>11. \A h \in ToSet(history') \cup ToSet(turn'.history) : KeptFits(h)
    BY <1>3, <2>7, <2>9
  <2> QED BY <1>1, <2>1, <2>5, <2>9, <2>10, <2>11 DEF CallsInv
<1>12. CASE Fail \/ Tick \/ sweep \/ Restart \/ UNCHANGED vars
  <2>1. /\ turn' = turn \/ turn' = NoTurn
        /\ UNCHANGED <<client, history, offered, setting>>
        /\ registry' # None => registry # None /\ registry'.custom_names = registry.custom_names
    BY <1>12, IdleSteps DEF Idle
  <2>2. CASE turn' = turn
    BY <1>1, <1>4, <2>1, <2>2 DEF SameTurn
  <2>3. CASE turn' = NoTurn
    BY <1>1, <1>3, <1>4, <2>1, <2>3, NoTurnIs
  <2> QED BY <2>1, <2>2, <2>3
<1> QED BY <1>5, <1>6, <1>7, <1>8, <1>9, <1>10, <1>11, <1>12 DEF Next

-----------------------------------------------------------------------------
(* A call comes back in the shape its tool was declared in                 *)

\* Whichever of its names and its tools a turn has from the registry, they agree.
LEMMA TogetherAgree ==
    ASSUME Coherent, "function" \in setting.allowed, NEW request \in Requests, NEW continues \in BOOLEAN,
           NEW before \in KindMap, NEW tools, NEW names,
           continues => \A n \in DOMAIN before : Kinds(request, before)[n] = before[n],
           LET asksTools == chat_tools(request) = <<>> /\ continues
               asksNames == custom_tool_names(request) = {} /\ continues
           IN  /\ asksTools /\ asksNames => Agree(tools, names, before)
               /\ asksNames => NamesFit(names, before)
               /\ ~asksNames => names = custom_tool_names(request)
               /\ ~asksTools => ToSet(tools) \subseteq ToSet(chat_tools(request))
    PROVE  Agree(tools, names, Kinds(request, before))
<1> DEFINE kinds == Kinds(request, before)
           own == custom_tool_names(request)
           all == chat_tools(request)
           asksTools == all = <<>> /\ continues
           asksNames == own = {} /\ continues
<1>1. /\ asksTools /\ asksNames => Agree(tools, names, before)
      /\ asksNames => NamesFit(names, before)
      /\ ~asksNames => names = own
      /\ ~asksTools => ToSet(tools) \subseteq ToSet(all)
  OBVIOUS
<1>2. continues => \A n \in DOMAIN before : n \in DOMAIN kinds /\ kinds[n] = before[n]
  <2>1. DOMAIN kinds = DOMAIN before \cup {d.name : d \in DeclaredBy(request)}
    BY KindsAre
  <2>2. continues => \A n \in DOMAIN before : kinds[n] = before[n]
    OBVIOUS
  <2> HIDE DEF kinds
  <2> QED BY <2>1, <2>2
<1>3. Agree(all, own, kinds)
  BY OwnAgrees
<1>4. all = <<>> => own = {}
  BY NamesComeWithTools
<1> HIDE DEF kinds, own, all
<1>5. CASE asksTools /\ asksNames
  <2>1. Agree(tools, names, before)
    BY <1>1, <1>5
  <2>2. NamesFit(names, kinds) /\ ToolsFit(tools, kinds)
    BY <1>2, <1>5, <2>1, MoreKinds DEF Agree
  <2> QED BY <2>1, <2>2 DEF Agree, kinds
<1>6. CASE ~asksTools /\ ~asksNames
  BY <1>1, <1>3, <1>6, FewerAgree DEF kinds
\* Its own tools have no name among them that is shown as custom.
<1>7. CASE ~asksTools /\ asksNames
  <2>1. Agree(tools, {}, kinds)
    <3>1. own = {} /\ ToSet(tools) \subseteq ToSet(all)
      BY <1>1, <1>7
    <3> QED BY <1>3, <3>1, FewerAgree
  <2>2. NamesFit(names, kinds)
    BY <1>1, <1>2, <1>7, MoreKinds
  <2> QED BY <2>1, <2>2 DEF Agree, Named, kinds
<1>8. CASE asksTools /\ ~asksNames
  BY <1>4, <1>8
<1> QED BY <1>5, <1>6, <1>7, <1>8

LEMMA InitShapes == Init => ShapesInv
BY NoTurnIs DEF Init, ShapesInv, EntryAgrees, NamesAreRead, ToolsAreRead, BothAgree, HasNames, HasTools

LEMMA StepShapes ==
    Coherent /\ FunctionsPass /\ ~Redeclares =>
        (Typed /\ ToolsInv /\ ShapesInv /\ [Next]_vars => ShapesInv')
<1> SUFFICES ASSUME Coherent, FunctionsPass, ~Redeclares, Typed, ToolsInv, ShapesInv, [Next]_vars
             PROVE  ShapesInv'
  OBVIOUS
<1>1. /\ EntryAgrees /\ (turn.pc # "over" => TurnIsRead)
      /\ NamesAreRead /\ ToolsAreRead /\ BothAgree
  BY DEF ShapesInv
<1>2. /\ turn.request \in Requests /\ turn.tools \in Seq(ChatTool) /\ turn.lost \in BOOLEAN
      /\ offered \in Seq(ChatTool) /\ turn.mode \in Mode /\ turn.continues \in BOOLEAN
      /\ setting \in Settings /\ "function" \in setting.allowed
  BY DEF Typed, Turn, FunctionsPass
<1>3. /\ turn.pc = "put_tools" => turn.mode # "background"
      /\ registry # None => registry.tools = IF PutsEntry THEN turn.tools ELSE offered
      /\ HasTools => IF AsksForTools THEN ~turn.lost => turn.tools = offered
                     ELSE turn.tools = enforce_tool_budget(chat_tools(turn.request))
  BY DEF ToolsInv
<1>4. chat_tools(turn.request) \in Seq(ChatTool)
  BY <1>2, RequestOffers
\* A step of the turn, before it puts.
<1>5. ASSUME SameTurn, turn.pc # "over", UNCHANGED <<client, setting>>, ~PutsEntry, ~PutsEntry',
             registry' = registry \/ registry' = None
      PROVE  EntryAgrees' /\ TurnIsRead'
  <2>1. EntryAgrees'
    BY <1>1, <1>5 DEF EntryAgrees
  <2>2. TurnIsRead'
    BY <1>1, <1>5 DEF TurnIsRead, SameTurn
  <2> QED BY <2>1, <2>2
\* What it has read, stays.
<1>6. ASSUME SameTurn, UNCHANGED <<client, setting>>, HasNames' => HasNames, turn'.names = turn.names,
             turn.lost => turn'.lost,
             registry' # None => registry # None /\ registry'.custom_names = registry.custom_names,
             PutsEntry => PutsEntry'
      PROVE  NamesAreRead'
  BY <1>1, <1>6, SameAsks DEF NamesAreRead
<1>7. ASSUME SameTurn, UNCHANGED <<client, setting>>, HasTools' => HasTools, turn'.tools = turn.tools,
             turn.lost => turn'.lost
      PROVE  ToolsAreRead'
  BY <1>1, <1>7, SameAsks DEF ToolsAreRead
<1>8. ASSUME SameTurn, HasTools' => HasTools, HasNames' => HasNames, turn'.tools = turn.tools,
             turn'.names = turn.names, turn.lost => turn'.lost
      PROVE  BothAgree'
  BY <1>1, <1>8 DEF BothAgree, SameTurn
\* The turn has not begun to read, or is over.
<1>9. ASSUME ~HasTools', ~HasNames', EntryAgrees', turn'.pc # "over" => TurnIsRead' PROVE ShapesInv'
  BY <1>9 DEF ShapesInv, NamesAreRead, ToolsAreRead, BothAgree
<1>10. ASSUME NEW mode \in Mode, Begin(mode) PROVE ShapesInv'
  <2>1. /\ turn.pc = "over" /\ UNCHANGED <<client, history, registry, offered, setting>>
        /\ turn'.pc = (IF mode \in Socket THEN "names" ELSE "convert") /\ turn'.mode = mode
        /\ turn'.request \in Requests
    BY <1>10, BeginDoes
  <2>2. PICK continues \in BOOLEAN :
          LET before == IF continues THEN client.kinds ELSE <<>> IN
          /\ turn'.continues = continues
          /\ before \in KindMap
          /\ turn'.kinds = Kinds(turn'.request, before)
          /\ Redeclares \/ \A n \in DOMAIN turn'.kinds \cap DOMAIN client.kinds :
                              turn'.kinds[n] = client.kinds[n]
    BY <1>10, BeginDoes
  <2> DEFINE before == IF continues THEN client.kinds ELSE <<>>
  <2>3. ~HasTools' /\ ~HasNames' /\ ~PutsEntry /\ ~PutsEntry'
    BY <2>1 DEF HasTools, HasNames, PutsEntry
  <2>4. EntryAgrees'
    BY <1>1, <2>1, <2>3 DEF EntryAgrees
  <2>5. TurnIsRead'
    <3> DEFINE request == turn'.request
               kinds == turn'.kinds
    <3>1. before \in KindMap /\ request \in Requests /\ kinds = Kinds(request, before)
      BY <2>1, <2>2
    <3>2. turn'.continues => before = client.kinds
      BY <2>2
    <3>3. \A n \in DOMAIN kinds \cap DOMAIN client.kinds : kinds[n] = client.kinds[n]
      BY <2>2
    <3> HIDE DEF before, request, kinds
    <3>4. DOMAIN Kinds(request, before) = DOMAIN before \cup {d.name : d \in DeclaredBy(request)}
      BY <3>1, KindsAre, Zenon
    <3>5. DOMAIN before \subseteq DOMAIN kinds
      BY <3>1, <3>4
    <3>6. turn'.continues => \A n \in DOMAIN before : kinds[n] = before[n]
      BY <3>2, <3>3, <3>5
    <3>7. \E b \in KindMap :
             /\ kinds = Kinds(request, b)
             /\ turn'.continues => b = client.kinds /\ \A n \in DOMAIN b : kinds[n] = b[n]
      BY <3>1, <3>2, <3>6, Zenon
    <3>8. client' = client
      BY <2>1
    <3> QED BY <3>7, <3>8, Zenon DEF TurnIsRead, request, kinds
  <2> QED BY <1>9, <2>3, <2>4, <2>5
<1>11. CASE ResolveNames
  <2>1. /\ turn.pc = "names" /\ turn'.pc = (IF turn.mode \in Socket THEN "convert" ELSE "upstream")
        /\ turn'.names = resolve_custom_tool_names /\ turn'.lost = Lost(AsksForNames)
        /\ SameTurn /\ turn'.tools = turn.tools /\ UNCHANGED <<client, offered, setting>>
        /\ registry' = registry \/ registry' = None
    BY <1>11, ResolveNamesDoes
  <2>2. ~PutsEntry /\ ~PutsEntry' /\ (HasTools' => HasTools)
    BY <2>1 DEF HasTools, PutsEntry
  <2>3. /\ turn.lost => turn'.lost
        /\ AsksForNames /\ ~turn'.lost => Found /\ ~client.lost /\ registry # None
    BY <2>1, LostIs, AsksType
  <2>4. IF AsksForNames /\ Found THEN turn'.names = registry.custom_names
        ELSE turn'.names = custom_tool_names(turn.request)
    BY <2>1 DEF resolve_custom_tool_names
  <2>5. AsksForNames /\ ~turn'.lost =>
           Agree(registry.tools, registry.custom_names, client.kinds)
    BY <1>1, <2>2, <2>3 DEF EntryAgrees
  <2>6. NamesAreRead'
    <3>1. ASSUME ~turn'.lost, AsksForNames
          PROVE  /\ ~client.lost /\ NamesFit(turn'.names, client.kinds)
                 /\ registry' # None => turn'.names = registry'.custom_names
      BY <2>1, <2>3, <2>4, <2>5, <3>1 DEF Agree
    <3>2. ASSUME ~AsksForNames PROVE turn'.names = custom_tool_names(turn.request)
      BY <2>4, <3>2
    <3> QED BY <2>1, <3>1, <3>2, SameAsks DEF NamesAreRead
  <2>7. ToolsAreRead'
    BY <1>7, <2>1, <2>2, <2>3
  <2>8. BothAgree'
    <3> SUFFICES ASSUME HasTools', ~turn'.lost
                 PROVE  Agree(turn.tools, turn'.names, turn.kinds)
      BY <2>1 DEF BothAgree, SameTurn
    <3>1. PICK before \in KindMap :
            /\ turn.kinds = Kinds(turn.request, before)
            /\ turn.continues => before = client.kinds /\ \A n \in DOMAIN before : turn.kinds[n] = before[n]
      BY <1>1, <2>1 DEF TurnIsRead
    <3>2. /\ AsksForNames <=> custom_tool_names(turn.request) = {} /\ turn.continues
          /\ AsksForTools <=> chat_tools(turn.request) = <<>> /\ turn.continues
      BY DEF AsksForNames, AsksForTools
    <3>3. AsksForTools /\ AsksForNames => Agree(turn.tools, turn'.names, before)
      BY <1>3, <2>2, <2>3, <2>4, <2>5, <3>1, <3>2
    <3>4. AsksForNames => NamesFit(turn'.names, before)
      BY <2>3, <2>4, <2>5, <3>1, <3>2 DEF Agree
    <3>5. ~AsksForNames => turn'.names = custom_tool_names(turn.request)
      BY <2>4
    <3>6. ~AsksForTools => ToSet(turn.tools) \subseteq ToSet(chat_tools(turn.request))
      BY <1>2, <1>3, <1>4, <2>2, BudgetIs
    <3>7. Agree(turn.tools, turn'.names, Kinds(turn.request, before))
      BY <1>2, <3>1, <3>2, <3>3, <3>4, <3>5, <3>6, TogetherAgree
    <3> QED BY <3>1, <3>7
  <2>9. EntryAgrees' /\ TurnIsRead'
    BY <1>5, <2>1, <2>2
  <2> QED BY <2>6, <2>7, <2>8, <2>9 DEF ShapesInv
<1>12. CASE WrapReplayed
  <2>1. /\ turn.pc = "convert" /\ turn'.pc = "tools" /\ turn'.lost = Lost(AsksForNames)
        /\ SameTurn /\ turn'.names = turn.names /\ turn'.tools = turn.tools
        /\ UNCHANGED <<client, offered, setting>>
        /\ registry' = registry \/ registry' = None
    BY <1>12, WrapReplayedDoes
  <2>2. ~PutsEntry /\ ~PutsEntry' /\ ~HasTools' /\ (HasNames' => HasNames)
    BY <2>1 DEF HasTools, HasNames, PutsEntry, SameTurn
  <2>3. turn.lost => turn'.lost
    BY <2>1, LostIs, AsksType
  <2>4. NamesAreRead' /\ ToolsAreRead' /\ BothAgree'
    BY <1>6, <1>7, <1>8, <2>1, <2>2, <2>3
  <2>5. EntryAgrees' /\ TurnIsRead'
    BY <1>5, <2>1, <2>2
  <2> QED BY <2>4, <2>5 DEF ShapesInv
<1>13. CASE OfferTools
  <2> DEFINE tools == IF AsksForTools /\ Found THEN registry.tools ELSE chat_tools(turn.request)
  <2>1. /\ turn.pc = "tools"
        /\ turn'.pc = CASE turn.mode = "warmup" -> "put_tools" [] turn.mode = "ws" -> "upstream" [] OTHER -> "names"
        /\ turn'.tools = enforce_tool_budget(tools)
        /\ turn'.lost = Lost(AsksForTools)
        /\ SameTurn /\ turn'.names = turn.names
        /\ UNCHANGED <<client, offered, setting>>
        /\ registry' = registry \/ registry' = None
    BY <1>13, OfferToolsDoes
  <2>2. ~PutsEntry /\ ~PutsEntry' /\ (HasNames' => HasNames)
    BY <1>2, <2>1 DEF HasNames, PutsEntry, SameTurn, Mode, Socket
  <2>3. /\ turn.lost => turn'.lost
        /\ AsksForTools /\ ~turn'.lost => Found /\ ~client.lost /\ registry # None
    BY <2>1, LostIs, AsksType
  <2>4. AsksForTools /\ ~turn'.lost =>
           Agree(registry.tools, registry.custom_names, client.kinds)
    BY <1>1, <2>2, <2>3 DEF EntryAgrees
  <2>5. tools \in Seq(ChatTool)
    <3>1. AsksForTools /\ Found => registry # None
      BY DEF Found, Fresh
    <3> QED BY <1>4, <3>1, RegistryType
  <2>6. IF AsksForTools THEN ~turn'.lost => tools = registry.tools
        ELSE tools = chat_tools(turn.request)
    BY <2>3
  <2> HIDE DEF tools
  <2>7. ToSet(turn'.tools) \subseteq ToSet(tools)
    BY <1>2, <2>1, <2>5, BudgetIs
  <2>8. NamesAreRead'
    BY <1>6, <2>1, <2>2, <2>3
  <2>9. ToolsAreRead'
    <3>1. ASSUME ~turn'.lost, AsksForTools PROVE ~client.lost /\ ToolsFit(turn'.tools, client.kinds)
      BY <2>3, <2>4, <2>6, <2>7, <3>1 DEF Agree, ToolsFit
    <3> QED BY <2>1, <3>1, SameAsks DEF ToolsAreRead
  <2>10. BothAgree'
    <3> SUFFICES ASSUME HasNames, ~turn'.lost
                 PROVE  Agree(turn'.tools, turn.names, turn.kinds)
      BY <2>1, <2>2 DEF BothAgree, SameTurn
    <3>1. PICK before \in KindMap :
            /\ turn.kinds = Kinds(turn.request, before)
            /\ turn.continues => before = client.kinds /\ \A n \in DOMAIN before : turn.kinds[n] = before[n]
      BY <1>1, <2>1 DEF TurnIsRead
    <3>2. /\ AsksForNames <=> custom_tool_names(turn.request) = {} /\ turn.continues
          /\ AsksForTools <=> chat_tools(turn.request) = <<>> /\ turn.continues
      BY DEF AsksForNames, AsksForTools
    <3>3. ~turn.lost
      BY <2>3
    <3>4. AsksForNames => /\ NamesFit(turn.names, before)
                          /\ registry # None => turn.names = registry.custom_names
      BY <1>1, <2>2, <3>1, <3>2, <3>3 DEF NamesAreRead
    <3>5. ~AsksForNames => turn.names = custom_tool_names(turn.request)
      BY <1>1, <3>3 DEF NamesAreRead
    <3>6. AsksForTools /\ AsksForNames => Agree(turn'.tools, turn.names, before)
      <4>1. ASSUME AsksForTools, AsksForNames PROVE Agree(tools, turn.names, before)
        BY <2>3, <2>4, <2>6, <3>1, <3>2, <3>4, <4>1
      <4> QED BY <2>7, <4>1, FewerAgree
    <3>7. ~AsksForTools => ToSet(turn'.tools) \subseteq ToSet(chat_tools(turn.request))
      BY <2>6, <2>7
    <3>8. Agree(turn'.tools, turn.names, Kinds(turn.request, before))
      BY <1>2, <3>1, <3>2, <3>4, <3>5, <3>6, <3>7, TogetherAgree
    <3> QED BY <3>1, <3>8
  <2>11. EntryAgrees' /\ TurnIsRead'
    BY <1>5, <2>1, <2>2
  <2> QED BY <2>8, <2>9, <2>10, <2>11 DEF ShapesInv
<1>14. CASE Reply
  <2>1. /\ turn.pc = "upstream" /\ turn'.pc = (IF turn.mode = "background" THEN "put" ELSE "put_tools")
        /\ SameTurn /\ turn'.names = turn.names /\ turn'.tools = turn.tools /\ turn'.lost = turn.lost
        /\ UNCHANGED <<client, registry, offered, setting>>
    BY <1>14, ReplyDoes
  <2>2. HasTools /\ HasNames /\ ~PutsEntry /\ ~PutsEntry'
    BY <2>1 DEF HasTools, HasNames, PutsEntry, SameTurn
  <2>3. NamesAreRead' /\ ToolsAreRead' /\ BothAgree'
    BY <1>6, <1>7, <1>8, <2>1, <2>2
  <2>4. EntryAgrees' /\ TurnIsRead'
    BY <1>5, <2>1, <2>2
  <2> QED BY <2>3, <2>4 DEF ShapesInv
<1>15. CASE PutTools
  <2>1. /\ turn.pc = "put_tools" /\ turn'.pc = "put" /\ registry' = put_tools
        /\ SameTurn /\ turn'.names = turn.names /\ turn'.tools = turn.tools /\ turn'.lost = turn.lost
        /\ UNCHANGED <<client, offered, setting>>
    BY <1>15, PutToolsDoes
  <2>2. HasTools /\ HasNames /\ PutsEntry'
    BY <1>3, <2>1 DEF HasTools, HasNames, PutsEntry, SameTurn
  <2>3. registry' # None => registry'.tools = turn.tools /\ registry'.custom_names = turn.names
    BY <2>1 DEF put_tools
  <2>4. EntryAgrees'
    BY <1>1, <2>1, <2>2, <2>3 DEF EntryAgrees, BothAgree, SameTurn
  <2>5. TurnIsRead'
    BY <1>1, <2>1 DEF TurnIsRead, SameTurn
  <2>6. NamesAreRead'
    <3>1. IF AsksForNames THEN ~turn.lost => ~client.lost /\ NamesFit(turn.names, client.kinds)
          ELSE ~turn.lost => turn.names = custom_tool_names(turn.request)
      BY <1>1, <2>2 DEF NamesAreRead
    <3> QED BY <2>1, <2>2, <3>1, SameAsks DEF NamesAreRead
  <2>7. ToolsAreRead' /\ BothAgree'
    BY <1>7, <1>8, <2>1, <2>2
  <2> QED BY <2>4, <2>5, <2>6, <2>7 DEF ShapesInv
<1>16. CASE Put
  <2>1. /\ turn.pc = "put" /\ turn' = NoTurn /\ setting' = setting
        /\ registry' = IF turn.mode = "background" THEN None ELSE registry
        /\ client'.lost = turn.lost
        /\ client'.kinds = IF turn.mode = "background" THEN <<>> ELSE turn.kinds
    BY <1>16, PutDoes
  <2>2. ~HasTools' /\ ~HasNames' /\ ~PutsEntry' /\ turn'.pc = "over"
    BY <2>1, NoTurnIs DEF HasTools, HasNames, PutsEntry
  <2>3. EntryAgrees'
    BY <1>1, <2>1, <2>2 DEF EntryAgrees, PutsEntry
  <2> QED BY <1>9, <2>2, <2>3
<1>17. CASE Fail \/ Tick \/ sweep \/ Restart \/ UNCHANGED vars
  <2>1. /\ turn' = turn \/ turn' = NoTurn
        /\ UNCHANGED <<client, history, offered, setting>>
        /\ registry' # None => /\ registry # None
                               /\ registry'.tools = registry.tools
                               /\ registry'.custom_names = registry.custom_names
                               /\ turn' = turn \/ turn.pc # "put"
    BY <1>17, IdleSteps DEF Idle
  <2>2. CASE turn' = turn
    <3>1. /\ SameTurn /\ (HasTools' => HasTools) /\ (HasNames' => HasNames) /\ (PutsEntry' <=> PutsEntry)
          /\ turn'.names = turn.names /\ turn'.tools = turn.tools /\ turn'.lost = turn.lost
      BY <2>2 DEF SameTurn, HasTools, HasNames, PutsEntry
    <3>2. NamesAreRead' /\ ToolsAreRead' /\ BothAgree'
      BY <1>6, <1>7, <1>8, <2>1, <3>1
    <3>3. EntryAgrees'
      BY <1>1, <2>1, <2>2, <3>1 DEF EntryAgrees
    <3>4. turn'.pc # "over" => TurnIsRead'
      BY <1>1, <2>1, <2>2 DEF TurnIsRead
    <3> QED BY <3>2, <3>3, <3>4 DEF ShapesInv
  <2>3. CASE turn' # turn
    <3>1. ~HasTools' /\ ~HasNames' /\ ~PutsEntry' /\ turn'.pc = "over"
      BY <2>1, <2>3, NoTurnIs DEF HasTools, HasNames, PutsEntry
    <3>2. registry' # None => ~PutsEntry
      BY <2>1, <2>3 DEF PutsEntry
    <3>3. EntryAgrees'
      BY <1>1, <2>1, <3>1, <3>2 DEF EntryAgrees
    <3> QED BY <1>9, <3>1, <3>3
  <2> QED BY <2>2, <2>3
<1> QED BY <1>10, <1>11, <1>12, <1>13, <1>14, <1>15, <1>16, <1>17 DEF Next

-----------------------------------------------------------------------------
(* The theorems                                                            *)

LEMMA TypedHolds == Spec => []Typed
BY InitTyped, StepTyped, PTL DEF Spec

\* Every request, entry and call of a conversation has its type; an entry of the
\* registry holds something and leaves it once it is too old; and of tool_choice
\* only what Chat has reaches the upstream.
THEOREM TypeCorrect == Spec => []TypeOK
<1>1. Typed => TypeOK
  <2> SUFFICES ASSUME Typed PROVE TypeOK
    OBVIOUS
  <2>1. registry # None => registry.age \in 0..(TTL + 1)
    BY RegistryType
  <2> QED BY <2>1 DEF Typed, Turn, Client, Choice, TypeOK
<1> QED BY <1>1, TypedHolds, PTL

LEMMA ToolsHold == Spec => [](Typed /\ ToolsInv)
<1>1. Init => Typed /\ ToolsInv
  BY InitTyped, InitTools
<1>2. Typed /\ ToolsInv /\ [Next]_vars => (Typed /\ ToolsInv)'
  BY StepTyped, StepTools
<1> QED BY <1>1, <1>2, PTL DEF Spec

\* What the upstream is offered is what the client can execute of the turn's own
\* tools, in the client's order and up to max-tools (tool_request_to_chat_tools,
\* enforce_tool_budget); a turn without tools is offered what the turn before was,
\* however many turns, expiries and restarts came between.
THEOREM ToolsCarryOver == Spec => []OfferedToolsCarryOver
<1>1. Typed /\ ToolsInv => OfferedToolsCarryOver
  <2> SUFFICES ASSUME Typed, ToolsInv, turn.pc = "upstream"
               PROVE  LET own == Executable(turn.request) IN
                      /\ own # <<>> =>
                            /\ Len(turn.tools) = IF setting.max_tools \in 1..Len(own)
                                                 THEN setting.max_tools ELSE Len(own)
                            /\ \A i \in DOMAIN turn.tools :
                                  /\ turn.tools[i].name = own[i].name
                                  /\ turn.tools[i].freeform <=> own[i].kind = "custom"
                      /\ own = <<>> /\ turn.continues /\ ~turn.lost => turn.tools = offered
    BY DEF OfferedToolsCarryOver
  <2> DEFINE own == Executable(turn.request)
             all == chat_tools(turn.request)
             names == custom_tool_names(turn.request)
  <2>1. turn.request \in Requests /\ setting \in Settings
    BY DEF Typed, Turn
  <2>2. all \in Seq(ChatTool) /\ own \in Seq(Saying) /\ Along(all, own, Offers(names))
    BY <2>1, RequestOffers
  <2>3. IF AsksForTools THEN ~turn.lost => turn.tools = offered
        ELSE turn.tools = enforce_tool_budget(all)
    BY DEF ToolsInv, HasTools
  <2>4. AsksForTools <=> all = <<>> /\ turn.continues
    BY DEF AsksForTools
  <2> DEFINE cut == enforce_tool_budget(all)
  <2>5. /\ cut \in Seq(ChatTool)
        /\ Len(cut) = IF setting.max_tools \in 1..Len(all) THEN setting.max_tools ELSE Len(all)
        /\ \A i \in 1..Len(cut) : cut[i] = all[i]
    BY <2>1, <2>2, BudgetIs
  <2> HIDE DEF own, all, names, cut
  <2>6. Len(all) = Len(own) /\ (own = <<>> <=> all = <<>>)
    BY <2>2 DEF Along
  <2>7. own = <<>> /\ turn.continues /\ ~turn.lost => turn.tools = offered
    BY <2>3, <2>4, <2>6
  <2>8. ASSUME own # <<>>
        PROVE  /\ Len(turn.tools) = IF setting.max_tools \in 1..Len(own) THEN setting.max_tools ELSE Len(own)
               /\ \A i \in DOMAIN turn.tools : /\ turn.tools[i].name = own[i].name
                                               /\ turn.tools[i].freeform <=> own[i].kind = "custom"
    <3>1. turn.tools = cut
      BY <2>3, <2>4, <2>6, <2>8 DEF cut
    <3>2. ASSUME NEW i \in 1..Len(cut)
          PROVE  cut[i].name = own[i].name /\ (cut[i].freeform <=> own[i].kind = "custom")
      <4>1. i \in 1..Len(all) /\ cut[i] = all[i]
        BY <2>1, <2>2, <2>5, CodeModeAssumption DEF CodeModeAssumption
      <4>2. <<all[i], own[i]>> \in Offers(names)
        BY <2>2, <4>1 DEF Along
      <4> QED BY <4>1, <4>2 DEF Offers
    <3>3. DOMAIN cut = 1..Len(cut)
      BY <2>5
    <3> QED BY <2>5, <2>6, <3>1, <3>2, <3>3
  <2> QED BY <2>7, <2>8 DEF own
<1> QED BY <1>1, ToolsHold, PTL

\* A call that a stream kept, or that the client replays, is in the shape that a
\* function with an input has its arguments in (resolve_custom_tool_names and
\* the wrapping of custom_tool_call items), whatever turns came between: provided
\* a name that is a top-level custom tool is a custom tool nowhere else.
THEOREM CallsAreKeptFitting == OnePlace => (Spec => []KeptCallsFit)
<1> SUFFICES ASSUME OnePlace PROVE Spec => []KeptCallsFit
  OBVIOUS
<1>1. Init => Typed /\ Called /\ CallsInv
  BY InitTyped, InitCalls, NoTurnIs DEF Called, Init
<1>2. Typed /\ Called /\ CallsInv /\ [Next]_vars => (Typed /\ Called /\ CallsInv)'
  BY StepTyped, StepCalled, StepCalls
<1>3. CallsInv => KeptCallsFit
  BY DEF CallsInv, KeptCallsFit, FitsIfKeptBy, KeptFits
<1> QED BY <1>1, <1>2, <1>3, PTL DEF Spec

\* What the client declared as custom comes back as custom_tool_call with the
\* text itself, and nothing else does, in every mode and in whatever turn, before
\* or now, it was declared: provided no request declares a name in two shapes,
\* nor a later one in another, and the allowlist lets functions pass.
THEOREM ShapesComeBack ==
    Coherent /\ FunctionsPass /\ ~Redeclares => (Spec => []CallsComeBackAsDeclared)
<1> SUFFICES ASSUME Coherent, FunctionsPass, ~Redeclares PROVE Spec => []CallsComeBackAsDeclared
  OBVIOUS
<1>1. Init => Typed /\ ToolsInv /\ Called /\ ShapesInv
  BY InitTyped, InitTools, InitShapes, NoTurnIs DEF Called, Init
<1>2. Typed /\ ToolsInv /\ Called /\ ShapesInv /\ [Next]_vars => (Typed /\ ToolsInv /\ Called /\ ShapesInv)'
  BY StepTyped, StepTools, StepCalled, StepShapes
<1>3. Typed /\ Called /\ ShapesInv => CallsComeBackAsDeclared
  <2> DEFINE call == turn.call
  <2> SUFFICES ASSUME Typed, Called, ShapesInv, call # None, ~turn.lost,
                      ~(call.type = "custom" /\ turn.mode \in Streams)
               PROVE  /\ turn.shown.name = call.name
                      /\ IF turn.kinds[call.name] = "custom"
                         THEN turn.shown.type = "custom_tool_call" /\ turn.shown.arguments = "raw"
                         ELSE turn.shown.type = "function_call" /\ turn.shown.arguments = call.arguments
    BY DEF CallsComeBackAsDeclared
  <2>1. /\ turn.pc \in {"put_tools", "put"} /\ call \in Calls(turn.tools)
        /\ turn.shown = Shown(turn, call)
    BY DEF Called
  <2>2. turn.tools \in Seq(ChatTool)
    BY DEF Typed, Turn
  <2>3. PICK c \in ToSet(turn.tools) :
           /\ c \in ChatTool /\ call.type = c.type /\ call.name = c.name /\ call.arguments \in Arguments(c)
    BY <2>1, <2>2, CallsAre
  <2>4. Agree(turn.tools, turn.names, turn.kinds)
    BY <2>1 DEF ShapesInv, BothAgree, HasTools, HasNames
  <2> HIDE DEF call
  <2>5. /\ c.freeform <=> turn.kinds[call.name] = "custom"
        /\ c.type = "function" /\ c.freeform => call.name \in turn.names
        /\ call.name \in turn.names => c.freeform
    BY <2>3, <2>4 DEF Agree, NamesFit, ToolsFit, Named
  <2>6. c.type \in {"function", "custom"} /\ (c.type = "custom" => c.freeform)
    BY <2>3 DEF ChatTool, Kind
  <2>7. CASE c.type = "custom"
    <3>1. call.arguments = "raw"
      BY <2>3, <2>7 DEF Arguments
    <3>2. /\ turn.shown.type = "custom_tool_call" /\ turn.shown.name = call.name
          /\ turn.shown.arguments = call.arguments
      <4>1. call.type = "custom" /\ ~(turn.mode \in Streams)
        BY <2>3, <2>7
      <4>2. Shown(turn, call) = [type |-> "custom_tool_call", name |-> call.name, arguments |-> call.arguments]
        BY <4>1 DEF Shown
      <4> QED BY <2>1, <4>2
    <3> QED BY <2>5, <2>6, <2>7, <3>1, <3>2
  <2>8. CASE c.type = "function" /\ c.freeform
    <3>1. unwrap_custom_input(call.arguments) = "raw"
      BY <2>3, <2>8 DEF Arguments, unwrap_custom_input
    <3>2. /\ turn.shown.type = "custom_tool_call" /\ turn.shown.name = call.name
          /\ turn.shown.arguments = unwrap_custom_input(call.arguments)
      BY <2>1, <2>3, <2>5, <2>8 DEF Shown
    <3> QED BY <2>5, <2>8, <3>1, <3>2
  <2>9. CASE c.type = "function" /\ ~c.freeform
    <3>1. /\ turn.shown.type = "function_call" /\ turn.shown.name = call.name
          /\ turn.shown.arguments = call.arguments
      BY <2>1, <2>3, <2>5, <2>9 DEF Shown
    <3> QED BY <2>5, <2>9, <3>1
  <2> QED BY <2>6, <2>7, <2>8, <2>9
<1> QED BY <1>1, <1>2, <1>3, PTL DEF Spec
=============================================================================
