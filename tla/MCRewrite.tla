----------------------------- MODULE MCRewrite ------------------------------
(***************************************************************************)
(* The configuration files and bodies Rewrite is checked with: the shipped *)
(* deepseek.config.yaml, files of one or two rules of every kind over      *)
(* small bodies, and files good and bad for the strictness at start.       *)
(***************************************************************************)
EXTENDS Rewrite

RenameRule(from, to) == [op |-> "rename", path |-> from, to |-> to]
RemoveRule(path) == [op |-> "remove", path |-> path]
ResetRule(path, value) == [op |-> "reset", path |-> path, value |-> value]
ReplaceRule(path, cases) == [op |-> "replace", path |-> path, cases |-> cases]
If(texts, set, with) == [condition |-> {[texts |-> texts]}, set |-> set, with |-> with]
IfValue(value, set, with) == [condition |-> {[value |-> value]}, set |-> set, with |-> with]
To(path, value) == [path |-> path, value |-> value]
StageOf(at, steps) == [at |-> at, steps |-> steps]
Stage(at, list) == StageOf(at, [i \in DOMAIN list |-> <<list[i]>>])
None == [kind |-> "none"]
Inline(profile) == [kind |-> "inline", profile |-> profile]
Ref(name) == [kind |-> "ref", name |-> name]

-----------------------------------------------------------------------------
(* deepseek.config.yaml                                                    *)

Thinking == <<"thinking", "type">>
ShippedSteps ==
    <<<<RenameRule(<<"max_completion_tokens">>, <<"max_tokens">>)>>,
      <<ReplaceRule(<<"messages", "*", "role">>, <<If({"developer"}, Scalar("system"), <<>>)>>),
        ReplaceRule(<<"reasoning_effort">>,
          <<If({"none"}, Missing, <<To(Thinking, Scalar("disabled"))>>),
            If({"high", "xhigh"}, Scalar("max"), <<To(Thinking, Scalar("enabled"))>>),
            If({"minimal", "low", "medium"}, Scalar("high"), <<To(Thinking, Scalar("enabled"))>>)>>),
        ReplaceRule(Thinking, <<If({"disabled"}, Missing, <<To(<<"reasoning_effort">>, Null)>>)>>),
        ReplaceRule(<<"response_format", "type">>,
          <<If({"json_schema"}, Scalar("json_object"), <<>>)>>)>>,
      <<RemoveRule(<<"store">>), RemoveRule(<<"response_format", "json_schema">>),
        RemoveRule(<<"stream_options", "include_obfuscation">>)>>>>

Shipped ==
    [models |-> [gpt |-> Ref("deepseek"), review |-> Ref("deepseek")],
     rewrites |-> [deepseek |-> <<StageOf("chat-out", ShippedSteps)>>]]

\* ReasoningEffort: those the profile has rules for, and the other two.
Efforts == {"none", "minimal", "low", "medium", "high", "xhigh"} \cup {"max", "ultra"}
Message(role) == Object([role |-> Scalar(role), content |-> Scalar("text")])
Optional(name, value) == IF value = Missing THEN NoFields ELSE name :> value
Chat(effort, format, roles) ==
    Object(   [messages |-> Array([i \in DOMAIN roles |-> Message(roles[i])])]
           @@ [max_completion_tokens |-> Scalar("n"), store |-> Scalar("false")]
           @@ [stream_options |-> Object([include_usage |-> Scalar("true"),
                                         include_obfuscation |-> Scalar("false")])]
           @@ Optional("reasoning_effort", effort) @@ Optional("response_format", format))

Formats == {Missing, Object([type |-> Scalar("text")]),
            Object([type |-> Scalar("json_schema"), json_schema |-> Scalar("schema")])}
ShippedBodies ==
    {Chat(e, f, r) : e \in {Scalar(n) : n \in Efforts} \cup {Missing}, f \in Formats,
                     r \in {<<"system", "user">>, <<"developer", "user", "developer">>}}

\* What the comments of deepseek.config.yaml (lines 33-40) say the provider
\* takes: no `developer`, of the efforts it has rules for only high and max,
\* with thinking said beside the effort and disabled with none, a plain JSON
\* format and the old name of the token limit; and no request is refused on the
\* way. The efforts it has no rule for, `max` and `ultra`, go on as they came,
\* and thinking is not said (see EffortIsAccepted).
ProviderDialect ==
    file.config = Shipped =>
        /\ phase # "failed"
        /\ phase = "rewriting" /\ done = Len(rules) =>
              LET was == get_path(received, <<"reasoning_effort">>)
                  now == get_path(body, <<"reasoning_effort">>)
                  format == get_path(body, <<"response_format", "type">>)
              IN  /\ \A m \in ToSet(get_path(body, <<"messages">>).elements) :
                        get_path(m, <<"role">>) \in {Scalar("system"), Scalar("user")}
                  /\ now = CASE was \in {Missing, Scalar("max"), Scalar("ultra")} -> was
                             [] was = Scalar("none") -> Null
                             [] was \in {Scalar("high"), Scalar("xhigh")} -> Scalar("max")
                             [] OTHER -> Scalar("high")
                  /\ get_path(body, Thinking) =
                        CASE was \in {Missing, Scalar("max"), Scalar("ultra")} -> Missing
                          [] was = Scalar("none") -> Scalar("disabled")
                          [] OTHER -> Scalar("enabled")
                  /\ format \in {Missing, Scalar("text"), Scalar("json_object")}
                  /\ ~Exists(body, <<"response_format", "json_schema">>)
                  /\ get_path(body, <<"max_tokens">>) = Scalar("n")
                  /\ ~Exists(body, <<"max_completion_tokens">>)

\* deepseek.config.yaml:43: "DeepSeek reasoning_effort only accepts high / max";
\* of `max` and `ultra`, config.rs:165: "a model routing them through Chat
\* Completions must clamp them via a rewrite". Both are advertised by default.
EffortIsAccepted ==
    file.config = Shipped /\ phase = "rewriting" /\ done = Len(rules) =>
        get_path(body, <<"reasoning_effort">>) \in
            {Missing, Null, Scalar("high"), Scalar("max")}

-----------------------------------------------------------------------------
(* Rules of every kind on small bodies                                     *)

Item(t) == Object([t |-> Scalar(t)])
Body1 ==
    Object([a |-> Array(<<Item("x"), Object([t |-> Scalar("y"), k |-> Scalar("x")]), Item("y")>>),
            b |-> Item("x"),
            n |-> Object(("1" :> Scalar("x")))])
Body2 ==
    Object([a |-> Array(<<Object([t |-> Array(<<Item("x"), Item("y"), Item("x")>>)]), Item("x"), Null>>),
            b |-> Scalar("y")])
SmallBodies == {Body1, Body2}

Paths == {<<"a">>, <<"a", "*">>, <<"a", "*", "t">>, <<"a", "*", "t", "*", "t">>, <<"a", "1">>,
          <<"a", "0", "t">>, <<"a", "3">>, <<"a", "t">>, <<"b", "t">>, <<"b", "new", "t">>, <<"n", "1">>}

ReplaceCases == {<<If({"x"}, Scalar("y"), <<>>), If({"y"}, Scalar("z"), <<>>)>>,
                 <<IfValue(Scalar("y"), Scalar("x"), <<To(<<"c", "t">>, Null)>>)>>,
                 <<If({"x"}, Null, <<To(<<"b">>, Scalar("x"))>>)>>}

Single == {RenameRule(p, q) : p, q \in Paths} \cup {RemoveRule(p) : p \in Paths}
              \cup {ResetRule(p, Item("z")) : p \in Paths}
              \cup {ReplaceRule(p, c) : p \in Paths, c \in ReplaceCases}
First == {RenameRule(<<"a">>, <<"b", "t">>), RenameRule(<<"a", "1">>, <<"c">>),
          RemoveRule(<<"a", "*">>), ResetRule(<<"a", "*">>, Item("x"))}
Second == {RenameRule(<<"b", "t">>, <<"a">>), RemoveRule(<<"b", "t">>), RemoveRule(<<"a", "*", "t">>),
           ResetRule(<<"a", "0", "t">>, Null), RenameRule(<<"c">>, <<"a", "*", "t">>)}

OneModel(profile) == [models |-> [m |-> Inline(profile)], rewrites |-> NoFields]
SmallFiles == {OneModel(<<Stage("chat-out", <<r>>)>>) : r \in Single}
                  \cup {OneModel(<<Stage("chat-in", <<r, s>>)>>) : r \in First, s \in Second}

-----------------------------------------------------------------------------
(* Files for the start                                                     *)

OneRule == <<RemoveRule(<<"b">>)>>
ProfileKinds ==
    {<<>>,
     <<Stage("chat-out", OneRule), Stage("response-out", OneRule \o OneRule)>>,
     <<Stage("chat-out", OneRule), Stage("chat-out", OneRule)>>,
     <<Stage("chat-out", <<>>)>>,
     <<StageOf("chat-out", <<<<>>>>)>>,
     <<StageOf("chat-out", <<<<>>>>), Stage("chat-out", OneRule)>>,
     <<Stage("chat", OneRule)>>,
     <<Stage("response-in", <<ReplaceRule(<<"b">>, <<If({"x"}, Scalar("y"), <<To(<<"b">>, Null)>>)>>)>>)>>,
     <<Stage("response-in", <<ReplaceRule(<<"b">>, <<If({"x"}, Null, <<To(<<"b">>, Null)>>)>>)>>)>>,
     <<Stage("response-in", <<ReplaceRule(<<"b">>, <<If({"x"}, Null, <<>>)>>)>>)>>}
Entries == {None, Ref("p"), Ref("q")} \cup {Inline(p) : p \in ProfileKinds}
NamedProfiles ==
    {NoFields} \cup {[p |-> x] : x \in ProfileKinds} \cup {[p |-> x, q |-> <<>>] : x \in ProfileKinds}
StartFiles ==
    {[models |-> NoFields, rewrites |-> NoFields]}
        \cup {[models |-> [m |-> e, n |-> f], rewrites |-> r] :
                 e \in Entries, f \in {None, Ref("p"), Ref("q")}, r \in NamedProfiles}

MCCases ==
    {[config |-> Shipped, bodies |-> ShippedBodies]}
        \cup {[config |-> c, bodies |-> SmallBodies] : c \in SmallFiles}
        \cup {[config |-> c, bodies |-> {}] : c \in StartFiles}
=============================================================================
