------------------------------ MODULE Rewrite -------------------------------
(***************************************************************************)
(* src/config.rs and src/rewrite.rs together: a configuration file is      *)
(* parsed and resolved, or refused, at start, and the profile of a model   *)
(* rewrites the bodies of its requests, one rule at a time.                *)
(***************************************************************************)
EXTENDS JsonRewrite

CONSTANTS
    Cases     \* configuration files, each with the bodies that are sent through it

Stages == {"response-in", "chat-out", "chat-in", "response-out"}

VARIABLES
    file,       \* a configuration file and the bodies of this run
    phase,      \* "reading" and "resolving" the file, "refused" (the program exits),
                \* "serving", "rewriting" a body, "failed" (the body's request, or its stream)
    pending,    \* models whose entry is still to be resolved
    resolved,   \* the profile of each model, its steps by stage
    used,       \* used_rewrites
    received,   \* the body a stage was given
    body,       \* the body as rewritten so far
    rules,      \* the rules it is rewritten by
    done        \* how many of them have been applied

startup == <<pending, resolved, used>>
request == <<received, body, rules, done>>
vars == <<file, phase, startup, request>>

Config == file.config
Models == DOMAIN Config.models
NoSteps == [s \in Stages |-> <<>>]

-----------------------------------------------------------------------------
(* Reading a file. Its models have each an entry: no rewrite, a profile, or *)
(* the name of one of its named profiles. A profile is a sequence of        *)
(* stages, a stage a name and steps, a step the rules under one key of the  *)
(* file (`remove`, say), and there may be none; a replace rule is a         *)
(* sequence of cases.                                                       *)

\* `set: null` reads as no `set`: the field is an Option.
SetOf(c) == IF c.set = Null THEN Missing ELSE c.set

\* ReplaceRule: a case must contain set or with.
ReadsAsCase(c) == SetOf(c) # Missing \/ c.with # <<>>
ReadCase(c) == [c EXCEPT !.set = SetOf(c)]

ReadsAsRule(rule) == rule.op = "replace" => \A c \in ToSet(rule.cases) : ReadsAsCase(c)
ReadRule(rule) ==
    IF rule.op = "replace"
    THEN [rule EXCEPT !.cases = [i \in DOMAIN rule.cases |-> ReadCase(rule.cases[i])]]
    ELSE rule
ReadStep(step) == [i \in DOMAIN step |-> ReadRule(step[i])]
RulesOf(steps) == FlattenSeq(steps)

\* A case that has a `set` writes its own path, and may not do so again in `with`.
WritesTwice(path, c) == SetOf(c) # Missing /\ \E w \in ToSet(c.with) : w.path = path

\* is_empty asks for steps, and so passes a stage whose steps have no rules.
validate_rewrite_stage(stage) ==
    /\ stage.steps # <<>>
    /\ \A rule \in ToSet(RulesOf(stage.steps)) :
          rule.op = "replace" => \A c \in ToSet(rule.cases) : ~WritesTwice(rule.path, c)

\* The stages are taken in their order; one that is taken twice is an error.
ReadProfile(profile) ==
    LET Bad(read, stage) == \/ stage.at \notin Stages
                            \/ read[stage.at] # <<>>
                            \/ ~\A rule \in ToSet(RulesOf(stage.steps)) : ReadsAsRule(rule)
                            \/ ~validate_rewrite_stage(stage)
        Take(read, stage) ==
            IF read = Failed \/ Bad(read, stage) THEN Failed
            ELSE [read EXCEPT ![stage.at] =
                     [i \in DOMAIN stage.steps |-> ReadStep(stage.steps[i])]]
    IN  FoldLeft(Take, NoSteps, profile)

Profiles == {Config.rewrites[name] : name \in DOMAIN Config.rewrites}
                \cup {Config.models[m].profile :
                         m \in {n \in Models : Config.models[n].kind = "inline"}}

\* load_config: serde reads the whole file, and resolve_config wants a model.
load_config ==
    /\ phase = "reading"
    /\ phase' = IF Models = {} \/ \E profile \in Profiles : ReadProfile(profile) = Failed
                THEN "refused" ELSE "resolving"
    /\ UNCHANGED <<file, startup, request>>

\* Mutant: a profile is marked as used by no one.
resolve_rewrite_Unmarked(m) ==
    /\ phase = "resolving" /\ m \in pending
    /\ LET entry == Config.models[m]
       IN  \/ /\ entry.kind = "ref" /\ entry.name \notin DOMAIN Config.rewrites
              /\ phase' = "refused"
              /\ UNCHANGED startup
           \/ /\ entry.kind = "ref" => entry.name \in DOMAIN Config.rewrites
              /\ resolved' = [resolved EXCEPT ![m] =
                    CASE entry.kind = "none" -> NoSteps
                      [] entry.kind = "inline" -> ReadProfile(entry.profile)
                      [] entry.kind = "ref" -> ReadProfile(Config.rewrites[entry.name])]
              /\ pending' = pending \ {m}
              /\ UNCHANGED <<phase, used>>
    /\ UNCHANGED <<file, request>>

\* The next turn of resolve_config's loop over the models: a HashMap, so in
\* any order. An unknown name ends it.
resolve_rewrite(m) ==
    /\ phase = "resolving" /\ m \in pending
    /\ LET entry == Config.models[m]
       IN  \/ /\ entry.kind = "ref" /\ entry.name \notin DOMAIN Config.rewrites
              /\ phase' = "refused"
              /\ UNCHANGED startup
           \/ /\ entry.kind = "ref" => entry.name \in DOMAIN Config.rewrites
              /\ resolved' = [resolved EXCEPT ![m] =
                    CASE entry.kind = "none" -> NoSteps
                      [] entry.kind = "inline" -> ReadProfile(entry.profile)
                      [] entry.kind = "ref" -> ReadProfile(Config.rewrites[entry.name])]
              /\ used' = IF entry.kind = "ref" THEN used \cup {entry.name} ELSE used
              /\ pending' = pending \ {m}
              /\ UNCHANGED phase
    /\ UNCHANGED <<file, request>>

\* The end of resolve_config: a named profile that no model uses is an error.
CheckUnused ==
    /\ phase = "resolving" /\ pending = {}
    /\ phase' = IF DOMAIN Config.rewrites \subseteq used THEN "serving" ELSE "refused"
    /\ UNCHANGED <<file, startup, request>>

-----------------------------------------------------------------------------
(* Rewriting a body                                                        *)

Rewriting == phase = "rewriting" /\ done < Len(rules)
Rule == rules[done + 1]

\* A stage of a request, a reply or a stream event of this model; nothing is
\* done where the profile has no steps.
Receive(m, stage, b) ==
    /\ phase = "serving"
    /\ resolved[m][stage] # <<>>
    /\ phase' = "rewriting"
    /\ received' = b /\ body' = b
    /\ rules' = RulesOf(resolved[m][stage]) /\ done' = 0
    /\ UNCHANGED <<file, startup>>

\* The `?` of apply_rewrite: on an error the body is dropped.
Continue(result) ==
    /\ IF result = Failed
       THEN phase' = "failed" /\ UNCHANGED <<body, done>>
       ELSE body' = result /\ done' = done + 1 /\ UNCHANGED phase
    /\ UNCHANGED <<file, startup, received, rules>>

Rename == Rewriting /\ Rule.op = "rename" /\ Continue(Renamed(body, Rule.path, Rule.to))
RemovePath == Rewriting /\ Rule.op = "remove" /\ Continue(Removed(body, Rule.path))
Replace == Rewriting /\ Rule.op = "replace" /\ Continue(Replaced(body, Rule.path, Rule.cases))
Reset == Rewriting /\ Rule.op = "reset" /\ Continue(ResetAll(body, Rule.path, Rule.value))

\* The body goes on, or the error does, and the next one comes.
Answer ==
    /\ phase = "failed" \/ (phase = "rewriting" /\ done = Len(rules))
    /\ phase' = "serving"
    /\ received' = Null /\ body' = Null /\ rules' = <<>> /\ done' = 0
    /\ UNCHANGED <<file, startup>>

Init ==
    /\ file \in Cases
    /\ phase = "reading"
    /\ pending = Models
    /\ resolved = [m \in Models |-> NoSteps]
    /\ used = {}
    /\ received = Null /\ body = Null /\ rules = <<>> /\ done = 0

Next ==
    \/ load_config
    \/ \E m \in Models : resolve_rewrite(m)
    \/ CheckUnused
    \/ \E m \in Models, stage \in Stages, b \in file.bodies : Receive(m, stage, b)
    \/ Rename \/ RemovePath \/ Replace \/ Reset
    \/ Answer

Spec == Init /\ [][Next]_vars

-----------------------------------------------------------------------------
(* Properties                                                              *)

\* The concrete paths of a body, as deep as what is explored.
MaxDepth == 5
Tokens(node) ==
    CASE node.type = "object" -> DOMAIN node.fields
      [] node.type = "array" -> {IndexTokens[i] : i \in DOMAIN node.elements}
      [] OTHER -> {}
Places(tree) ==
    LET level[i \in 0..MaxDepth] ==
            IF i = 0 THEN {<<>>}
            ELSE UNION {{Append(p, token) : token \in Tokens(get_path(tree, p))} : p \in level[i - 1]}
    IN  UNION {level[i] : i \in 0..MaxDepth}

IsJson(tree) ==
    \A p \in Places(tree) : get_path(tree, p).type \in {"scalar", "array", "object"}

TypeOK ==
    /\ file \in Cases
    /\ phase \in {"reading", "resolving", "refused", "serving", "rewriting", "failed"}
    /\ pending \subseteq Models
    /\ used \subseteq DOMAIN Config.rewrites
    /\ \A m \in Models : DOMAIN resolved[m] = Stages
    /\ IsJson(received) /\ IsJson(body)
    /\ done \in 0..Len(rules)

\* What is asked of a file, said of the file as a whole: README.md:222, except
\* that a stage counts as empty only if it has no step (see EmptyStagesFail).
Acceptable ==
    /\ Models # {}
    /\ \A profile \in Profiles :
          /\ \A i, j \in DOMAIN profile : i # j => profile[i].at # profile[j].at
          /\ \A stage \in ToSet(profile) :
                /\ stage.at \in Stages
                /\ stage.steps # <<>>
                /\ \A rule \in ToSet(RulesOf(stage.steps)) : rule.op = "replace" =>
                      \A c \in ToSet(rule.cases) : ReadsAsCase(c) /\ ~WritesTwice(rule.path, c)
    /\ {Config.models[m].name : m \in {n \in Models : Config.models[n].kind = "ref"}}
           = DOMAIN Config.rewrites

\* Whatever the order the models are resolved in, the program starts with the
\* files that are acceptable and with no other, and then every model has the
\* whole profile its entry means, and no rule of another.
StartupIsStrict ==
    /\ phase = "refused" => ~Acceptable
    /\ phase \in {"serving", "rewriting", "failed"} =>
          /\ Acceptable
          /\ \A m \in Models :
                LET entry == Config.models[m]
                    profile == CASE entry.kind = "none"   -> <<>>
                                 [] entry.kind = "inline" -> entry.profile
                                 [] entry.kind = "ref"    -> Config.rewrites[entry.name]
                IN  \A s \in Stages :
                       LET meant == UNION {ToSet(stage.steps) :
                                              stage \in {t \in ToSet(profile) : t.at = s}}
                       IN  ToSet(resolved[m][s]) = {ReadStep(step) : step \in meant}

\* A wildcard stands for the elements of an array.
Matches(tree, pattern, p) ==
    /\ Len(pattern) = Len(p)
    /\ \A i \in DOMAIN p : \/ pattern[i] = p[i]
                           \/ /\ pattern[i] = "*"
                              /\ get_path(tree, SubSeq(p, 1, i - 1)).type = "array"

\* p is above, at or below what the pattern names; or below an array where the
\* pattern names a field, for which a write puts an object in its place.
SameToken(a, b) == a = b \/ (a = "*" /\ IsIndex(b))
Names(pattern, p) ==
    LET both == 1..(IF Len(pattern) < Len(p) THEN Len(pattern) ELSE Len(p))
    IN  \A i \in both :
           \/ SameToken(pattern[i], p[i])
           \/ \E j \in both : /\ j <= i
                              /\ \A k \in 1..(j - 1) : SameToken(pattern[k], p[k])
                              /\ IsIndex(p[j]) /\ ~IsIndex(pattern[j]) /\ pattern[j] # "*"

\* The patterns a rule writes at. Taking an element out of an array moves those
\* after it.
TakenFrom(path) == IF Last(path) = "*" \/ IsIndex(Last(path)) THEN Front(path) ELSE path
Named(rule) ==
    CASE rule.op = "rename" -> {TakenFrom(rule.path), rule.to}
      [] rule.op = "remove" -> {TakenFrom(rule.path)}
      [] rule.op = "reset" -> {rule.path}
      [] rule.op = "replace" ->
            {rule.path} \cup UNION {{w.path : w \in ToSet(c.with)} : c \in ToSet(rule.cases)}

Leaves(tree) == {p \in Places(tree) : Tokens(get_path(tree, p)) = {}}

\* A rewrite changes, adds and takes away only what its rules name: the rest of
\* the body goes on as it came, whatever the rules before have made of it.
OnlyNamedPathsChange ==
    phase = "rewriting" =>
        \A p \in Leaves(received) \cup Leaves(body) :
            \/ get_path(received, p) = get_path(body, p)
            \/ \E i \in 1..done : \E pattern \in Named(rules[i]) : Names(pattern, p)

\* Once a rule has removed a field, also below several wildcards, no element has it.
RemovedIsGone ==
    [][RemovePath /\ phase' = "rewriting" /\ Rule.path # <<>> /\ Last(Rule.path) # "*"
          /\ ~IsIndex(Last(Rule.path))
       => \A p \in Places(body') : ~Matches(body', Rule.path, p)]_vars

\* README.md:222: "empty rewrite stages ... fail at startup", of stages without a
\* rule: "must contain at least one rule" (config.rs:477).
EmptyStagesFail ==
    phase \in {"serving", "rewriting", "failed"} =>
        \A profile \in Profiles : \A stage \in ToSet(profile) : RulesOf(stage.steps) # <<>>

\* README.md:220, of every path: "`remove` deletes paths".
RemoveDeletesPaths ==
    [][RemovePath /\ has_wildcard(Rule.path)
       => \A p \in Places(body') : ~Matches(body', Rule.path, p)]_vars
=============================================================================
