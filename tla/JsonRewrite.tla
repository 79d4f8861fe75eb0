---------------------------- MODULE JsonRewrite -----------------------------
(***************************************************************************)
(* The rewrite rules of src/rewrite.rs as operators on small JSON trees,   *)
(* with the source's names. A path is its sequence of tokens: the dotted   *)
(* and the pointer notation of one path are the same value here. An index  *)
(* is a token like any other, as in the code, which parses it.             *)
(***************************************************************************)
EXTENDS Integers, SequencesExt, TLC

\* JSON values. Missing is the None of a lookup, Failed the Err of a write.
Scalar(v) == [type |-> "scalar", value |-> v]
Array(s) == [type |-> "array", elements |-> s]
Object(f) == [type |-> "object", fields |-> f]
NoFields == [name \in {} |-> ""]
Null == Scalar("null")
Missing == [type |-> "missing"]
Failed == [type |-> "failed"]

IndexTokens == <<"0", "1", "2", "3">>
IsIndex(token) == token \in ToSet(IndexTokens)
Position(token) == CHOOSE i \in DOMAIN IndexTokens : IndexTokens[i] = token

HasElement(node, token) ==
    node.type = "array" /\ IsIndex(token) /\ Position(token) <= Len(node.elements)
HasField(node, token) == node.type = "object" /\ token \in DOMAIN node.fields

\* One step of serde_json's Value::pointer.
Child(node, token) ==
    CASE HasField(node, token) -> node.fields[token]
      [] HasElement(node, token) -> node.elements[Position(token)]
      [] OTHER -> Missing

get_path(body, path) == FoldLeft(Child, body, path)
Exists(body, path) == get_path(body, path) # Missing

-----------------------------------------------------------------------------
(* Writing and removing                                                    *)

\* Mutant: an object on the way is made anew, as a value that is none is.
PutChild_Anew(node, token, value) ==
    IF HasElement(node, token) THEN [node EXCEPT !.elements[Position(token)] = value]
    ELSE Object(token :> value)

\* What is no object becomes one on the way to a field.
PutChild(node, token, value) ==
    IF HasElement(node, token) THEN [node EXCEPT !.elements[Position(token)] = value]
    ELSE Object(token :> value @@ IF node.type = "object" THEN node.fields ELSE NoFields)

\* body with the value at path; what lacks on the way is made.
Rebuilt(body, path, value) ==
    LET at(i) == get_path(body, SubSeq(path, 1, i))
        new[i \in 0..Len(path)] ==
            IF i = Len(path) THEN value ELSE PutChild(at(i), path[i + 1], new[i + 1])
    IN  new[0]

\* An index needs an array that is long enough, also below what was just made.
set_path_impl(body, path, value) ==
    IF \E i \in DOMAIN path : /\ IsIndex(path[i])
                              /\ ~HasElement(get_path(body, SubSeq(path, 1, i - 1)), path[i])
    THEN Failed
    ELSE Rebuilt(body, path, value)

Without(node, token) ==
    IF node.type = "object" THEN Object(Restrict(node.fields, DOMAIN node.fields \ {token}))
    ELSE Array(RemoveAt(node.elements, Position(token)))

remove_path(body, path) ==
    IF path = <<>> THEN Null
    ELSE IF ~Exists(body, path) THEN body
    ELSE Rebuilt(body, Front(path), Without(get_path(body, Front(path)), Last(path)))

-----------------------------------------------------------------------------
(* Wildcards                                                               *)

has_wildcard(path) == "*" \in ToSet(path)

\* The elements a token leads to from one that was found, in their order. An
\* index only looks into arrays.
Steps(found, token) ==
    LET next(tok) == [path |-> Append(found.path, tok), node |-> Child(found.node, tok)]
    IN  IF token = "*"
        THEN IF found.node.type # "array" THEN <<>>
             ELSE [i \in DOMAIN found.node.elements |-> next(IndexTokens[i])]
        ELSE IF \/ IsIndex(token) /\ HasElement(found.node, token)
                \/ ~IsIndex(token) /\ HasField(found.node, token)
        THEN <<next(token)>> ELSE <<>>

\* Mutant: only the first element of an inner array.
expand_paths_Shallow(body, path) ==
    LET all == FoldLeft(LAMBDA found, token :
                           IF found = <<>> THEN <<>> ELSE Steps(Head(found), token),
                        <<[path |-> <<>>, node |-> body]>>, path)
    IN  [i \in DOMAIN all |-> all[i].path]

\* The concrete paths of a path with wildcards.
expand_paths(body, path) ==
    LET Expand(found, token) == FlattenSeq([i \in DOMAIN found |-> Steps(found[i], token)])
        all == FoldLeft(Expand, <<[path |-> <<>>, node |-> body]>>, path)
    IN  [i \in DOMAIN all |-> all[i].path]

Targets(body, path) == IF has_wildcard(path) THEN expand_paths(body, path) ELSE <<path>>

\* A write that fails ends the rewrite: nothing is written after it.
set_path(body, path, value) ==
    FoldLeft(LAMBDA b, p : IF b = Failed THEN b ELSE set_path_impl(b, p, value),
             body, Targets(body, path))

-----------------------------------------------------------------------------
(* The four operations                                                     *)

\* Mutant: what is not there is moved as well.
Renamed_Unchecked(body, from, to) == set_path(remove_path(body, from), to, get_path(body, from))

\* A lookup takes no wildcards: `from` with one is never found.
Renamed(body, from, to) ==
    IF ~Exists(body, from) THEN body
    ELSE set_path(remove_path(body, from), to, get_path(body, from))

\* The targets are found first and then removed one by one.
Removed(body, path) == FoldLeft(remove_path, body, Targets(body, path))

\* Only what is there is reset.
ResetAll(body, path, value) ==
    FoldLeft(LAMBDA b, p : IF b = Failed \/ ~Exists(b, p) THEN b ELSE set_path(b, p, value),
             body, Targets(body, path))

\* A condition is the set of its alternatives: the texts a regex matches, or a value.
value_matches(value, condition) ==
    \E alternative \in condition :
        IF "texts" \in DOMAIN alternative
        THEN value.type = "scalar" /\ value.value \in alternative.texts
        ELSE value = alternative.value

\* What a rule writes once it matches at the target: `set`, then each of `with`.
Writes(target, rule) ==
    (IF rule.set = Missing THEN <<>> ELSE <<[path |-> target, value |-> rule.set]>>) \o rule.with

\* A rule, tried on the value as the rules before it have left it.
Apply(body, target, rule) ==
    IF body = Failed \/ ~value_matches(get_path(body, target), rule.condition) THEN body
    ELSE FoldLeft(LAMBDA b, w : IF b = Failed THEN b ELSE set_path(b, w.path, w.value),
                  body, Writes(target, rule))

\* Mutant: the rules are tried from the last to the first.
Replaced_Backwards(body, path, rules) ==
    FoldLeft(LAMBDA b, target : FoldLeft(LAMBDA c, rule : Apply(c, target, rule), b, Reverse(rules)),
             body, Targets(body, path))

Replaced(body, path, rules) ==
    FoldLeft(LAMBDA b, target : FoldLeft(LAMBDA c, rule : Apply(c, target, rule), b, rules),
             body, Targets(body, path))
=============================================================================
