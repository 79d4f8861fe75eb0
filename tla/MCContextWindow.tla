-------------------------- MODULE MCContextWindow --------------------------
(* Two models of one upstream name at two base URLs, and an override.      *)
EXTENDS ContextWindow

CONSTANTS BaseA, BaseB

Entry(name, base, model, limits) ==
    [name |-> name, base |-> base, model |-> model, history |-> limits]
Limits(messages, chars, window) == [messages |-> messages, chars |-> chars, window |-> window]

MCConfigs ==
    {<<Entry("m", BaseA, None, h), Entry("n", b, "m", None)>> :
        h \in {None, Limits(0, 0, None), Limits(2, 0, 5), Limits(0, 5, None)},
        b \in {BaseA, BaseB}}

MCOffered == (<<BaseA, "m">> :> 9) @@ (<<BaseB, "m">> :> 8)

MCReplies == {<<"text">>, <<"reasoning", "call">>, <<"text", "call", "call">>}
=============================================================================
