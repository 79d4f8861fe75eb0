--------------------------- MODULE MCConversation ---------------------------
(* Replies with each kind of item first, last and alone, two calls, nothing. *)
EXTENDS Conversation

Nothing == <<>>
Text == <<"text">>
Calls == <<"call", "call">>
TextCall == <<"reasoning", "text", "call">>
CallText == <<"call", "text">>

MCReplies == {Nothing, Text, Calls, TextCall}
MCOrderReplies == {Text, TextCall}

\* No limits; one and both, so small that three turns exceed them.
MCBudgets == {[messages |-> 0, chars |-> 0], [messages |-> 0, chars |-> 9],
              [messages |-> 4, chars |-> 5]}
MCUnlimited == {[messages |-> 0, chars |-> 0]}
=============================================================================
