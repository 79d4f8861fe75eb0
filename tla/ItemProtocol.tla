---------------------------- MODULE ItemProtocol ----------------------------
(***************************************************************************)
(* What a streamed response promises its client, without the Chat chunks   *)
(* it is made from.  The client sees a list of output items.  An item is   *)
(* opened at the next free output index, grows by deltas while it is open, *)
(* is closed once with exactly the content its deltas added up to, and is  *)
(* never touched again.  The response finishes once, with every item       *)
(* closed.  One step may do several of these things: the proxy emits all   *)
(* the events of one upstream chunk together.                              *)
(***************************************************************************)
EXTENDS Naturals, Sequences, SequencesExt

VARIABLES
    items,      \* items[i] is the item at output index i - 1
    finished    \* response.completed or response.incomplete was sent

vars == <<items, finished>>

Init ==
    /\ items = <<>>
    /\ finished = FALSE

\* An item moves forward: same kind, more content, and frozen once closed.
Advances(old, new) ==
    /\ new.kind = old.kind
    /\ IsPrefix(old.data, new.data)
    /\ ~old.open => new = old

\* A closed item holds what its deltas said.
Consistent(item) == ~item.open => item.final = item.data

Emit ==
    /\ ~finished
    /\ Len(items') >= Len(items)
    /\ \A i \in DOMAIN items : Advances(items[i], items'[i])
    /\ \A i \in DOMAIN items' : Consistent(items'[i])

Deliver == Emit /\ finished' = FALSE

Finish ==
    /\ Emit
    /\ \A i \in DOMAIN items' : ~items'[i].open
    /\ finished' = TRUE

Next == Deliver \/ Finish

Spec == Init /\ [][Next]_vars
=============================================================================
