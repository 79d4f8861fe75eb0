---------------------------- MODULE WsConnection ----------------------------
(***************************************************************************)
(* One WebSocket connection (src/handlers/websocket.rs, run, and           *)
(* src/handlers/websocket/create.rs): a single task that receives client   *)
(* frames, and for each response.create runs one turn to its end before it *)
(* receives again -- but that listens to the socket while it relays.       *)
(* A send waits as long as the client takes nothing and stays.             *)
(***************************************************************************)
EXTENDS Frames

CONSTANTS
    Chunks,       \* the frame sequences one read of the upstream may yield
    ReadBound,    \* bound: no more is read after so many frames
    MaxFrames,    \* bound on the frames the client sends
    MaxCancels    \* bound on the calls of the cancel endpoint

ASSUME WsConnectionAssumption ==
    /\ Chunks \subseteq Seq(Frame)
    /\ ReadBound \in Nat /\ MaxFrames \in Nat /\ MaxCancels \in Nat

VARIABLES
    conn,       \* the connection's task: where it is, what it has yet to send
    turns,      \* a record for each response.create handled so far
    inbox,      \* client frames on their way
    client,     \* is it connected, what it has sent, the events it has got
    token,      \* the turn whose token is in cancel_tokens, or 0
    signalled,  \* cancel_rx has changed
    answers     \* the cancel endpoint's answers, and where the task was then

vars == <<conn, turns, inbox, client, token, signalled, answers>>

ClientFrame ==
    {"create",   \* response.create
     "cancel",   \* exactly {"type":"response.cancel"}
     "other"}    \* ping, a cancel in another spelling, what does not parse

\* What becomes of a response.create.
Mode ==
    {"reject",      \* unknown model, a failing rewrite or conversion or upstream
     "echo",        \* generate: false
     "buffered",    \* a structured reply fetched in one piece
     "compaction",  \* the input has a compaction_trigger
     "stream"}

NotStored == <<-1>>

Turn(mode) == [mode |-> mode, upstream |-> <<>>, processed |-> <<>>,
               tools |-> FALSE, history |-> NotStored]

Current == Len(turns)

Init ==
    /\ conn = [pc |-> "recv", out |-> <<>>, frames |-> <<>>, cancelled |-> FALSE]
    /\ turns = <<>>
    /\ inbox = <<>>
    /\ client = [connected |-> TRUE, sent |-> <<>>, seen |-> <<>>]
    /\ token = 0
    /\ signalled = FALSE
    /\ answers = <<>>

-----------------------------------------------------------------------------
(* Receiving and replying                                                  *)

Error == FrameEvent(0, "error")

\* The events the handler sends without reading a stream.
Reply(mode) ==
    CASE mode = "reject"     -> <<Error>>
      [] mode = "echo"       -> Append(FirstEvents, FrameEvent(0, "completed"))
      [] mode = "buffered"   -> FirstEvents \o EventsOf("data", 1) \o EventsOf("done", 2)
      [] mode = "compaction" -> FirstEvents \o <<FrameEvent(1, "item"), FrameEvent(1, "completed")>>
      [] mode = "stream"     -> FirstEvents

\* run: a frame for an idle connection. A ping's pong, a cancel and what does
\* not parse change nothing.
Recv ==
    /\ conn.pc = "recv"
    /\ inbox # <<>>
    /\ inbox' = Tail(inbox)
    /\ \/ /\ Head(inbox) = "create"
          /\ \E mode \in Mode :
                /\ turns' = Append(turns, Turn(mode))
                /\ conn' = [conn EXCEPT !.pc = "reply", !.out = Reply(mode)]
       \/ /\ Head(inbox) # "create"
          /\ UNCHANGED <<turns, conn>>
    /\ UNCHANGED <<client, token, signalled, answers>>

\* run: a close frame, or nothing more to receive.
HangUp ==
    /\ conn.pc = "recv"
    /\ inbox = <<>>
    /\ ~client.connected
    /\ conn' = [conn EXCEPT !.pc = "closed"]
    /\ UNCHANGED <<turns, inbox, client, token, signalled, answers>>

AfterReply(mode) ==
    CASE mode = "reject"                -> "recv"
      [] mode \in {"echo", "buffered"}  -> "put_tools"
      [] mode = "compaction"            -> "put"
      [] mode = "stream"                -> "register"

AfterSend(out) ==
    IF out # <<>> \/ conn.pc = "frames" THEN conn.pc
    ELSE CASE conn.pc = "reply"     -> AfterReply(turns[Current].mode)
           [] conn.pc = "give_up"   -> "recv"
           [] conn.pc = "bad_frame" -> "unregister"

\* socket.send: a socket may take what its client will never get.
Send ==
    /\ conn.out # <<>>
    /\ conn' = [conn EXCEPT !.out = Tail(@), !.pc = AfterSend(Tail(conn.out))]
    /\ client' = [client EXCEPT !.seen =
                     IF client.connected
                     THEN Append(@, [turn |-> Current, event |-> Head(conn.out)])
                     ELSE @]
    /\ UNCHANGED <<turns, inbox, token, signalled, answers>>

\* A send that fails ends a stream, which is persisted, and a buffered reply,
\* which is not; elsewhere (super::send) nobody looks, as if it had been taken.
SendFails ==
    /\ conn.out # <<>>
    /\ ~client.connected
    /\ \/ /\ conn.pc = "frames"
          /\ conn' = [conn EXCEPT !.pc = "unregister", !.out = <<>>, !.frames = <<>>]
       \/ /\ conn.pc = "reply" /\ turns[Current].mode = "buffered"
          /\ conn' = [conn EXCEPT !.pc = "recv", !.out = <<>>]
    /\ UNCHANGED <<turns, inbox, client, token, signalled, answers>>

\* prepare_stream_event: the rewrite of an event fails; an error is sent and
\* nothing persisted.
PrepareFails ==
    /\ conn.pc = "reply"
    /\ turns[Current].mode # "reject"
    /\ conn' = [conn EXCEPT !.pc = "give_up", !.out = <<Error>>]
    /\ UNCHANGED <<turns, inbox, client, token, signalled, answers>>

-----------------------------------------------------------------------------
(* run_stream                                                              *)

\* Mutant: the token is registered by whoever runs next.
Register_Late ==
    \/ /\ conn.pc = "register"
       /\ signalled' = FALSE
       /\ conn' = [conn EXCEPT !.pc = "select"]
       /\ UNCHANGED <<turns, inbox, client, token, answers>>
    \/ /\ conn.pc = "select" /\ token = 0 /\ ~signalled
       /\ token' = Current
       /\ UNCHANGED <<conn, turns, inbox, client, signalled, answers>>

Register ==
    /\ conn.pc = "register"
    /\ token' = Current
    /\ signalled' = FALSE
    /\ conn' = [conn EXCEPT !.pc = "select"]
    /\ UNCHANGED <<turns, inbox, client, answers>>

SelectCancel ==
    /\ conn.pc = "select"
    /\ signalled
    /\ conn' = [conn EXCEPT !.pc = "unregister", !.cancelled = TRUE]
    /\ UNCHANGED <<turns, inbox, client, token, signalled, answers>>

\* Mutant: whatever the client sends cancels the turn.
SelectFrame_AllCancel ==
    /\ conn.pc = "select"
    /\ inbox # <<>>
    /\ inbox' = Tail(inbox)
    /\ conn' = [conn EXCEPT !.pc = "unregister", !.cancelled = TRUE]
    /\ UNCHANGED <<turns, client, token, signalled, answers>>

\* socket.recv: any frame ends the stream; a cancel also keeps it from the store.
SelectFrame ==
    /\ conn.pc = "select"
    /\ inbox # <<>>
    /\ inbox' = Tail(inbox)
    /\ conn' = [conn EXCEPT !.pc = "unregister", !.cancelled = Head(inbox) = "cancel"]
    /\ UNCHANGED <<turns, client, token, signalled, answers>>

\* socket.recv: the client is gone.
SelectGone ==
    /\ conn.pc = "select"
    /\ inbox = <<>>
    /\ ~client.connected
    /\ conn' = [conn EXCEPT !.pc = "unregister"]
    /\ UNCHANGED <<turns, inbox, client, token, signalled, answers>>

\* byte_stream.next(): some frames; nothing follows [DONE] but the end.
SelectChunk ==
    /\ conn.pc = "select"
    /\ Len(turns[Current].upstream) < ReadBound
    /\ ~Contains(turns[Current].upstream, "done")
    /\ \E chunk \in Chunks :
          /\ conn' = [conn EXCEPT !.pc = "frames", !.frames = chunk]
          /\ turns' = [turns EXCEPT ![Current].upstream = @ \o chunk]
    /\ UNCHANGED <<inbox, client, token, signalled, answers>>

\* Mutant: a failed read is retried on the same body.
SelectEnd_Retried ==
    /\ conn.pc = "select"
    /\ conn' = [conn EXCEPT !.pc = IF Contains(turns[Current].upstream, "done")
                                   THEN "unregister" ELSE @]
    /\ UNCHANGED <<turns, inbox, client, token, signalled, answers>>

\* The body ends, a read fails or the timeout of the request strikes.
SelectEnd ==
    /\ conn.pc = "select"
    /\ conn' = [conn EXCEPT !.pc = "unregister"]
    /\ UNCHANGED <<turns, inbox, client, token, signalled, answers>>

NextNumber == Len(turns[Current].upstream) - Len(conn.frames) + 1

\* Mutant: a bad frame leaves the rest of the buffer for later.
NextFrame_BadKept ==
    /\ conn.pc = "frames"
    /\ conn.out = <<>>
    /\ IF conn.frames = <<>>
       THEN /\ conn' = [conn EXCEPT !.pc = "select"]
            /\ UNCHANGED turns
       ELSE LET frame == Head(conn.frames) IN
            /\ conn' = [conn EXCEPT !.pc     = IF frame = "bad" THEN "bad_frame" ELSE @,
                                    !.out    = EventsOf(frame, NextNumber),
                                    !.frames = Tail(@)]
            /\ turns' = [turns EXCEPT ![Current].processed =
                            IF frame = "data" THEN Append(@, NextNumber) ELSE @]
    /\ UNCHANGED <<inbox, client, token, signalled, answers>>

\* Mutant: a frame that yields no events ends the work on the buffer.
NextFrame_SkipEnds ==
    /\ conn.pc = "frames"
    /\ conn.out = <<>>
    /\ IF conn.frames = <<>> \/ Head(conn.frames) = "skip"
       THEN /\ conn' = [conn EXCEPT !.pc = "select", !.frames = <<>>]
            /\ UNCHANGED turns
       ELSE LET frame == Head(conn.frames) IN
            /\ conn' = [conn EXCEPT
                           !.pc     = IF frame = "bad" THEN "bad_frame" ELSE @,
                           !.out    = EventsOf(frame, NextNumber),
                           !.frames = IF frame = "bad" THEN <<>> ELSE Tail(@)]
            /\ turns' = [turns EXCEPT ![Current].processed =
                            IF frame = "data" THEN Append(@, NextNumber) ELSE @]
    /\ UNCHANGED <<inbox, client, token, signalled, answers>>

\* The next frame of the buffer, or back to the select; what follows a frame
\* that does not parse is given up.
NextFrame ==
    /\ conn.pc = "frames"
    /\ conn.out = <<>>
    /\ IF conn.frames = <<>>
       THEN /\ conn' = [conn EXCEPT !.pc = "select"]
            /\ UNCHANGED turns
       ELSE LET frame == Head(conn.frames) IN
            /\ conn' = [conn EXCEPT
                           !.pc     = IF frame = "bad" THEN "bad_frame" ELSE @,
                           !.out    = EventsOf(frame, NextNumber),
                           !.frames = IF frame = "bad" THEN <<>> ELSE Tail(@)]
            /\ turns' = [turns EXCEPT ![Current].processed =
                            IF frame = "data" THEN Append(@, NextNumber) ELSE @]
    /\ UNCHANGED <<inbox, client, token, signalled, answers>>

\* Mutant: the token is kept until a cancelled turn has been noticed.
Unregister_Cancelled ==
    /\ conn.pc = "unregister"
    /\ token' = IF conn.cancelled THEN token ELSE 0
    /\ conn' = [conn EXCEPT !.pc = IF conn.cancelled THEN "recv" ELSE "put_tools",
                            !.cancelled = FALSE]
    /\ UNCHANGED <<turns, inbox, client, signalled, answers>>

\* handle: the token goes first, and a cancelled turn is not persisted.
Unregister ==
    /\ conn.pc = "unregister"
    /\ token' = 0
    /\ conn' = [conn EXCEPT !.pc = IF conn.cancelled THEN "recv" ELSE "put_tools",
                            !.cancelled = FALSE]
    /\ UNCHANGED <<turns, inbox, client, signalled, answers>>

PutTools ==
    /\ conn.pc = "put_tools"
    /\ turns' = [turns EXCEPT ![Current].tools = TRUE]
    /\ conn' = [conn EXCEPT !.pc = "put"]
    /\ UNCHANGED <<inbox, client, token, signalled, answers>>

\* The numbers of what a turn's history holds besides its input.
Answer(turn) ==
    CASE turn.mode = "stream"                     -> turn.processed
      [] turn.mode = "echo"                       -> <<>>
      [] turn.mode \in {"buffered", "compaction"} -> <<1>>

\* Mutant: only what precedes the last chunk is persisted.
Put_BeforeLast ==
    /\ conn.pc = "put"
    /\ turns' = [turns EXCEPT ![Current].history =
                    LET answer == Answer(turns[Current])
                    IN  IF answer = <<>> THEN <<>> ELSE Front(answer)]
    /\ conn' = [conn EXCEPT !.pc = "recv"]
    /\ UNCHANGED <<inbox, client, token, signalled, answers>>

Put ==
    /\ conn.pc = "put"
    /\ turns' = [turns EXCEPT ![Current].history = Answer(turns[Current])]
    /\ conn' = [conn EXCEPT !.pc = "recv"]
    /\ UNCHANGED <<inbox, client, token, signalled, answers>>

-----------------------------------------------------------------------------
(* The client and the cancel endpoint                                      *)

ClientSends ==
    /\ client.connected
    /\ Len(client.sent) < MaxFrames
    /\ \E frame \in ClientFrame :
          /\ client' = [client EXCEPT !.sent = Append(@, frame)]
          /\ inbox' = Append(inbox, frame)
    /\ UNCHANGED <<conn, turns, token, signalled, answers>>

Leave ==
    /\ client.connected
    /\ client' = [client EXCEPT !.connected = FALSE]
    /\ UNCHANGED <<conn, turns, inbox, token, signalled, answers>>

\* A turn's events, as far as the client has got them.
Seen(t) ==
    FlattenSeq([k \in DOMAIN client.seen |-> IF client.seen[k].turn = t
                                             THEN <<client.seen[k].event>> ELSE <<>>])

\* POST cancel, with the id of a turn from its created event.
Cancel ==
    /\ Len(answers) < MaxCancels
    /\ \E t \in DOMAIN turns :
          /\ Contains(Seen(t), FrameEvent(0, "created"))
          /\ answers' = Append(answers,
                 [turn |-> t, status |-> IF token = t THEN 200 ELSE 404,
                  pc |-> IF t = Current THEN conn.pc ELSE "recv"])
          /\ signalled' = (signalled \/ token = t)
          /\ token' = IF token = t THEN 0 ELSE token
    /\ UNCHANGED <<conn, turns, inbox, client>>

ConnStep ==
    \/ Recv \/ HangUp \/ Send \/ SendFails \/ PrepareFails
    \/ Register \/ SelectCancel \/ SelectFrame \/ SelectGone \/ SelectChunk
    \/ SelectEnd \/ NextFrame \/ Unregister \/ PutTools \/ Put

Next == ConnStep \/ ClientSends \/ Leave \/ Cancel

Spec == Init /\ [][Next]_vars

\* The task waits for a client that takes nothing and does not leave: a send has
\* no timeout.
Stalled == conn.out # <<>> /\ client.connected

\* The runtime runs the task, and the request's timeout ends every read.
\* Nothing makes a client take what it is sent, or leave.
FairSpec == Spec /\ WF_vars(~Stalled /\ ConnStep)

-----------------------------------------------------------------------------
(* Properties                                                              *)

PCs == {"recv", "closed", "reply", "give_up", "register", "select", "frames",
        "bad_frame", "unregister", "put_tools", "put"}

\* The shape of the state; frames of the upstream wait only while they are read.
TypeOK ==
    /\ conn.pc \in PCs /\ conn.cancelled \in BOOLEAN
    /\ conn.frames \in Seq(Frame) /\ (conn.frames # <<>> => conn.pc = "frames")
    /\ conn.out # <<>> => conn.pc \in {"reply", "give_up", "frames", "bad_frame"}
    /\ \A t \in DOMAIN turns :
          /\ turns[t].mode \in Mode /\ turns[t].tools \in BOOLEAN
          /\ turns[t].upstream \in Seq(Frame)
          /\ \A k \in DOMAIN turns[t].processed :
                turns[t].processed[k] \in DOMAIN turns[t].upstream
    /\ inbox \in Seq(ClientFrame) /\ Len(inbox) <= Len(client.sent)
    /\ client.connected \in BOOLEAN /\ client.sent \in Seq(ClientFrame)
    /\ token \in {0, Current} /\ signalled \in BOOLEAN
    /\ Len(answers) <= MaxCancels

\* The turns of a connection do not mix: the client gets a turn's events after
\* all it gets of the turns before, and each turn's in the upstream's order,
\* with an error for an event that could not be prepared.
TurnsAreSequential ==
    /\ \A j, k \in DOMAIN client.seen :
          j < k => client.seen[j].turn <= client.seen[k].turn
    /\ \A t \in DOMAIN turns :
          LET full == IF turns[t].mode = "stream" THEN EventsFor(turns[t].upstream)
                                                  ELSE Reply(turns[t].mode)
              seen == Seen(t)
          IN  \/ IsPrefix(seen, full)
              \/ /\ IsPrefix(Front(seen), Reply(turns[t].mode))
                 /\ Last(seen) = Error

\* A history is stored with the tool registry its continuation needs, except a
\* compaction's, and holds all that the client was shown of the answer.
HistoryIsWhole ==
    \A t \in DOMAIN turns :
        turns[t].history # NotStored =>
            /\ turns[t].tools \/ turns[t].mode = "compaction"
            /\ \A k \in DOMAIN Seen(t) :
                  Seen(t)[k].type \in {"added", "delta", "item"} =>
                      Contains(turns[t].history, Seen(t)[k].n)

\* A turn whose upstream answered is kept for the turns that continue it (the
\* client may chain on it whatever `store` said) unless its client cancelled.
KeptUnlessCancelled ==
    \A t \in DOMAIN turns :
        /\ t < Current \/ conn.pc \in {"recv", "closed"}
        /\ turns[t].upstream # <<>>
        /\ turns[t].history = NotStored
        => \/ Contains(client.sent, "cancel")
           \/ \E k \in DOMAIN answers : answers[k].turn = t /\ answers[k].status = 200

\* A turn that was answered and not cancelled can be continued: it is kept, whole
\* and with its tools, although its client hung up or interrupted it.
TurnIsKept == HistoryIsWhole /\ KeptUnlessCancelled

\* Between its turns a connection holds no token, and one is never another
\* turn's: a cancel cannot stop what comes after the turn it names.
TokenIsFreed == conn.pc \in {"recv", "closed", "reply", "put_tools", "put"} => token = 0

\* While a turn relays, its cancel is answered with 200 the first time.  (Just
\* after the created event it is not: the token is registered later.)
NotFoundMeansNotRelaying ==
    \A k \in DOMAIN answers :
        /\ answers[k].status = 404
        /\ answers[k].pc \in {"select", "frames", "bad_frame"}
        => \E j \in 1..(k - 1) :
               answers[j].turn = answers[k].turn /\ answers[j].status = 200

\* The token of a turn is there while it relays, and only then.
TokenFollowsTurn == TokenIsFreed /\ NotFoundMeansNotRelaying

\* Every turn ends, and the connection then listens again or closes, whichever of
\* the client, the cancel endpoint and the upstream falls silent.  Only a client
\* that stays and takes nothing more holds it for ever: no cancel ends that wait.
TurnEndsOrStalls ==
    (conn.pc = "reply") ~> (conn.pc \in {"recv", "closed"} \/ []Stalled)

\* "A single WebSocket connection can receive multiple `response.create`
\* messages, but it runs them sequentially (one in-flight response at a time)."
\* (docs/openai-websocket-summary.md)
EveryCreateIsHandled ==
    conn.pc = "recv" /\ inbox = <<>> =>
        Current = Len(SelectSeq(client.sent, LAMBDA f : f = "create"))
=============================================================================
