------------------------------ MODULE SseStream ------------------------------
(***************************************************************************)
(* One response streamed over HTTP (src/handlers/responses.rs,             *)
(* handle_streaming): the spawned task that reads the upstream, sends      *)
(* events through a bounded channel and persists what it has; the client,  *)
(* who may read, stall or leave; and the cancel endpoint, which reaches    *)
(* the task through a token in the store.  Every await is a step boundary. *)
(***************************************************************************)
EXTENDS Frames

CONSTANTS
    Chunks,       \* the frame sequences one read of the upstream may yield
    ReadBound,    \* bound: no more is read after so many frames
    Capacity,     \* mpsc::channel(64)
    StoreFlag,    \* the request's `store`
    MaxCancels    \* bound on the calls of the cancel endpoint

ASSUME SseStreamAssumption ==
    /\ Chunks \subseteq Seq(Frame)
    /\ ReadBound \in Nat /\ Capacity \in Nat \ {0} /\ MaxCancels \in Nat
    /\ StoreFlag \in BOOLEAN

VARIABLES
    task,       \* the spawned task: where it is, and what it has yet to send
    processed,  \* the numbers of the frames in its StreamState
    upstream,   \* the frames received so far
    channel,    \* events sent and not yet read
    client,     \* is it connected, and the events it has read
    token,      \* the token in cancel_tokens: "none", "held"
    signalled,  \* cancel_rx has changed
    tools,      \* put_tools was called
    history,    \* what put stored: NotStored, or frame numbers
    answers     \* the cancel endpoint's answers, and the task's pc then

vars == <<task, processed, upstream, channel, client, token, signalled, tools,
          history, answers>>

NotStored == <<-1>>

Init ==
    /\ task = [pc |-> "register", out |-> <<>>, frames |-> <<>>]
    /\ processed = <<>>
    /\ upstream = <<>>
    /\ channel = <<>>
    /\ client = [connected |-> TRUE, seen |-> <<>>]
    /\ token = "none"
    /\ signalled = FALSE
    /\ tools = FALSE
    /\ history = NotStored
    /\ answers = <<>>

-----------------------------------------------------------------------------
(* The task                                                                *)

\* Mutant: the token is registered when the lifecycle events are out.
Register_Late ==
    \/ /\ task.pc = "register"
       /\ task' = [task EXCEPT !.pc = "lifecycle", !.out = FirstEvents]
       /\ UNCHANGED token
       /\ UNCHANGED <<processed, upstream, channel, client, signalled, tools,
                      history, answers>>
    \/ /\ task.pc = "select" /\ token = "none" /\ ~signalled
       /\ token' = "held"
       /\ UNCHANGED <<task, processed, upstream, channel, client, signalled, tools,
                      history, answers>>

Register ==
    /\ task.pc = "register"
    /\ token' = "held"
    /\ task' = [task EXCEPT !.pc = "lifecycle", !.out = FirstEvents]
    /\ UNCHANGED <<processed, upstream, channel, client, signalled, tools,
                   history, answers>>

\* What follows the loop, and a client that left.
Persisting == IF StoreFlag THEN "put_tools" ELSE "unregister"

AfterSend(out) ==
    IF out # <<>> \/ task.pc = "frames" THEN task.pc
    ELSE IF task.pc = "lifecycle" THEN "select" ELSE "unregister"

\* Mutant: an unbounded channel.
Send_Unbounded ==
    /\ task.out # <<>>
    /\ client.connected
    /\ channel' = Append(channel, Head(task.out))
    /\ task' = [task EXCEPT !.out = Tail(@), !.pc = AfterSend(Tail(task.out))]
    /\ UNCHANGED <<processed, upstream, client, token, signalled, tools,
                   history, answers>>

\* tx.send: waits for room in the channel.
Send ==
    /\ task.out # <<>>
    /\ client.connected
    /\ Len(channel) < Capacity
    /\ channel' = Append(channel, Head(task.out))
    /\ task' = [task EXCEPT !.out = Tail(@), !.pc = AfterSend(Tail(task.out))]
    /\ UNCHANGED <<processed, upstream, client, token, signalled, tools,
                   history, answers>>

\* The receiver is gone: a chunk's events are given up and what there is of the
\* response is persisted; before the first chunk, and for an error, it is not.
SendFails ==
    /\ task.out # <<>>
    /\ ~client.connected
    /\ task' = [pc |-> IF task.pc = "frames" THEN Persisting ELSE "unregister",
                out |-> <<>>, frames |-> <<>>]
    /\ UNCHANGED <<processed, upstream, channel, client, token, signalled, tools,
                   history, answers>>

\* prepare_stream_event: the rewrite of a lifecycle or an error event fails.
PrepareFails ==
    /\ task.pc \in {"lifecycle", "error"}
    /\ task' = [task EXCEPT !.pc = "unregister", !.out = <<>>]
    /\ UNCHANGED <<processed, upstream, channel, client, token, signalled, tools,
                   history, answers>>

\* Mutant: a cancelled stream is dropped.
SelectCancel_Dropped ==
    /\ task.pc = "select"
    /\ signalled
    /\ task' = [task EXCEPT !.pc = "unregister"]
    /\ UNCHANGED <<processed, upstream, channel, client, token, signalled, tools,
                   history, answers>>

\* The cancelled stream is persisted as far as it came.
SelectCancel ==
    /\ task.pc = "select"
    /\ signalled
    /\ task' = [task EXCEPT !.pc = Persisting]
    /\ UNCHANGED <<processed, upstream, channel, client, token, signalled, tools,
                   history, answers>>

\* bytes.next(): a read yields some frames; nothing follows [DONE] but the end.
SelectChunk ==
    /\ task.pc = "select"
    /\ Len(upstream) < ReadBound
    /\ ~Contains(upstream, "done")
    /\ \E chunk \in Chunks :
          /\ task' = [task EXCEPT !.pc = "frames", !.frames = chunk]
          /\ upstream' = upstream \o chunk
    /\ UNCHANGED <<processed, channel, client, token, signalled, tools, history,
                   answers>>

\* Mutant: a failed read is retried on the same body.
SelectEnd_Retried ==
    /\ task.pc = "select"
    /\ task' = [task EXCEPT !.pc = IF Contains(upstream, "done") THEN Persisting ELSE @]
    /\ UNCHANGED <<processed, upstream, channel, client, token, signalled, tools,
                   history, answers>>

\* The body ends, a read fails or the timeout of the whole request strikes.
SelectEnd ==
    /\ task.pc = "select"
    /\ task' = [task EXCEPT !.pc = Persisting]
    /\ UNCHANGED <<processed, upstream, channel, client, token, signalled, tools,
                   history, answers>>

\* The number of the frame that is next.
NextNumber == Len(upstream) - Len(task.frames) + 1

\* Mutant: a frame that yields no events ends the work on the buffer.
NextFrame_SkipEnds ==
    /\ task.pc = "frames"
    /\ task.out = <<>>
    /\ IF task.frames = <<>> \/ Head(task.frames) = "skip"
       THEN /\ task' = [task EXCEPT !.pc = "select", !.frames = <<>>]
            /\ UNCHANGED processed
       ELSE LET frame == Head(task.frames) IN
            /\ task' = [pc     |-> IF frame = "bad" THEN "error" ELSE "frames",
                        out    |-> EventsOf(frame, NextNumber),
                        frames |-> IF frame = "bad" THEN <<>> ELSE Tail(task.frames)]
            /\ processed' = IF frame = "data" THEN Append(processed, NextNumber) ELSE processed
    /\ UNCHANGED <<upstream, channel, client, token, signalled, tools, history,
                   answers>>

\* The next frame of the buffer, or back to the select.
NextFrame ==
    /\ task.pc = "frames"
    /\ task.out = <<>>
    /\ IF task.frames = <<>>
       THEN /\ task' = [task EXCEPT !.pc = "select"]
            /\ UNCHANGED processed
       ELSE LET frame == Head(task.frames) IN
            /\ task' = [pc     |-> IF frame = "bad" THEN "error" ELSE "frames",
                        out    |-> EventsOf(frame, NextNumber),
                        frames |-> IF frame = "bad" THEN <<>> ELSE Tail(task.frames)]
            /\ processed' = IF frame = "data" THEN Append(processed, NextNumber) ELSE processed
    /\ UNCHANGED <<upstream, channel, client, token, signalled, tools, history,
                   answers>>

\* Mutant: the history goes first.
PutTools_After ==
    /\ task.pc = "put_tools"
    /\ history' = processed
    /\ task' = [task EXCEPT !.pc = "put"]
    /\ UNCHANGED <<processed, upstream, channel, client, token, signalled, tools,
                   answers>>

PutTools ==
    /\ task.pc = "put_tools"
    /\ tools' = TRUE
    /\ task' = [task EXCEPT !.pc = "put"]
    /\ UNCHANGED <<processed, upstream, channel, client, token, signalled,
                   history, answers>>

\* Mutant: only what precedes the last chunk is persisted.
Put_BeforeLast ==
    /\ task.pc = "put"
    /\ history' = IF processed = <<>> THEN <<>> ELSE Front(processed)
    /\ task' = [task EXCEPT !.pc = "unregister"]
    /\ UNCHANGED <<processed, upstream, channel, client, token, signalled, tools,
                   answers>>

\* build_response_from_state, and put.
Put ==
    /\ task.pc = "put"
    /\ history' = processed
    /\ task' = [task EXCEPT !.pc = "unregister"]
    /\ UNCHANGED <<processed, upstream, channel, client, token, signalled, tools,
                   answers>>

\* Mutant: the token stays when the client left.
Unregister_Connected ==
    /\ task.pc = "unregister"
    /\ token' = IF client.connected THEN "none" ELSE token
    /\ task' = [task EXCEPT !.pc = "over"]
    /\ UNCHANGED <<processed, upstream, channel, client, signalled, tools,
                   history, answers>>

Unregister ==
    /\ task.pc = "unregister"
    /\ token' = "none"
    /\ task' = [task EXCEPT !.pc = "over"]
    /\ UNCHANGED <<processed, upstream, channel, client, signalled, tools,
                   history, answers>>

-----------------------------------------------------------------------------
(* The client and the cancel endpoint                                      *)

Read ==
    /\ client.connected
    /\ channel # <<>>
    /\ client' = [client EXCEPT !.seen = Append(@, Head(channel))]
    /\ channel' = Tail(channel)
    /\ UNCHANGED <<task, processed, upstream, token, signalled, tools, history,
                   answers>>

Leave ==
    /\ client.connected
    /\ client' = [client EXCEPT !.connected = FALSE]
    /\ channel' = <<>>
    /\ UNCHANGED <<task, processed, upstream, token, signalled, tools, history,
                   answers>>

\* cancel: the response id is known from the created event.
Cancel ==
    /\ Contains(client.seen, FrameEvent(0, "created"))
    /\ Len(answers) < MaxCancels
    /\ answers' = Append(answers, [status |-> IF token = "held" THEN 200 ELSE 404,
                                   pc     |-> task.pc])
    /\ signalled' = (signalled \/ token = "held")
    /\ token' = "none"
    /\ UNCHANGED <<task, processed, upstream, channel, client, tools, history>>

TaskStep ==
    \/ Register \/ Send \/ SendFails \/ PrepareFails
    \/ SelectCancel \/ SelectChunk \/ SelectEnd \/ NextFrame
    \/ PutTools \/ Put \/ Unregister

Next == TaskStep \/ Read \/ Leave \/ Cancel

Spec == Init /\ [][Next]_vars

\* The runtime runs the task, and the request's timeout ends every read.
\* Nothing makes the client read or leave.
FairSpec == Spec /\ WF_vars(TaskStep)

-----------------------------------------------------------------------------
(* Properties                                                              *)

PCs == {"register", "lifecycle", "select", "frames", "error", "put_tools",
        "put", "unregister", "over"}

IsEvents(s) == \A k \in DOMAIN s : s[k].n \in 0..Len(upstream)

\* The shape of the state.
TypeOK ==
    /\ task.pc \in PCs /\ IsEvents(task.out) /\ task.frames \in Seq(Frame)
    /\ Len(task.frames) <= Len(upstream)
    /\ task.out # <<>> => task.pc \in {"lifecycle", "frames", "error"}
    /\ upstream \in Seq(Frame)
    /\ \A k \in DOMAIN processed : processed[k] \in DOMAIN upstream
    /\ Len(channel) <= Capacity /\ IsEvents(channel)
    /\ client.connected \in BOOLEAN /\ IsEvents(client.seen)
    /\ token \in {"none", "held"}
    /\ signalled \in BOOLEAN /\ tools \in BOOLEAN
    /\ Len(answers) <= MaxCancels

\* The stream got beyond the lifecycle events and ended with no bad frame, no
\* cancel and its client still there.
UndisturbedEnd ==
    /\ task.pc = "over" /\ client.connected /\ ~signalled
    /\ Contains(client.seen \o channel, FrameEvent(0, "in_progress"))
    /\ ~Contains(upstream, "bad")

\* The client sees the events of the upstream's frames in order; if it stays
\* until the end of a stream without bad frames that nobody cancelled, it sees
\* them all.
RelayedInOrder ==
    /\ IsPrefix(client.seen, EventsFor(upstream))
    /\ UndisturbedEnd => client.seen \o channel = EventsFor(upstream)

\* A continuation that finds the history finds the tool registry as well.
HistoryHasTools == history # NotStored => tools

\* These are the numbers of the first data frames of the upstream, in order.
ListsData(numbers) ==
    /\ \A j, k \in DOMAIN numbers : j < k => numbers[j] < numbers[k]
    /\ \A k \in DOMAIN numbers :
          /\ numbers[k] \in DOMAIN upstream /\ upstream[numbers[k]] = "data"
          /\ \A n \in 1..numbers[k] : upstream[n] = "data" => Contains(numbers, n)

\* What is persisted holds everything the client was shown, and nothing out of
\* order, also when the client left or cancelled in the middle of a chunk.
HistoryHoldsSeen ==
    history # NotStored =>
        /\ \A k \in DOMAIN client.seen :
              client.seen[k].type \in {"added", "delta"} =>
                  Contains(history, client.seen[k].n)
        /\ ListsData(history)

\* What is persisted is fit for a continuation: all that was shown, with the
\* tool registry, at whichever step the client left or cancelled.
HistoryIsWhole == HistoryHasTools /\ HistoryHoldsSeen

\* No way out of the task leaves its token behind.
TokenIsFreed == task.pc = "over" => token = "none"

\* A client that knows the id is told there is nothing to cancel only when the
\* stream is over or was cancelled before.
NotFoundMeansOver ==
    \A k \in DOMAIN answers :
        answers[k].status = 404 =>
            \/ answers[k].pc = "over"
            \/ \E j \in 1..(k - 1) : answers[j].status = 200

\* The token lives as long as there is something to cancel, and no longer.
TokenFollowsTask == TokenIsFreed /\ NotFoundMeansOver

\* A response that the client saw completed is stored in the end, whatever the
\* client and the cancel endpoint do in between.
CompletedIsStored ==
    (StoreFlag /\ \E k \in DOMAIN client.seen : client.seen[k].type = "completed")
        ~> (history # NotStored)

\* The task waits for a client that neither reads nor leaves.
Blocked == task.out # <<>> /\ client.connected /\ Len(channel) = Capacity

\* Only such a client keeps the task alive: a cancel does not end that wait.
EndsOrBlocked == <>(task.pc = "over") \/ <>[]Blocked
=============================================================================
