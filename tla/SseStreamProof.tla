--------------------------- MODULE SseStreamProof ---------------------------
(***************************************************************************)
(* What SseStream promises for every bound of the channel, of the reads    *)
(* and of the cancels, and for every way the upstream's frames arrive.     *)
(***************************************************************************)
EXTENDS SseStream, SequenceLemmas

USE SseStreamAssumption

-----------------------------------------------------------------------------
(* The shape of the state                                                  *)

Typed ==
    /\ task \in [pc : PCs, out : Seq(Ev), frames : Seq(Frame)]
    /\ upstream \in Seq(Frame)
    /\ processed \in Seq(Nat)
    /\ channel \in Seq(Ev) /\ Len(channel) <= Capacity
    /\ client \in [connected : BOOLEAN, seen : Seq(Ev)]
    /\ token \in {"none", "held"} /\ signalled \in BOOLEAN /\ tools \in BOOLEAN
    /\ history = NotStored \/ history \in Seq(Nat)
    /\ answers \in Seq([status : {200, 404}, pc : PCs]) /\ Len(answers) <= MaxCancels

\* The frames the task has left behind.
Handled == Len(upstream) - Len(task.frames)

Reading == {"register", "lifecycle", "select", "frames"}
Sending == {"lifecycle", "frames", "error"}

\* The task's buffer is the rest of what was received.
FramesAreOwed ==
    /\ Handled \in Nat
    /\ \A k \in DOMAIN task.frames : task.frames[k] = upstream[Handled + k]
    /\ task.pc # "frames" => task.frames = <<>>
    /\ task.pc \notin Sending => task.out = <<>>
    /\ task.pc \in {"register", "lifecycle"} => upstream = <<>>
    /\ task.pc \in Reading => \A n \in 1..Handled : upstream[n] # "bad"
    /\ task.pc = "error" => Contains(upstream, "bad")

Base == Typed /\ FramesAreOwed

LEMMA BaseInit == Init => Base
<1> SUFFICES ASSUME Init PROVE Base
  OBVIOUS
<1>1. <<>> \in Seq(Ev) /\ <<>> \in Seq(Frame) /\ <<>> \in Seq(Nat)
      /\ <<>> \in Seq([status : {200, 404}, pc : PCs]) /\ Len(<<>>) = 0
  OBVIOUS
<1>2. Typed
  <2>1. task \in [pc : PCs, out : Seq(Ev), frames : Seq(Frame)]
    BY <1>1 DEF Init, PCs
  <2>2. client \in [connected : BOOLEAN, seen : Seq(Ev)]
    BY <1>1 DEF Init
  <2>3. channel \in Seq(Ev) /\ Len(channel) <= Capacity
    BY <1>1 DEF Init
  <2>4. answers \in Seq([status : {200, 404}, pc : PCs]) /\ Len(answers) <= MaxCancels
    BY <1>1 DEF Init
  <2> QED BY <1>1, <2>1, <2>2, <2>3, <2>4 DEF Init, Typed
<1>3. task.pc = "register" /\ task.out = <<>> /\ task.frames = <<>> /\ upstream = <<>>
  BY DEF Init
<1>4. FramesAreOwed
  <2>1. Handled = 0
    BY <1>1, <1>3 DEF Handled
  <2> QED BY <1>3, <2>1 DEF FramesAreOwed
<1> QED BY <1>2, <1>4 DEF Base

\* Where each step but Send and NextFrame leaves the task.
LEMMA TaskAfter ==
    ASSUME Typed
    PROVE  /\ Register => /\ task'.pc = "lifecycle" /\ task'.out = FirstEvents
                          /\ task'.frames = task.frames
           /\ SendFails => /\ task'.pc = IF task.pc = "frames" THEN Persisting ELSE "unregister"
                           /\ task'.out = <<>> /\ task'.frames = <<>>
           /\ PrepareFails => /\ task'.pc = "unregister" /\ task'.out = <<>>
                              /\ task'.frames = task.frames
           /\ SelectCancel \/ SelectEnd =>
                 task'.pc = Persisting /\ task'.out = task.out /\ task'.frames = task.frames
           /\ SelectChunk => /\ task'.pc = "frames" /\ task'.out = task.out
                             /\ task'.frames \in Chunks /\ upstream' = upstream \o task'.frames
           /\ PutTools =>
                 task'.pc = "put" /\ task'.out = task.out /\ task'.frames = task.frames
           /\ Put =>
                 task'.pc = "unregister" /\ task'.out = task.out /\ task'.frames = task.frames
           /\ Unregister =>
                 task'.pc = "over" /\ task'.out = task.out /\ task'.frames = task.frames
           /\ Register \/ SendFails \/ PrepareFails \/ SelectCancel \/ SelectEnd
              \/ SelectChunk \/ PutTools \/ Put \/ Unregister
              => task' \in [pc : PCs, out : Seq(Ev), frames : Seq(Frame)]
<1> DEFINE T == [pc : PCs, out : Seq(Ev), frames : Seq(Frame)]
<1>1. task \in T
  BY DEF Typed
<1>2. Persisting \in PCs /\ <<>> \in Seq(Ev) /\ <<>> \in Seq(Frame) /\ FirstEvents \in Seq(Ev)
  BY LifecycleType DEF Persisting, PCs
<1>3. ASSUME NEW pc \in PCs, task' = [task EXCEPT !.pc = pc]
      PROVE  task' \in T /\ task'.pc = pc /\ task'.out = task.out /\ task'.frames = task.frames
  BY <1>1, <1>3
<1>4. ASSUME NEW pc \in PCs, NEW out \in Seq(Ev), task' = [task EXCEPT !.pc = pc, !.out = out]
      PROVE  task' \in T /\ task'.pc = pc /\ task'.out = out /\ task'.frames = task.frames
  BY <1>1, <1>4
<1>5. {"lifecycle", "unregister", "put", "over", "frames"} \subseteq PCs
  BY DEF PCs
<1>6. Register => /\ task'.pc = "lifecycle" /\ task'.out = FirstEvents
                  /\ task'.frames = task.frames /\ task' \in T
  BY <1>2, <1>4, <1>5 DEF Register
<1>7. SendFails => /\ task'.pc = IF task.pc = "frames" THEN Persisting ELSE "unregister"
                   /\ task'.out = <<>> /\ task'.frames = <<>> /\ task' \in T
  BY <1>2, <1>5 DEF SendFails
<1>8. PrepareFails => /\ task'.pc = "unregister" /\ task'.out = <<>>
                      /\ task'.frames = task.frames /\ task' \in T
  BY <1>2, <1>4, <1>5 DEF PrepareFails
<1>9. SelectCancel \/ SelectEnd =>
          /\ task'.pc = Persisting /\ task'.out = task.out /\ task'.frames = task.frames
          /\ task' \in T
  BY <1>2, <1>3 DEF SelectCancel, SelectEnd
<1>10. SelectChunk => /\ task'.pc = "frames" /\ task'.out = task.out /\ task' \in T
                      /\ task'.frames \in Chunks /\ upstream' = upstream \o task'.frames
  <2> SUFFICES ASSUME SelectChunk
               PROVE  /\ task'.pc = "frames" /\ task'.out = task.out /\ task' \in T
                      /\ task'.frames \in Chunks /\ upstream' = upstream \o task'.frames
    OBVIOUS
  <2>1. PICK chunk \in Chunks : /\ task' = [task EXCEPT !.pc = "frames", !.frames = chunk]
                                /\ upstream' = upstream \o chunk
    BY DEF SelectChunk
  <2>2. chunk \in Seq(Frame)
    OBVIOUS
  <2> QED BY <1>1, <1>5, <2>1, <2>2
<1>11. PutTools => /\ task'.pc = "put" /\ task'.out = task.out /\ task'.frames = task.frames
                   /\ task' \in T
  BY <1>3, <1>5 DEF PutTools
<1>12. Put => /\ task'.pc = "unregister" /\ task'.out = task.out /\ task'.frames = task.frames
              /\ task' \in T
  BY <1>3, <1>5 DEF Put
<1>13. Unregister => /\ task'.pc = "over" /\ task'.out = task.out /\ task'.frames = task.frames
                     /\ task' \in T
  BY <1>3, <1>5 DEF Unregister
<1> HIDE DEF T
<1> QED BY <1>6, <1>7, <1>8, <1>9, <1>10, <1>11, <1>12, <1>13 DEF T

\* What the next frame of the buffer does to the task.
LEMMA FrameIs ==
    ASSUME Typed, FramesAreOwed, NextFrame, task.frames # <<>>
    PROVE  LET frame == upstream[Handled + 1] IN
           /\ Handled + 1 \in 1..Len(upstream) /\ NextNumber = Handled + 1 /\ frame \in Frame
           /\ Len(upstream) \in Nat
           /\ task' \in [pc : PCs, out : Seq(Ev), frames : Seq(Frame)]
           /\ task'.pc = IF frame = "bad" THEN "error" ELSE "frames"
           /\ task'.out = EventsOf(frame, Handled + 1)
           /\ frame = "bad" => task'.frames = <<>> /\ Handled' = Len(upstream)
           /\ frame # "bad" => task'.frames = Tail(task.frames) /\ Handled' = Handled + 1
           /\ processed' = IF frame = "data" THEN Append(processed, Handled + 1) ELSE processed
<1> DEFINE frame == Head(task.frames)
           next == Handled + 1
           pc == IF frame = "bad" THEN "error" ELSE "frames"
           rest == IF frame = "bad" THEN <<>> ELSE Tail(task.frames)
<1>1. /\ Len(task.frames) \in Nat /\ Len(task.frames) >= 1
      /\ Tail(task.frames) \in Seq(Frame) /\ Len(Tail(task.frames)) = Len(task.frames) - 1
      /\ frame \in Frame /\ frame = task.frames[1]
  BY HeadTail DEF Typed
<1>2. /\ next = NextNumber /\ next \in 1..Len(upstream) /\ upstream[next] = frame
      /\ Len(upstream) \in Nat
  BY <1>1 DEF Handled, NextNumber, Typed, FramesAreOwed
<1>3. pc \in PCs
  BY DEF PCs
<1>4. rest \in Seq(Frame)
  BY <1>1
<1>5. EventsOf(frame, next) \in Seq(Ev)
  <2>1. next \in Nat /\ frame \in Frame
    BY <1>1, <1>2
  <2> HIDE DEF frame, next
  <2> QED BY <2>1, EventsOfType
<1>6. task' = [pc |-> pc, out |-> EventsOf(frame, next), frames |-> rest]
  BY <1>2 DEF NextFrame
<1>7. /\ task' \in [pc : PCs, out : Seq(Ev), frames : Seq(Frame)]
      /\ task'.pc = pc /\ task'.out = EventsOf(frame, next) /\ task'.frames = rest
  <2> HIDE DEF pc, rest, frame, next
  <2> QED BY <1>3, <1>4, <1>5, <1>6
<1>8. processed' = IF frame = "data" THEN Append(processed, next) ELSE processed
  BY <1>2 DEF NextFrame
<1>9. upstream' = upstream
  BY DEF NextFrame
<1>10. frame = "bad" => task'.frames = <<>> /\ Handled' = Len(upstream)
  <2> SUFFICES ASSUME frame = "bad" PROVE task'.frames = <<>> /\ Handled' = Len(upstream)
    OBVIOUS
  <2>1. task'.frames = <<>>
    BY <1>7
  <2>2. Handled' = Len(upstream) - 0
    BY <1>9, <2>1 DEF Handled
  <2> QED BY <1>2, <2>1, <2>2
<1>11. frame # "bad" => task'.frames = Tail(task.frames) /\ Handled' = next
  <2> SUFFICES ASSUME frame # "bad"
               PROVE  task'.frames = Tail(task.frames) /\ Handled' = next
    OBVIOUS
  <2>1. task'.frames = Tail(task.frames)
    BY <1>7
  <2>2. Handled' = Len(upstream) - (Len(task.frames) - 1)
    BY <1>1, <1>9, <2>1 DEF Handled
  <2>3. Handled = Len(upstream) - Len(task.frames)
    BY DEF Handled
  <2>4. Handled' = next
    BY <1>1, <1>2, <2>2, <2>3
  <2> QED BY <2>1, <2>4
<1> HIDE DEF frame
<1> QED BY <1>1, <1>2, <1>7, <1>8, <1>10, <1>11

\* What sending one event does to the task.
LEMMA SendIs ==
    ASSUME Typed, Send
    PROVE  /\ task' \in [pc : PCs, out : Seq(Ev), frames : Seq(Frame)]
           /\ task'.frames = task.frames /\ task'.out = Tail(task.out)
           /\ Head(task.out) \in Ev /\ channel' \in Seq(Ev)
           /\ task'.pc = AfterSend(Tail(task.out))
<1>1. task.out # <<>> /\ task.out \in Seq(Ev)
  BY DEF Typed, Send
<1>2. Tail(task.out) \in Seq(Ev) /\ Head(task.out) \in Ev
  BY <1>1, HeadTail
<1>3. AfterSend(Tail(task.out)) \in PCs
  BY DEF AfterSend, Typed, PCs
<1>4. channel' \in Seq(Ev)
  BY <1>2 DEF Send, Typed
<1>5. task' = [task EXCEPT !.out = Tail(task.out), !.pc = AfterSend(Tail(task.out))]
  BY DEF Send
<1> QED BY <1>2, <1>3, <1>4, <1>5 DEF Typed

LEMMA BaseNext ==
    ASSUME Base, [Next]_vars
    PROVE  Base'
<1> USE DEF Base
<1> DEFINE T == [pc : PCs, out : Seq(Ev), frames : Seq(Frame)]
<1>1. CASE Register
  <2>1. Typed'
    BY <1>1, TaskAfter DEF Register, Typed
  <2>2. FramesAreOwed'
    BY <1>1, TaskAfter DEF Register, Typed, FramesAreOwed, Handled, Sending, Reading
  <2> QED BY <2>1, <2>2
<1>2. CASE Send
  <2>1. Typed'
    BY <1>2, SendIs DEF Send, Typed
  <2>2. task'.pc = "frames" <=> task.pc = "frames"
    BY <1>2, SendIs DEF AfterSend, Send, FramesAreOwed, Sending
  <2>3. /\ task'.frames = task.frames /\ upstream' = upstream /\ Handled' = Handled
        /\ \A k \in DOMAIN task'.frames : task'.frames[k] = upstream'[Handled' + k]
        /\ task'.pc # "frames" => task'.frames = <<>>
    <3>1. task'.frames = task.frames /\ upstream' = upstream
      BY <1>2, SendIs DEF Send
    <3>2. Handled' = Handled
      BY <3>1 DEF Handled
    <3> QED BY <2>2, <3>1, <3>2 DEF FramesAreOwed
  <2>4. /\ task'.pc \notin Sending => task'.out = <<>>
        /\ task'.pc \in {"register", "lifecycle"} => task'.pc = task.pc
        /\ task'.pc \in Reading => task.pc \in Reading
        /\ task'.pc = "error" => task.pc = "error"
    <3>1. task.pc \in Sending /\ task'.out = Tail(task.out) /\ task'.pc = AfterSend(Tail(task.out))
      BY <1>2, SendIs DEF Send, FramesAreOwed
    <3> QED BY <3>1 DEF AfterSend, Sending, Reading
  <2>5. FramesAreOwed'
    BY <2>3, <2>4 DEF FramesAreOwed
  <2> QED BY <2>1, <2>5
<1>3. CASE SendFails
  <2>1. Typed'
    BY <1>3, TaskAfter DEF SendFails, Typed
  <2>2. FramesAreOwed'
    BY <1>3, TaskAfter DEF SendFails, Typed, FramesAreOwed, Handled, Sending, Reading, Persisting
  <2> QED BY <2>1, <2>2
<1>4. CASE PrepareFails
  <2>1. Typed'
    BY <1>4, TaskAfter DEF PrepareFails, Typed
  <2>2. FramesAreOwed'
    BY <1>4, TaskAfter DEF PrepareFails, Typed, FramesAreOwed, Handled, Sending, Reading
  <2> QED BY <2>1, <2>2
<1>5. CASE SelectCancel \/ SelectEnd
  <2>1. Typed'
    BY <1>5, TaskAfter DEF SelectCancel, SelectEnd, Typed
  <2>2. FramesAreOwed'
    BY SMTT(30), <1>5, TaskAfter DEF SelectCancel, SelectEnd, Typed, FramesAreOwed, Handled, Sending,
                           Reading, Persisting
  <2> QED BY <2>1, <2>2
<1>6. CASE SelectChunk
  <2>1. PICK chunk \in Chunks : chunk = task'.frames /\ upstream' = upstream \o chunk
    BY <1>6, TaskAfter
  <2>2. chunk \in Seq(Frame)
    OBVIOUS
  <2>3. Typed'
    <3>1. upstream' \in Seq(Frame)
      BY <2>1, <2>2 DEF Typed
    <3> QED BY <1>6, <3>1, TaskAfter DEF SelectChunk, Typed
  <2>4. Handled' = Len(upstream) /\ Len(upstream) \in Nat /\ Handled = Len(upstream)
    BY <1>6, <2>1, <2>2 DEF SelectChunk, Typed, FramesAreOwed, Handled
  <2>5. FramesAreOwed'
    <3>1. \A k \in DOMAIN chunk : chunk[k] = upstream'[Len(upstream) + k]
      <4> SUFFICES ASSUME NEW k \in DOMAIN chunk
                   PROVE  chunk[k] = upstream'[Len(upstream) + k]
        OBVIOUS
      <4>1. upstream \in Seq(Frame)
        BY DEF Typed
      <4> QED BY <2>1, <2>2, <4>1, ConcatProperties
    <3>2. \A n \in 1..Len(upstream) : upstream'[n] = upstream[n]
      BY <2>1, <2>2 DEF Typed
    <3>3. task.out = <<>> /\ \A n \in 1..Len(upstream) : upstream[n] # "bad"
      BY <1>6, <2>4 DEF SelectChunk, FramesAreOwed, Reading, Sending
    <3> QED BY <1>6, <2>1, <2>4, <3>1, <3>2, <3>3, TaskAfter DEF FramesAreOwed, Sending
  <2> QED BY <2>3, <2>5
<1>7. CASE NextFrame /\ task.frames = <<>>
  <2>1. /\ task' \in T /\ task'.pc = "select" /\ task'.out = task.out
        /\ task'.frames = task.frames
    BY <1>7 DEF NextFrame, PCs, Typed
  <2>2. Typed'
    BY <1>7, <2>1 DEF NextFrame, Typed
  <2>3. FramesAreOwed'
    BY <1>7, <2>1 DEF NextFrame, Typed, FramesAreOwed, Handled, Sending, Reading
  <2> QED BY <2>2, <2>3
<1>8. CASE NextFrame /\ task.frames # <<>>
  <2> DEFINE next == Handled + 1
             frame == upstream[next]
  <2>1. /\ next \in 1..Len(upstream) /\ Len(upstream) \in Nat /\ task' \in T
        /\ task'.pc = IF frame = "bad" THEN "error" ELSE "frames"
        /\ frame = "bad" => task'.frames = <<>> /\ Handled' = Len(upstream)
        /\ frame # "bad" => task'.frames = Tail(task.frames) /\ Handled' = next
        /\ processed' = processed \/ processed' = Append(processed, next)
    BY <1>8, FrameIs
  <2>2. /\ Len(task.frames) \in Nat /\ Len(task.frames) >= 1
        /\ Tail(task.frames) \in Seq(Frame) /\ Len(Tail(task.frames)) = Len(task.frames) - 1
        /\ \A k \in 1..(Len(task.frames) - 1) : Tail(task.frames)[k] = task.frames[k + 1]
    BY <1>8, HeadTail DEF Typed
  <2>3. Typed'
    <3>1. next \in Nat /\ processed \in Seq(Nat)
      BY <2>1 DEF Typed
    <3>2. processed' \in Seq(Nat)
      <4>1. processed' = processed \/ processed' = Append(processed, next)
        BY <2>1
      <4> HIDE DEF next
      <4> QED BY <3>1, <4>1
    <3> QED BY <1>8, <2>1, <3>2 DEF NextFrame, Typed
  <2>4. upstream' = upstream /\ task.pc = "frames" /\ Handled \in Nat
    BY <1>8 DEF NextFrame, FramesAreOwed
  <2>5. CASE frame = "bad"
    <3>1. Contains(upstream, "bad")
      BY <2>1, <2>5 DEF Contains
    <3> QED BY <2>1, <2>3, <2>4, <2>5, <3>1 DEF FramesAreOwed, Sending, Reading
  <2>6. CASE frame # "bad"
    <3>1. ASSUME NEW k \in DOMAIN Tail(task.frames)
          PROVE  Tail(task.frames)[k] = upstream[next + k]
      <4>1. k \in 1..(Len(task.frames) - 1) /\ k + 1 \in DOMAIN task.frames
        BY <2>2 DEF Typed
      <4>2. task.frames[k + 1] = upstream[Handled + (k + 1)]
        BY <4>1 DEF FramesAreOwed
      <4>3. Handled + (k + 1) = next + k
        BY <2>4, <4>1
      <4> QED BY <2>2, <4>1, <4>2, <4>3
    <3>2. \A n \in 1..next : upstream[n] # "bad"
      BY <2>1, <2>4, <2>6 DEF FramesAreOwed, Reading
    <3>3. next \in Nat
      BY <2>1
    <3> HIDE DEF next
    <3> QED BY <2>1, <2>3, <2>4, <2>6, <3>1, <3>2, <3>3 DEF FramesAreOwed, Sending, Reading
  <2> QED BY <2>5, <2>6
<1>9. CASE PutTools \/ Put \/ Unregister
  <2>1. Typed'
    <3>1. token' \in {"none", "held"} /\ tools' \in BOOLEAN
      BY <1>9 DEF PutTools, Put, Unregister, Typed
    <3>2. history' = NotStored \/ history' \in Seq(Nat)
      BY <1>9, Zenon DEF PutTools, Put, Unregister, Typed
    <3>3. UNCHANGED <<processed, upstream, channel, client, signalled, answers>>
      BY <1>9 DEF PutTools, Put, Unregister
    <3> QED BY <1>9, <3>1, <3>2, <3>3, TaskAfter DEF Typed
  <2>2. FramesAreOwed'
    BY SMTT(30), <1>9, TaskAfter
    DEF PutTools, Put, Unregister, Typed, FramesAreOwed, Handled, Sending, Reading
  <2> QED BY <2>1, <2>2
<1>10. CASE Read \/ Leave
  <2>1. Typed'
    <3>1. CASE Read
      <4>1. Head(channel) \in Ev /\ Tail(channel) \in Seq(Ev)
            /\ Len(channel) \in Nat /\ Len(Tail(channel)) = Len(channel) - 1
        BY <3>1, HeadTail DEF Read, Typed
      <4>2. client' = [client EXCEPT !.seen = Append(client.seen, Head(channel))]
        BY <3>1 DEF Read
      <4>3. client' \in [connected : BOOLEAN, seen : Seq(Ev)]
        <5>1. client \in [connected : BOOLEAN, seen : Seq(Ev)]
          BY DEF Typed
        <5>2. Append(client.seen, Head(channel)) \in Seq(Ev)
          BY <4>1, <5>1
        <5> QED BY <4>2, <5>1, <5>2
      <4> QED BY <3>1, <4>1, <4>3 DEF Read, Typed
    <3>2. CASE Leave
      <4>1. client \in [connected : BOOLEAN, seen : Seq(Ev)]
        BY DEF Typed
      <4>2. client' = [client EXCEPT !.connected = FALSE]
        BY <3>2 DEF Leave
      <4>3. client' \in [connected : BOOLEAN, seen : Seq(Ev)]
        BY <4>1, <4>2
      <4>4. channel' = <<>> /\ <<>> \in Seq(Ev) /\ Len(<<>>) = 0
        BY <3>2 DEF Leave
      <4>5. Len(channel') <= Capacity
        BY <4>4
      <4> QED BY <3>2, <4>3, <4>4, <4>5 DEF Leave, Typed
    <3> QED BY <1>10, <3>1, <3>2
  <2>2. FramesAreOwed'
    BY <1>10 DEF Read, Leave, FramesAreOwed, Handled
  <2> QED BY <2>1, <2>2
<1>11. CASE Cancel
  <2>1. answers' \in Seq([status : {200, 404}, pc : PCs]) /\ Len(answers') <= MaxCancels
    BY <1>11 DEF Cancel, Typed
  <2>2. Typed'
    BY <1>11, <2>1 DEF Cancel, Typed
  <2>3. FramesAreOwed'
    BY <1>11 DEF Cancel, FramesAreOwed, Handled
  <2> QED BY <2>2, <2>3
<1>12. CASE UNCHANGED vars
  BY <1>12 DEF vars, Typed, FramesAreOwed, Handled
<1> QED BY <1>1, <1>2, <1>3, <1>4, <1>5, <1>6, <1>7, <1>8, <1>9, <1>10, <1>11, <1>12
        DEF Next, TaskStep

LEMMA BaseHolds == Spec => []Base
BY BaseInit, BaseNext, PTL DEF Spec

-----------------------------------------------------------------------------
(* The token                                                               *)

\* A token that went before the end was taken by a cancel that was told so.
TokenInv ==
    /\ task.pc = "over" => token = "none"
    /\ task.pc = "register" => client.seen = <<>> /\ channel = <<>>
    /\ task.pc \notin {"register", "over"} /\ token = "none" =>
          \E k \in DOMAIN answers : answers[k].status = 200
    /\ NotFoundMeansOver

LEMMA TokenInit == Init => TokenInv
BY DEF Init, TokenInv, NotFoundMeansOver

LEMMA TokenNext ==
    ASSUME Base, TokenInv, [Next]_vars
    PROVE  TokenInv'
<1> USE DEF Base
<1>1. CASE Register
  BY <1>1, TaskAfter DEF Register, TokenInv, NotFoundMeansOver
<1>2. CASE Send
  <2>1. task.pc \in Sending
    BY <1>2 DEF Send, FramesAreOwed
  <2>2. task'.pc \notin {"register", "over"}
    BY <1>2, <2>1, SendIs DEF AfterSend, Sending
  <2> QED BY <1>2, <2>1, <2>2 DEF Send, Sending, TokenInv, NotFoundMeansOver
<1>3. CASE SendFails \/ PrepareFails
  <2>1. task.pc \in Sending
    BY <1>3 DEF SendFails, PrepareFails, FramesAreOwed, Sending
  <2> QED BY <1>3, <2>1, TaskAfter DEF SendFails, PrepareFails, Sending, Persisting, TokenInv,
                                       NotFoundMeansOver
<1>4. CASE SelectCancel \/ SelectChunk \/ SelectEnd
  <2>1. UNCHANGED <<channel, client, token, answers>> /\ task.pc = "select"
    BY <1>4 DEF SelectCancel, SelectChunk, SelectEnd
  <2>2. task'.pc \notin {"register", "over"}
    BY <1>4, TaskAfter DEF Persisting
  <2> QED BY <2>1, <2>2 DEF TokenInv, NotFoundMeansOver
<1>5. CASE NextFrame
  <2>1. task'.pc \notin {"register", "over"}
    <3>1. CASE task.frames = <<>>
      BY <1>5, <3>1 DEF NextFrame, Typed
    <3>2. CASE task.frames # <<>>
      BY <1>5, <3>2, FrameIs
    <3> QED BY <3>1, <3>2
  <2> QED BY <1>5, <2>1 DEF NextFrame, TokenInv, NotFoundMeansOver
<1>6. CASE PutTools \/ Put \/ Unregister
  <2>1. UNCHANGED <<channel, client, answers>> /\ task.pc \notin {"register", "over"}
    BY <1>6 DEF PutTools, Put, Unregister
  <2>2. \/ task'.pc \in {"put", "unregister"} /\ token' = token
        \/ task'.pc = "over" /\ token' = "none"
    BY <1>6, TaskAfter DEF PutTools, Put, Unregister
  <2> QED BY <2>1, <2>2 DEF TokenInv, NotFoundMeansOver
<1>7. CASE Read \/ Leave
  <2>1. UNCHANGED <<task, token, answers>>
    BY <1>7 DEF Read, Leave
  <2>2. task.pc # "register" \/ (Leave /\ client'.seen = client.seen /\ channel' = <<>>)
    BY <1>7 DEF Read, Leave, TokenInv, Typed
  <2> QED BY <2>1, <2>2 DEF TokenInv, NotFoundMeansOver
<1>8. CASE Cancel
  <2> DEFINE answer == [status |-> IF token = "held" THEN 200 ELSE 404, pc |-> task.pc]
  <2>1. /\ UNCHANGED <<task, channel, client>> /\ token' = "none"
        /\ answers' = Append(answers, answer)
    BY <1>8 DEF Cancel
  <2>2. /\ Len(answers) \in Nat /\ Len(answers') = Len(answers) + 1
        /\ answers'[Len(answers) + 1] = answer
        /\ \A k \in DOMAIN answers : answers'[k] = answers[k]
        /\ DOMAIN answers' = 1..(Len(answers) + 1) /\ DOMAIN answers = 1..Len(answers)
    <3>1. answers \in Seq([status : {200, 404}, pc : PCs])
      BY DEF Typed
    <3> HIDE DEF answer
    <3> QED BY <2>1, <3>1
  <2>3. task.pc # "register"
    BY <1>8 DEF Cancel, Contains, TokenInv
  <2>4. token = "held" => answer.status = 200
    OBVIOUS
  <2>5. token # "held" => token = "none" /\ answer.status = 404
    BY DEF Typed
  <2>6. answer.pc = task.pc
    OBVIOUS
  <2> HIDE DEF answer
  <2>7. task.pc # "over" => \E k \in DOMAIN answers' : answers'[k].status = 200
    BY <2>2, <2>3, <2>4, <2>5 DEF TokenInv
  <2>8. NotFoundMeansOver'
    <3> SUFFICES ASSUME NEW k \in DOMAIN answers', answers'[k].status = 404
                 PROVE  \/ answers'[k].pc = "over"
                        \/ \E j \in 1..(k - 1) : answers'[j].status = 200
      BY DEF NotFoundMeansOver
    <3>1. CASE k \in DOMAIN answers
      <4>1. \/ answers[k].pc = "over"
            \/ \E j \in 1..(k - 1) : answers[j].status = 200
        BY <2>2, <3>1 DEF TokenInv, NotFoundMeansOver
      <4>2. \A j \in 1..(k - 1) : answers'[j] = answers[j]
        BY <2>2, <3>1
      <4> QED BY <2>2, <3>1, <4>1, <4>2
    <3>2. CASE k = Len(answers) + 1
      <4>1. token = "none"
        BY <2>2, <2>4, <2>5, <3>2
      <4>2. CASE task.pc = "over"
        BY <2>2, <2>6, <3>2, <4>2
      <4>3. CASE task.pc # "over"
        <5>1. PICK j \in DOMAIN answers : answers[j].status = 200
          BY <2>3, <4>1, <4>3 DEF TokenInv
        <5> QED BY <2>2, <3>2, <5>1
      <4> QED BY <4>2, <4>3
    <3> QED BY <2>2, <3>1, <3>2
  <2> QED BY <2>1, <2>3, <2>7, <2>8 DEF TokenInv
<1>9. CASE UNCHANGED vars
  BY <1>9 DEF vars, TokenInv, NotFoundMeansOver
<1> QED BY <1>1, <1>2, <1>3, <1>4, <1>5, <1>6, <1>7, <1>8, <1>9 DEF Next, TaskStep

-----------------------------------------------------------------------------
(* What is persisted                                                       *)

FitsIn(events, frames, numbers) ==
    \A k \in DOMAIN events :
        /\ events[k].n \in 0..Len(frames)
        /\ events[k].type \in {"added", "delta"} => Contains(numbers, events[k].n)

Fits(events) == FitsIn(events, upstream, processed)

\* The StreamState holds the data of the frames handled, whose events alone are
\* on their way.
DataIsKept ==
    /\ Fits(task.out) /\ Fits(channel) /\ Fits(client.seen)
    /\ ListsData(processed)
    /\ \A k \in DOMAIN processed : processed[k] <= Handled
    /\ task.pc \in Reading =>
          \A n \in 1..Handled : upstream[n] = "data" => Contains(processed, n)

\* Once the history is stored, nothing more is processed.
HistoryInv ==
    /\ task.pc = "put" => tools
    /\ history # NotStored =>
          tools /\ history = processed /\ task.pc \in {"unregister", "over"}

LEMMA DataInit == Init => DataIsKept /\ HistoryInv
<1> SUFFICES ASSUME Init PROVE DataIsKept /\ HistoryInv
  OBVIOUS
<1>1. DOMAIN <<>> = {} /\ Len(<<>>) = 0
  OBVIOUS
<1>2. Handled = 0
  BY <1>1 DEF Init, Handled
<1> QED BY <1>1, <1>2 DEF Init, DataIsKept, Fits, FitsIn, ListsData, HistoryInv

\* What fits goes on fitting while more is received and processed, and so does
\* what is split off or added that fits.
LEMMA StillFits ==
    ASSUME NEW u \in Seq(Frame), NEW v \in Seq(Frame), Len(u) <= Len(v),
           NEW p, NEW q, \A n : Contains(p, n) => Contains(q, n),
           NEW events, FitsIn(events, u, p)
    PROVE  FitsIn(events, v, q)
BY DEF FitsIn

LEMMA SplitFits ==
    ASSUME NEW u, NEW p, NEW a \in Seq(Ev), NEW b \in Seq(Ev), b # <<>>,
           FitsIn(a, u, p), FitsIn(b, u, p)
    PROVE  FitsIn(Append(a, Head(b)), u, p) /\ FitsIn(Tail(b), u, p)
<1>1. /\ Head(b) = b[1] /\ 1 \in DOMAIN b
      /\ \A k \in DOMAIN Tail(b) : k + 1 \in DOMAIN b /\ Tail(b)[k] = b[k + 1]
      /\ Head(b) \in Ev
  BY HeadTail
<1>2. FitsIn(Tail(b), u, p)
  BY <1>1 DEF FitsIn
<1>3. ASSUME NEW k \in DOMAIN Append(a, Head(b))
      PROVE  /\ Append(a, Head(b))[k].n \in 0..Len(u)
             /\ Append(a, Head(b))[k].type \in {"added", "delta"} =>
                    Contains(p, Append(a, Head(b))[k].n)
  <2>1. CASE k \in DOMAIN a
    <3>1. Append(a, Head(b))[k] = a[k]
      BY <2>1
    <3> QED BY <2>1, <3>1 DEF FitsIn
  <2>2. CASE k \notin DOMAIN a
    <3>1. Append(a, Head(b))[k] = b[1]
      BY <1>1, <1>3, <2>2
    <3> QED BY <1>1, <3>1 DEF FitsIn
  <2> QED BY <2>1, <2>2
<1> QED BY <1>2, <1>3 DEF FitsIn

LEMMA EventsFit ==
    ASSUME NEW u \in Seq(Frame), NEW p, NEW n \in 1..Len(u), NEW frame \in Frame,
           frame = "data" => Contains(p, n)
    PROVE  FitsIn(EventsOf(frame, n), u, p)
<1>1. \/ frame = "data" /\ EventsOf(frame, n) = <<FrameEvent(n, "added"), FrameEvent(n, "delta")>>
      \/ EventsOf(frame, n) = <<>>
      \/ EventsOf(frame, n) = <<FrameEvent(n, "error")>>
      \/ EventsOf(frame, n) = <<FrameEvent(n, "completed")>>
  BY Zenon DEF EventsOf, Frame
<1>2. n \in 0..Len(u)
  OBVIOUS
<1> QED BY <1>1, <1>2 DEF FitsIn, FrameEvent

LEMMA LifecycleFits ==
    ASSUME NEW u \in Seq(Frame), NEW p
    PROVE  FitsIn(FirstEvents, u, p)
BY DEF FitsIn, FirstEvents, FrameEvent

LEMMA NoneFits == ASSUME NEW u, NEW p PROVE FitsIn(<<>>, u, p)
BY DEF FitsIn

LEMMA DataNext ==
    ASSUME Base, Base', DataIsKept, [Next]_vars
    PROVE  DataIsKept'
<1> USE DEF Base
<1>t. /\ upstream \in Seq(Frame) /\ upstream' \in Seq(Frame)
      /\ Len(upstream) \in Nat /\ Len(upstream') \in Nat
      /\ Handled \in Nat /\ Handled' \in Nat
      /\ processed \in Seq(Nat) /\ task.out \in Seq(Ev) /\ channel \in Seq(Ev)
      /\ client.seen \in Seq(Ev)
  BY SMTT(30) DEF Typed, FramesAreOwed
\* A step of the task that neither receives nor handles a frame nor sends.
<1>s. ASSUME UNCHANGED <<processed, upstream, channel, client>>,
             task'.out \in {task.out, <<>>, FirstEvents}, Handled' >= Handled,
             task'.pc \in Reading => task.pc \in Reading /\ Handled' = Handled
      PROVE  DataIsKept'
  <2>1. FitsIn(task'.out, upstream, processed)
    BY <1>s, <1>t, NoneFits, LifecycleFits DEF DataIsKept, Fits
  <2> QED BY <1>s, <1>t, <2>1 DEF DataIsKept, Fits, ListsData, Typed
<1>h. task'.frames = task.frames /\ upstream' = upstream => Handled' = Handled
  BY DEF Handled
<1>1. CASE Register
  BY <1>1, <1>s, <1>h, <1>t, TaskAfter DEF Register, Reading
<1>2. CASE Send
  <2>1. /\ UNCHANGED <<processed, upstream, client>> /\ task.out # <<>>
        /\ channel' = Append(channel, Head(task.out)) /\ task'.out = Tail(task.out)
        /\ Handled' = Handled
    BY <1>2, <1>h, SendIs DEF Send
  <2>2. FitsIn(channel', upstream, processed) /\ FitsIn(task'.out, upstream, processed)
    BY <1>t, <2>1, SplitFits DEF DataIsKept, Fits
  <2>3. task'.pc \in Reading => task.pc \in Reading
    BY <1>2, SendIs DEF AfterSend, Reading
  <2> QED BY <1>t, <2>1, <2>2, <2>3 DEF DataIsKept, Fits, ListsData
<1>3. CASE SendFails
  <2>1. Handled' = Len(upstream) /\ Handled <= Len(upstream)
    BY <1>3, <1>t, TaskAfter DEF SendFails, Handled, Typed
  <2>2. task'.pc \notin Reading
    BY <1>3, TaskAfter DEF Reading, Persisting
  <2> QED BY <1>3, <1>s, <1>t, <2>1, <2>2, TaskAfter DEF SendFails
<1>4. CASE PrepareFails
  BY <1>4, <1>s, <1>h, <1>t, TaskAfter DEF PrepareFails, Reading
<1>5. CASE SelectCancel \/ SelectEnd
  BY <1>5, <1>s, <1>h, <1>t, TaskAfter DEF SelectCancel, SelectEnd, Reading, Persisting
<1>6. CASE SelectChunk
  <2>1. PICK chunk \in Seq(Frame) : upstream' = upstream \o chunk /\ task'.frames = chunk
    BY <1>6, TaskAfter
  <2>2. /\ UNCHANGED <<processed, channel, client>> /\ task.pc = "select"
        /\ task'.out = task.out /\ Len(upstream) <= Len(upstream')
        /\ Handled' = Len(upstream) /\ Handled = Len(upstream)
        /\ \A n \in 1..Len(upstream) : upstream'[n] = upstream[n]
        /\ DOMAIN upstream = 1..Len(upstream) /\ DOMAIN upstream \subseteq DOMAIN upstream'
    <3>1. task.pc = "select" /\ UNCHANGED <<processed, channel, client>>
          /\ task'.out = task.out /\ task.frames = <<>>
      BY <1>6, TaskAfter DEF SelectChunk, FramesAreOwed
    <3>2. Len(upstream') = Len(upstream) + Len(chunk) /\ Len(chunk) \in Nat
          /\ \A n \in 1..Len(upstream) : upstream'[n] = upstream[n]
      BY <1>t, <2>1, ConcatProperties
    <3>3. Handled = Len(upstream) - 0 /\ Handled' = Len(upstream') - Len(chunk)
      BY <2>1, <3>1 DEF Handled
    <3>4. DOMAIN upstream = 1..Len(upstream) /\ DOMAIN upstream' = 1..Len(upstream')
      BY <1>t
    <3> QED BY <1>t, <3>1, <3>2, <3>3, <3>4
  <2>3. /\ FitsIn(task'.out, upstream', processed) /\ FitsIn(channel, upstream', processed)
        /\ FitsIn(client.seen, upstream', processed)
    BY <1>t, <2>2, StillFits DEF DataIsKept, Fits
  <2>4. ListsData(processed)'
    <3>1. ListsData(processed) /\ processed' = processed
      BY <2>2 DEF DataIsKept
    <3>2. ASSUME NEW k \in DOMAIN processed
          PROVE  /\ processed[k] \in DOMAIN upstream' /\ upstream'[processed[k]] = "data"
                 /\ \A n \in 1..processed[k] : upstream'[n] = "data" => Contains(processed, n)
      <4>1. /\ processed[k] \in 1..Len(upstream) /\ upstream[processed[k]] = "data"
            /\ \A n \in 1..processed[k] : upstream[n] = "data" => Contains(processed, n)
        BY <2>2, <3>1 DEF ListsData
      <4>2. \A n \in 1..processed[k] : n \in 1..Len(upstream)
        BY <1>t, <4>1
      <4> QED BY <2>2, <4>1, <4>2
    <3> QED BY <3>1, <3>2 DEF ListsData
  <2>5. \A n \in 1..Handled' : upstream'[n] = "data" => Contains(processed, n)
    BY <2>2 DEF DataIsKept, Reading
  <2> QED BY <2>2, <2>3, <2>4, <2>5 DEF DataIsKept, Fits
<1>7. CASE NextFrame /\ task.frames = <<>>
  <2>1. /\ UNCHANGED <<processed, channel, client, upstream>> /\ task.pc = "frames"
        /\ task'.frames = task.frames /\ task'.out = task.out
    BY <1>7 DEF NextFrame, Typed
  <2> QED BY <1>s, <1>h, <1>t, <2>1 DEF Reading
<1>8. CASE NextFrame /\ task.frames # <<>>
  <2> DEFINE next == Handled + 1
             frame == upstream[next]
  <2>1. /\ next \in 1..Len(upstream) /\ frame \in Frame
        /\ task'.pc = IF frame = "bad" THEN "error" ELSE "frames"
        /\ task'.out = EventsOf(frame, next)
        /\ frame = "bad" => Handled' = Len(upstream)
        /\ frame # "bad" => Handled' = next
        /\ processed' = IF frame = "data" THEN Append(processed, next) ELSE processed
    BY <1>8, FrameIs
  <2>2. UNCHANGED <<channel, client, upstream>> /\ task.pc = "frames"
    BY <1>8 DEF NextFrame
  <2>3. next \in Nat /\ next <= Handled' /\ Handled < next /\ next <= Len(upstream)
    BY <1>t, <2>1
  <2>4. \A n \in 1..Handled : upstream[n] = "data" => Contains(processed, n)
    BY <2>2 DEF DataIsKept, Reading
  <2>5. \A n \in 1..next : n \in 1..Handled \/ n = next
    BY <1>t
  <2> HIDE DEF next
  <2>6. \A n : Contains(processed', n) <=> Contains(processed, n) \/ (frame = "data" /\ n = next)
    BY <1>t, <2>1, <2>3, ContainsAppend
  <2>7. /\ FitsIn(channel, upstream, processed') /\ FitsIn(client.seen, upstream, processed')
        /\ FitsIn(task'.out, upstream, processed')
    <3>1. FitsIn(channel, upstream, processed') /\ FitsIn(client.seen, upstream, processed')
      <4>1. \A n : Contains(processed, n) => Contains(processed', n)
        BY <2>6
      <4>2. FitsIn(channel, upstream, processed) /\ FitsIn(client.seen, upstream, processed)
        BY DEF DataIsKept, Fits
      <4>3. Len(upstream) <= Len(upstream)
        BY <1>t
      <4> QED BY <1>t, <4>1, <4>2, <4>3, StillFits
    <3>2. frame = "data" => Contains(processed', next)
      BY <2>6
    <3> HIDE DEF frame
    <3>3. FitsIn(EventsOf(frame, next), upstream, processed')
      BY <1>t, <2>1, <3>2, EventsFit
    <3> QED BY <2>1, <3>1, <3>3
  <2>8. ListsData(processed)' /\ \A k \in DOMAIN processed' : processed'[k] <= Handled'
    <3>1. CASE frame # "data"
      BY SMTT(30), <1>t, <2>1, <2>2, <2>3, <3>1 DEF DataIsKept, ListsData, Typed
    <3>2. CASE frame = "data"
      <4>1. /\ processed' = Append(processed, next) /\ DOMAIN processed = 1..Len(processed)
            /\ DOMAIN processed' = 1..(Len(processed) + 1)
            /\ processed'[Len(processed) + 1] = next /\ Len(processed) \in Nat
            /\ \A k \in DOMAIN processed : processed'[k] = processed[k] /\ processed[k] \in Nat
        BY <1>t, <2>1, <2>3, <3>2
      <4>2. \A k \in DOMAIN processed : processed[k] < next
        BY <1>t, <2>3, <4>1 DEF DataIsKept
      <4>3. \A k \in DOMAIN processed' : processed'[k] <= Handled'
        BY <1>t, <2>3, <4>1, <4>2
      <4>4. \A j, k \in DOMAIN processed' : j < k => processed'[j] < processed'[k]
        <5> SUFFICES ASSUME NEW j \in DOMAIN processed', NEW k \in DOMAIN processed', j < k
                     PROVE  processed'[j] < processed'[k]
          OBVIOUS
        <5>1. j \in DOMAIN processed
          BY <4>1
        <5>2. CASE k \in DOMAIN processed
          BY <4>1, <5>1, <5>2 DEF DataIsKept, ListsData
        <5>3. CASE k = Len(processed) + 1
          BY <4>1, <4>2, <5>1, <5>3
        <5> QED BY <4>1, <5>2, <5>3
      <4>5. ASSUME NEW k \in DOMAIN processed'
            PROVE  /\ processed'[k] \in DOMAIN upstream /\ upstream[processed'[k]] = "data"
                   /\ \A n \in 1..processed'[k] :
                         upstream[n] = "data" => Contains(processed', n)
        <5>1. CASE k \in DOMAIN processed
          BY <2>6, <4>1, <5>1 DEF DataIsKept, ListsData
        <5>2. CASE k = Len(processed) + 1
          <6>1. processed'[k] = next
            BY <4>1, <5>2
          <6>2. \A n \in 1..next : upstream[n] = "data" => Contains(processed', n)
            BY <2>4, <2>5, <2>6, <3>2
          <6>3. next \in DOMAIN upstream /\ upstream[next] = "data"
            BY <1>t, <2>1, <3>2
          <6> QED BY <6>1, <6>2, <6>3
        <5> QED BY <4>1, <5>1, <5>2
      <4> QED BY <2>2, <4>3, <4>4, <4>5 DEF ListsData
    <3> QED BY <3>1, <3>2
  <2>9. task'.pc \in Reading =>
            \A n \in 1..Handled' : upstream[n] = "data" => Contains(processed', n)
    BY <2>1, <2>4, <2>5, <2>6 DEF Reading
  <2> QED BY <2>2, <2>7, <2>8, <2>9 DEF DataIsKept, Fits
<1>9. CASE PutTools \/ Put \/ Unregister
  <2>1. UNCHANGED <<processed, upstream, channel, client>>
    BY <1>9 DEF PutTools, Put, Unregister
  <2>2. task'.out = task.out /\ task'.frames = task.frames /\ task'.pc \notin Reading
    BY <1>9, TaskAfter DEF Reading
  <2> QED BY <1>s, <1>h, <1>t, <2>1, <2>2
<1>10. CASE Read
  <2>1. /\ UNCHANGED <<task, processed, upstream>> /\ channel # <<>>
        /\ channel' = Tail(channel) /\ client'.seen = Append(client.seen, Head(channel))
    BY <1>10 DEF Read, Typed
  <2>2. FitsIn(channel', upstream, processed) /\ FitsIn(client'.seen, upstream, processed)
    BY <1>t, <2>1, SplitFits DEF DataIsKept, Fits
  <2> QED BY <1>t, <1>h, <2>1, <2>2 DEF DataIsKept, Fits, ListsData
<1>11. CASE Leave
  <2>1. /\ UNCHANGED <<task, processed, upstream>> /\ channel' = <<>>
        /\ client'.seen = client.seen
    BY <1>11 DEF Leave, Typed
  <2>2. FitsIn(channel', upstream, processed)
    BY <2>1, NoneFits
  <2> QED BY <1>t, <1>h, <2>1, <2>2 DEF DataIsKept, Fits, ListsData
<1>12. CASE Cancel \/ UNCHANGED vars
  <2>1. UNCHANGED <<task, processed, upstream, channel, client>>
    BY <1>12 DEF Cancel, vars
  <2> QED BY <1>s, <1>h, <1>t, <2>1
<1> QED BY <1>1, <1>2, <1>3, <1>4, <1>5, <1>6, <1>7, <1>8, <1>9, <1>10, <1>11, <1>12
        DEF Next, TaskStep

LEMMA HistoryNext ==
    ASSUME Base, HistoryInv, [Next]_vars
    PROVE  HistoryInv'
<1> USE DEF Base
<1>1. CASE Register \/ SelectCancel \/ SelectChunk \/ SelectEnd
  BY <1>1, TaskAfter DEF Register, SelectCancel, SelectChunk, SelectEnd, Persisting, HistoryInv
<1>2. CASE Send
  <2>1. task.pc \in Sending /\ task'.pc # "put"
    BY <1>2, SendIs DEF Send, FramesAreOwed, AfterSend, Sending
  <2> QED BY <1>2, <2>1 DEF Send, Sending, HistoryInv
<1>3. CASE SendFails \/ PrepareFails
  <2>1. task.pc \in Sending
    BY <1>3 DEF SendFails, PrepareFails, FramesAreOwed, Sending
  <2> QED BY <1>3, <2>1, TaskAfter DEF SendFails, PrepareFails, Sending, Persisting, HistoryInv
<1>4. CASE NextFrame
  <2>1. task'.pc # "put"
    <3>1. CASE task.frames = <<>>
      BY <1>4, <3>1 DEF NextFrame, Typed
    <3>2. CASE task.frames # <<>>
      BY <1>4, <3>2, FrameIs
    <3> QED BY <3>1, <3>2
  <2> QED BY <1>4, <2>1 DEF NextFrame, HistoryInv
<1>5. CASE PutTools
  BY <1>5, TaskAfter DEF PutTools, HistoryInv
<1>6. CASE Put
  BY <1>6, TaskAfter DEF Put, HistoryInv
<1>7. CASE Unregister
  BY <1>7, TaskAfter DEF Unregister, HistoryInv
<1>8. CASE Read \/ Leave \/ Cancel \/ UNCHANGED vars
  BY <1>8 DEF Read, Leave, Cancel, vars, HistoryInv
<1> QED BY <1>1, <1>2, <1>3, <1>4, <1>5, <1>6, <1>7, <1>8 DEF Next, TaskStep

-----------------------------------------------------------------------------
(* What the client gets                                                    *)

Sent == client.seen \o channel

Late == {"put_tools", "put", "unregister", "over"}

\* What is sent and what is about to be sent are the events of the frames handled.
RelayInv ==
    /\ IsPrefix(Sent, EventsFor(upstream))
    /\ task.pc = "register" => Sent = <<>>
    /\ client.connected =>
          /\ task.pc = "lifecycle" => task.out # <<>> /\ Sent \o task.out = FirstEvents
          /\ task.pc \in {"select", "frames"} => Sent \o task.out = UpTo(upstream, Handled)
          /\ task.pc = "error" => Sent \o task.out = EventsFor(upstream)
          /\ /\ task.pc \in Late /\ ~signalled
             /\ Contains(Sent, FrameEvent(0, "in_progress")) /\ ~Contains(upstream, "bad")
             => Sent = EventsFor(upstream)

LEMMA SendKeeps ==
    ASSUME NEW a \in Seq(Ev), NEW c \in Seq(Ev), NEW b \in Seq(Ev), b # <<>>
    PROVE  (a \o Append(c, Head(b))) \o Tail(b) = (a \o c) \o b
<1>1. Head(b) \in Ev /\ Tail(b) \in Seq(Ev)
  BY HeadTail
<1>2. Append(c, Head(b)) \in Seq(Ev)
  BY <1>1
<1>3. (a \o Append(c, Head(b))) \o Tail(b) = a \o (Append(c, Head(b)) \o Tail(b))
  <2>1. \A x, y \in Seq(Ev) : (a \o x) \o y = a \o (x \o y)
    BY RegroupEv, Zenon
  <2> QED BY <1>1, <1>2, <2>1, Zenon
<1>4. (a \o c) \o b = a \o (c \o b)
  BY Regroup
<1>5. Append(c, Head(b)) \o Tail(b) = c \o b
  BY MoveHead
<1> QED BY <1>3, <1>4, <1>5

LEMMA RelayInit == Init => RelayInv
<1> SUFFICES ASSUME Init PROVE RelayInv
  OBVIOUS
<1>1. Sent = <<>> /\ task.pc = "register" /\ upstream = <<>>
  BY DEF Init, Sent
<1>2. EventsFor(upstream) \in Seq(Ev)
  <2>1. <<>> \in Seq(Frame)
    OBVIOUS
  <2>2. EventsFor(<<>>) \in Seq(Ev)
    BY <2>1, EventsForType
  <2> QED BY <1>1, <2>2
<1>3. IsPrefix(<<>>, EventsFor(upstream))
  BY <1>2 DEF IsPrefix
<1> QED BY <1>1, <1>3 DEF RelayInv, Late

LEMMA RelayNext ==
    ASSUME Base, Base', RelayInv, [Next]_vars
    PROVE  RelayInv'
<1> USE DEF Base
<1>t. /\ upstream \in Seq(Frame) /\ upstream' \in Seq(Frame)
      /\ Len(upstream) \in Nat /\ Len(upstream') \in Nat
      /\ Handled \in 0..Len(upstream)
      /\ task.out \in Seq(Ev) /\ channel \in Seq(Ev) /\ client.seen \in Seq(Ev)
      /\ Sent \in Seq(Ev) /\ Sent' \in Seq(Ev) /\ task'.out \in Seq(Ev)
      /\ EventsFor(upstream) \in Seq(Ev)
  <2>1. /\ upstream \in Seq(Frame) /\ upstream' \in Seq(Frame)
        /\ task.out \in Seq(Ev) /\ channel \in Seq(Ev) /\ client.seen \in Seq(Ev)
        /\ channel' \in Seq(Ev) /\ client'.seen \in Seq(Ev) /\ task'.out \in Seq(Ev)
    BY DEF Typed
  <2>2. Sent \in Seq(Ev) /\ Sent' \in Seq(Ev)
    BY <2>1 DEF Sent
  <2>3. Handled \in 0..Len(upstream)
    BY DEF Typed, FramesAreOwed, Handled
  <2>4. Len(upstream) \in Nat /\ Len(upstream') \in Nat
    BY <2>1
  <2> QED BY <2>1, <2>2, <2>3, <2>4, EventsForType
<1>h. task'.frames = task.frames /\ upstream' = upstream => Handled' = Handled
  BY DEF Handled
<1>e. \A s \in Seq(Ev) : s \o <<>> = s /\ <<>> \o s = s
  BY ConcatEmptySeq
\* A step to one of the last pcs that sends nothing.
<1>l. ASSUME UNCHANGED <<upstream, channel, client, signalled>>, task'.pc \in Late,
             \/ task.pc \in Late \/ signalled \/ ~client.connected
             \/ Contains(upstream, "bad") \/ ~Contains(Sent, FrameEvent(0, "in_progress"))
             \/ Sent = EventsFor(upstream)
      PROVE  RelayInv'
  BY <1>l DEF RelayInv, Sent, Late
<1>1. CASE Register
  <2>1. task'.pc = "lifecycle" /\ task'.out = FirstEvents /\ Sent' = <<>>
        /\ upstream' = upstream
    BY <1>1, TaskAfter DEF Register, RelayInv, Sent
  <2>2. FirstEvents # <<>>
    BY DEF FirstEvents
  <2>3. Sent' = Sent
    BY <1>1 DEF Register, Sent
  <2> QED BY <1>e, <2>1, <2>2, <2>3, LifecycleType DEF RelayInv, Late
<1>2. CASE Send
  <2>1. /\ client.connected /\ task.out # <<>> /\ UNCHANGED <<upstream, client, signalled>>
        /\ channel' = Append(channel, Head(task.out)) /\ task'.out = Tail(task.out)
        /\ Handled' = Handled /\ task'.pc = AfterSend(task'.out)
    BY <1>2, <1>h, SendIs DEF Send
  <2>2. Sent' \o task'.out = Sent \o task.out
    <3>1. Sent' = client.seen \o Append(channel, Head(task.out))
      BY <2>1 DEF Sent
    <3>2. (client.seen \o Append(channel, Head(task.out))) \o Tail(task.out)
            = (client.seen \o channel) \o task.out
      <4>1. /\ client.seen \in Seq(Ev) /\ channel \in Seq(Ev) /\ task.out \in Seq(Ev)
            /\ task.out # <<>>
        BY <1>t, <2>1
      <4> QED BY <4>1, SendKeeps, Zenon
    <3> QED BY <2>1, <3>1, <3>2 DEF Sent
  <2>3. task.pc \in Sending
    BY <2>1 DEF FramesAreOwed
  <2>4. IsPrefix(Sent' \o task'.out, EventsFor(upstream))
    <3>1. CASE task.pc = "lifecycle"
      <4>1. upstream = <<>> /\ EventsFor(upstream) = FirstEvents
        BY <1>t, <3>1, UpToNone, UpToAll DEF FramesAreOwed
      <4>2. IsPrefix(FirstEvents, FirstEvents)
        BY LifecycleType DEF IsPrefix
      <4> QED BY <2>1, <2>2, <3>1, <4>1, <4>2 DEF RelayInv
    <3>2. CASE task.pc = "frames"
      BY <1>t, <2>1, <2>2, <3>2, PrefixOfAll DEF RelayInv
    <3>3. CASE task.pc = "error"
      <4>1. IsPrefix(EventsFor(upstream), EventsFor(upstream))
        BY <1>t DEF IsPrefix
      <4> QED BY <2>1, <2>2, <3>3, <4>1 DEF RelayInv
    <3> QED BY <2>3, <3>1, <3>2, <3>3 DEF Sending
  <2>5. IsPrefix(Sent', EventsFor(upstream))
    BY <1>t, <2>4, PrefixOfConcat
  <2>6. CASE task.pc = "lifecycle"
    <3>1. Sent' \o task'.out = FirstEvents
      BY <2>1, <2>2, <2>6 DEF RelayInv
    <3>2. CASE task'.out # <<>>
      BY <2>1, <2>5, <2>6, <3>1, <3>2 DEF AfterSend, RelayInv, Late
    <3>3. CASE task'.out = <<>>
      <4>1. upstream = <<>> /\ Handled = 0
        BY <2>6, <1>t DEF FramesAreOwed
      <4>2. UpTo(upstream, Handled) = FirstEvents
        BY <1>t, <4>1, UpToNone
      <4> QED BY <2>1, <2>5, <2>6, <3>1, <3>3, <4>2 DEF AfterSend, RelayInv, Late
    <3> QED BY <3>2, <3>3
  <2>7. CASE task.pc = "frames"
    BY <2>1, <2>2, <2>5, <2>7 DEF AfterSend, RelayInv, Late
  <2>8. CASE task.pc = "error"
    BY <2>1, <2>2, <2>5, <2>8 DEF AfterSend, RelayInv, Late, FramesAreOwed
  <2> QED BY <2>3, <2>6, <2>7, <2>8 DEF Sending
<1>3. CASE SendFails
  BY <1>3, <1>l, TaskAfter DEF SendFails, Persisting, Late
<1>4. CASE PrepareFails
  <2>1. UNCHANGED <<upstream, channel, client, signalled>> /\ task'.pc \in Late
    BY <1>4, TaskAfter DEF PrepareFails, Late
  <2>2. CASE task.pc = "error"
    BY <1>l, <2>1, <2>2 DEF FramesAreOwed
  <2>3. CASE task.pc = "lifecycle" /\ client.connected
    <3>1. Sent \o task.out = FirstEvents /\ task.out # <<>>
      BY <2>3 DEF RelayInv
    <3>2. /\ Len(FirstEvents) = 2 /\ FirstEvents[1] = FrameEvent(0, "created")
          /\ FrameEvent(0, "created") # FrameEvent(0, "in_progress")
      BY DEF FirstEvents, FrameEvent
    <3>3. ASSUME NEW k \in DOMAIN Sent PROVE Sent[k] # FrameEvent(0, "in_progress")
      <4>1. /\ Len(Sent) + Len(task.out) = 2 /\ Len(task.out) > 0 /\ Len(Sent) \in Nat
            /\ Len(task.out) \in Nat /\ DOMAIN Sent = 1..Len(Sent)
        <5>1. Len(Sent \o task.out) = Len(Sent) + Len(task.out)
          BY <1>t, ConcatProperties
        <5>2. Len(task.out) \in Nat /\ Len(task.out) > 0 /\ Len(Sent) \in Nat
              /\ DOMAIN Sent = 1..Len(Sent)
          BY <1>t, <3>1
        <5> QED BY <3>1, <3>2, <5>1, <5>2
      <4>2. k = 1
        BY <4>1
      <4>3. Sent[k] = FirstEvents[k]
        <5>1. (Sent \o task.out)[k] = Sent[k]
          BY <1>t, <4>1, ConcatProperties
        <5> QED BY <3>1, <5>1
      <4> QED BY <3>2, <4>2, <4>3
    <3>4. ~Contains(Sent, FrameEvent(0, "in_progress"))
      BY <3>3 DEF Contains
    <3> QED BY <1>l, <2>1, <3>4
  <2> QED BY <1>4, <1>l, <2>1, <2>2, <2>3 DEF PrepareFails
<1>5. CASE SelectCancel
  BY <1>5, <1>l, TaskAfter DEF SelectCancel, Persisting, Late
<1>6. CASE SelectEnd
  <2>1. task.pc = "select" /\ task.frames = <<>> /\ task.out = <<>>
    BY <1>6 DEF SelectEnd, FramesAreOwed, Sending
  <2>2. Handled = Len(upstream)
    BY <1>t, <2>1 DEF Handled
  <2>3. client.connected => Sent = EventsFor(upstream)
    BY <1>t, <1>e, <2>1, <2>2, UpToAll DEF RelayInv
  <2> QED BY <1>6, <1>l, <2>3, TaskAfter DEF SelectEnd, Persisting, Late
<1>7. CASE SelectChunk
  <2>1. PICK chunk \in Seq(Frame) : upstream' = upstream \o chunk /\ task'.frames = chunk
    BY <1>7, TaskAfter
  <2>2. /\ task.pc = "select" /\ task'.pc = "frames" /\ task'.out = task.out
        /\ UNCHANGED <<channel, client>> /\ task.frames = <<>> /\ Sent' = Sent
    BY <1>7, TaskAfter DEF SelectChunk, FramesAreOwed, Sent
  <2>3. Handled' = Handled /\ Handled = Len(upstream)
    <3>1. Len(upstream') = Len(upstream) + Len(chunk) /\ Len(chunk) \in Nat
      BY <1>t, <2>1, ConcatProperties
    <3>2. Handled = Len(upstream) - 0 /\ Handled' = Len(upstream') - Len(chunk)
      BY <2>1, <2>2 DEF Handled
    <3> QED BY <1>t, <3>1, <3>2
  <2>4. UpTo(upstream', Handled) = UpTo(upstream, Handled)
    BY <1>t, <2>1, UpToSame
  <2>5. IsPrefix(Sent, EventsFor(upstream'))
    <3>1. IsPrefix(EventsFor(upstream), EventsFor(upstream'))
      BY <1>t, <2>1, MoreIsLonger
    <3>2. EventsFor(upstream') \in Seq(Ev)
      BY <1>t, EventsForType
    <3> QED BY <1>t, <3>1, <3>2, PrefixTransitive DEF RelayInv
  <2> QED BY <2>2, <2>3, <2>4, <2>5 DEF RelayInv, Late
<1>8. CASE NextFrame /\ task.frames = <<>>
  <2>1. /\ UNCHANGED <<channel, client, upstream, signalled>> /\ task.pc = "frames"
        /\ task'.frames = task.frames /\ task'.out = task.out /\ task'.pc = "select"
    BY <1>8 DEF NextFrame, Typed
  <2> QED BY <1>h, <2>1 DEF RelayInv, Sent, Late
<1>9. CASE NextFrame /\ task.frames # <<>>
  <2> DEFINE next == Handled + 1
             frame == upstream[next]
  <2>1. /\ next \in 1..Len(upstream) /\ frame \in Frame
        /\ task'.pc = IF frame = "bad" THEN "error" ELSE "frames"
        /\ task'.out = EventsOf(frame, next)
        /\ frame # "bad" => Handled' = next
    BY <1>9, FrameIs
  <2>2. UNCHANGED <<channel, client, upstream, signalled>> /\ task.pc = "frames"
        /\ task.out = <<>> /\ Sent' = Sent
    BY <1>9 DEF NextFrame, Sent
  <2>3. client.connected => Sent = UpTo(upstream, Handled)
    BY <1>t, <1>e, <2>2 DEF RelayInv
  <2>4. UpTo(upstream, next) = UpTo(upstream, Handled) \o EventsOf(frame, next)
    <3>1. next - 1 = Handled
      BY <1>t
    <3>2. UpTo(upstream, next) = UpTo(upstream, next - 1) \o Yield(upstream, next)
      <4> HIDE DEF next
      <4> QED BY <1>t, <2>1, UpToStep
    <3>3. \A m \in 1..(next - 1) : upstream[m] # "bad"
      BY <2>2, <3>1 DEF FramesAreOwed, Reading
    <3>4. Yield(upstream, next) = EventsOf(frame, next)
      <4> HIDE DEF next
      <4> QED BY <3>3 DEF Yield
    <3> QED BY <3>1, <3>2, <3>4
  <2>5. client.connected => Sent' \o task'.out = UpTo(upstream, next)
    BY <2>1, <2>2, <2>3, <2>4
  <2>6. CASE frame = "bad"
    <3>1. UpTo(upstream, next) = EventsFor(upstream)
      <4> HIDE DEF next
      <4>1. next \in 0..Len(upstream) /\ Len(upstream) \in next..Len(upstream)
            /\ next \in 1..next
        BY <1>t, <2>1
      <4>2. \E m \in 1..next : upstream[m] = "bad"
        BY <2>6, <4>1
      <4>3. UpTo(upstream, Len(upstream)) = UpTo(upstream, next)
        BY <1>t, <4>1, <4>2, UpToBad
      <4> QED BY <1>t, <4>3, UpToAll
    <3> QED BY <2>1, <2>2, <2>5, <2>6, <3>1 DEF RelayInv, Late
  <2>7. CASE frame # "bad"
    <3> HIDE DEF next
    <3> QED BY <2>1, <2>2, <2>5, <2>7 DEF RelayInv, Late
  <2> QED BY <2>6, <2>7
<1>10. CASE PutTools \/ Put \/ Unregister
  <2>1. UNCHANGED <<upstream, channel, client, signalled>> /\ task.pc \in Late
    BY <1>10 DEF PutTools, Put, Unregister, Late
  <2>2. task'.pc \in Late
    BY <1>10, TaskAfter DEF Late
  <2> QED BY <1>l, <2>1, <2>2
<1>11. CASE Read
  <2>1. /\ UNCHANGED <<task, upstream, signalled>> /\ channel # <<>>
        /\ channel' = Tail(channel) /\ client'.seen = Append(client.seen, Head(channel))
        /\ client'.connected = client.connected
    BY <1>11 DEF Read, Typed
  <2>2. Sent' = Sent
    BY <1>t, <2>1, MoveHead DEF Sent
  <2> QED BY <1>h, <2>1, <2>2 DEF RelayInv
<1>12. CASE Leave
  <2>1. /\ UNCHANGED <<task, upstream>> /\ channel' = <<>>
        /\ client'.seen = client.seen /\ ~client'.connected
    BY <1>12 DEF Leave, Typed
  <2>2. Sent' = client.seen
    BY <1>t, <1>e, <2>1 DEF Sent
  <2>3. IsPrefix(Sent', EventsFor(upstream))
    <3>1. IsPrefix(client.seen \o channel, EventsFor(upstream))
      BY DEF RelayInv, Sent
    <3> QED BY <1>t, <2>2, <3>1, PrefixOfConcat
  <2>4. Sent = <<>> => Sent' = <<>>
    BY <1>t, <2>2 DEF Sent
  <2> QED BY <2>1, <2>3, <2>4 DEF RelayInv
<1>13. CASE Cancel \/ UNCHANGED vars
  <2>1. UNCHANGED <<task, upstream, channel, client>> /\ (signalled => signalled')
    <3>1. CASE Cancel
      BY <3>1, Zenon DEF Cancel
    <3>2. CASE UNCHANGED vars
      BY <3>2 DEF vars
    <3> QED BY <1>13, <3>1, <3>2
  <2> QED BY <1>h, <2>1 DEF RelayInv, Sent
<1> QED BY <1>1, <1>2, <1>3, <1>4, <1>5, <1>6, <1>7, <1>8, <1>9, <1>10, <1>11, <1>12, <1>13
        DEF Next, TaskStep

-----------------------------------------------------------------------------
(* What the runs check, for all values of the constants                    *)

Inv == Base /\ TokenInv /\ DataIsKept /\ HistoryInv /\ RelayInv

LEMMA InvHolds == Spec => []Inv
<1>1. Init => Inv
  BY BaseInit, TokenInit, DataInit, RelayInit DEF Inv
<1>2. Inv /\ [Next]_vars => Inv'
  BY BaseNext, TokenNext, DataNext, HistoryNext, RelayNext DEF Inv
<1> QED BY <1>1, <1>2, PTL DEF Spec

\* The task's variables keep their shape: the buffer never exceeds what was
\* received, events wait only where the task sends, the channel keeps its bound.
THEOREM TypeCorrect == Spec => []TypeOK
<1>1. Inv => TypeOK
  <2> SUFFICES ASSUME Inv PROVE TypeOK
    OBVIOUS
  <2>1. IsEvents(task.out) /\ IsEvents(channel) /\ IsEvents(client.seen)
    BY DEF Inv, DataIsKept, Fits, FitsIn, IsEvents
  <2>2. Len(task.frames) <= Len(upstream)
    BY DEF Inv, Base, Typed, FramesAreOwed, Handled
  <2>3. task.out # <<>> => task.pc \in {"lifecycle", "frames", "error"}
    BY DEF Inv, Base, FramesAreOwed, Sending
  <2>4. \A k \in DOMAIN processed : processed[k] \in DOMAIN upstream
    BY DEF Inv, DataIsKept, ListsData
  <2> QED BY <2>1, <2>2, <2>3, <2>4 DEF Inv, Base, Typed, TypeOK
<1> QED BY <1>1, InvHolds, PTL

\* The token lives as long as there is something to cancel, and no longer: the
\* insert and the remove of cancel_tokens in handle_streaming, and cancel's take.
THEOREM TokensFollowTasks == Spec => []TokenFollowsTask
<1>1. Inv => TokenFollowsTask
  BY DEF Inv, TokenInv, TokenFollowsTask, TokenIsFreed
<1> QED BY <1>1, InvHolds, PTL

\* What handle_streaming persists holds all the client was shown, in order and
\* with its tool registry, at whichever step the client left or cancelled.
THEOREM HistoriesHoldWhatWasSeen == Spec => []HistoryIsWhole
<1>1. Inv => HistoryIsWhole
  BY DEF Inv, HistoryInv, DataIsKept, Fits, FitsIn, HistoryIsWhole, HistoryHasTools,
         HistoryHoldsSeen
<1> QED BY <1>1, InvHolds, PTL

\* The client gets the events of the upstream's frames in order, and all of them
\* if it stays until the end of a stream that neither failed nor was cancelled.
THEOREM EventsAreRelayed == Spec => []RelayedInOrder
<1>1. Inv => RelayedInOrder
  <2> SUFFICES ASSUME Inv PROVE RelayedInOrder
    OBVIOUS
  <2>1. /\ upstream \in Seq(Frame) /\ EventsFor(upstream) \in Seq(Ev)
        /\ client.seen \in Seq(Ev) /\ channel \in Seq(Ev)
    BY EventsForType DEF Inv, Base, Typed
  <2>2. IsPrefix(client.seen, EventsFor(upstream))
    BY <2>1, PrefixOfConcat DEF Inv, RelayInv, Sent
  <2>3. UndisturbedEnd => client.seen \o channel = EventsFor(upstream)
    BY DEF Inv, RelayInv, Sent, Late, UndisturbedEnd
  <2> QED BY <2>2, <2>3 DEF RelayedInOrder
<1> QED BY <1>1, InvHolds, PTL

=============================================================================
