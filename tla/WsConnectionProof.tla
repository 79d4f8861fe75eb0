-------------------------- MODULE WsConnectionProof --------------------------
(***************************************************************************)
(* What WsConnection promises for every number of client frames, reads and *)
(* cancels, and for every way the upstream's frames arrive.                *)
(***************************************************************************)
EXTENDS WsConnection, SequenceLemmas

USE WsConnectionAssumption

-----------------------------------------------------------------------------
(* The shape of the state                                                  *)

AConn == [pc : PCs, out : Seq(Ev), frames : Seq(Frame), cancelled : BOOLEAN]

ATurn == [mode : Mode, upstream : Seq(Frame), processed : Seq(Nat), tools : BOOLEAN,
          history : Seq(Nat) \cup {NotStored}]

ASeen == [turn : Nat, event : Ev]

AClient == [connected : BOOLEAN, sent : Seq(ClientFrame), seen : Seq(ASeen)]

AnAnswer == [turn : Nat, status : {200, 404}, pc : PCs]

Typed ==
    /\ conn \in AConn
    /\ turns \in Seq(ATurn)
    /\ inbox \in Seq(ClientFrame)
    /\ client \in AClient
    /\ token \in {0, Current}
    /\ signalled \in BOOLEAN
    /\ answers \in Seq(AnAnswer) /\ Len(answers) <= MaxCancels

\* The turn that is handled, and the frames it has left behind.
This == turns[Current]
Handled == Len(This.upstream) - Len(conn.frames)

Idle == {"recv", "closed"}
Sending == {"reply", "give_up", "frames", "bad_frame"}
Relaying == {"register", "select", "frames", "bad_frame", "unregister"}
Held == {"select", "frames", "bad_frame", "unregister"}

\* The task is where its turn's mode takes it, and its buffer is the rest of what
\* was received.
FramesAreOwed ==
    /\ conn.pc \notin Idle => Current # 0
    /\ conn.pc \notin Held => token = 0
    /\ conn.pc \in Relaying => This.mode = "stream"
    /\ conn.pc = "put_tools" => This.mode \in {"stream", "echo", "buffered"}
    /\ conn.pc = "put" => This.mode # "reject" /\ (This.tools \/ This.mode = "compaction")
    /\ conn.pc \notin Sending => conn.out = <<>>
    /\ conn.pc # "frames" => conn.frames = <<>>
    /\ conn.pc \in {"reply", "give_up", "register"} => This.upstream = <<>>
    /\ conn.pc = "frames" =>
          /\ Handled \in Nat
          /\ \A k \in DOMAIN conn.frames : conn.frames[k] = This.upstream[Handled + k]
    /\ conn.pc \in {"select", "frames"} => \A n \in 1..Handled : This.upstream[n] # "bad"

\* Of every turn: what it processed was received, and only a stream receives.
TurnsAreSane ==
    \A t \in DOMAIN turns :
        /\ \A k \in DOMAIN turns[t].processed :
              turns[t].processed[k] \in DOMAIN turns[t].upstream
        /\ turns[t].mode # "stream" => turns[t].upstream = <<>>

InboxIsSent ==
    /\ Len(inbox) <= Len(client.sent)
    /\ \A k \in DOMAIN inbox : Contains(client.sent, inbox[k])

Base == Typed /\ FramesAreOwed /\ TurnsAreSane /\ InboxIsSent

-----------------------------------------------------------------------------
(* What the steps do to the task and its turn                              *)

LEMMA ReplyType == \A mode \in Mode : Reply(mode) \in Seq(Ev) /\ Reply(mode) # <<>>
<1> SUFFICES ASSUME NEW mode \in Mode PROVE Reply(mode) \in Seq(Ev) /\ Reply(mode) # <<>>
  OBVIOUS
<1>1. FirstEvents \in Seq(Ev) /\ FirstEvents # <<>>
  BY LifecycleType DEF FirstEvents
<1>2. /\ FrameEvent(0, "error") \in Ev /\ FrameEvent(0, "completed") \in Ev
      /\ FrameEvent(1, "item") \in Ev /\ FrameEvent(1, "completed") \in Ev
      /\ FrameEvent(1, "added") \in Ev /\ FrameEvent(1, "delta") \in Ev /\ FrameEvent(2, "completed") \in Ev
  BY DEF FrameEvent, Ev
<1>3. CASE mode = "reject"
  BY <1>2, <1>3 DEF Reply, Error
<1>4. CASE mode = "echo"
  <2>1. Reply(mode) = Append(FirstEvents, FrameEvent(0, "completed"))
    BY <1>4 DEF Reply
  <2> QED BY <1>1, <1>2, <2>1
<1>5. CASE mode = "buffered"
  <2>1. Reply(mode) = FirstEvents \o <<FrameEvent(1, "added"), FrameEvent(1, "delta")>> \o <<FrameEvent(2, "completed")>>
    BY <1>5 DEF Reply, EventsOf
  <2> QED BY <1>1, <1>2, <2>1
<1>6. CASE mode = "compaction"
  <2>1. Reply(mode) = FirstEvents \o <<FrameEvent(1, "item"), FrameEvent(1, "completed")>>
    BY <1>6 DEF Reply
  <2> QED BY <1>1, <1>2, <2>1
<1>7. CASE mode = "stream"
  BY <1>1, <1>7 DEF Reply
<1> QED BY <1>3, <1>4, <1>5, <1>6, <1>7 DEF Mode

\* Where each step but Send and NextFrame leaves the task.
LEMMA ConnAfter ==
    ASSUME Typed
    PROVE  /\ HangUp => /\ conn' \in AConn /\ conn'.pc = "closed" /\ conn'.out = conn.out
                        /\ conn'.frames = conn.frames /\ conn'.cancelled = conn.cancelled
           /\ SendFails => /\ conn' \in AConn /\ conn'.out = <<>>
                           /\ conn'.cancelled = conn.cancelled
                           /\ \/ /\ conn.pc = "frames"
                                 /\ conn'.pc = "unregister" /\ conn'.frames = <<>>
                              \/ /\ conn.pc = "reply" /\ This.mode = "buffered"
                                 /\ conn'.pc = "recv" /\ conn'.frames = conn.frames
           /\ PrepareFails => /\ conn' \in AConn /\ conn'.pc = "give_up" /\ conn'.out = <<Error>>
                              /\ conn'.frames = conn.frames /\ conn'.cancelled = conn.cancelled
           /\ Register => /\ conn' \in AConn /\ conn'.pc = "select" /\ conn'.out = conn.out
                          /\ conn'.frames = conn.frames /\ conn'.cancelled = conn.cancelled
           /\ SelectCancel \/ SelectFrame \/ SelectGone \/ SelectEnd =>
                 /\ conn' \in AConn /\ conn'.pc = "unregister" /\ conn'.out = conn.out
                 /\ conn'.frames = conn.frames
           /\ SelectGone \/ SelectEnd => conn'.cancelled = conn.cancelled
           /\ SelectFrame => conn'.cancelled = (Head(inbox) = "cancel")
           /\ Unregister => /\ conn' \in AConn /\ conn'.cancelled = FALSE
                            /\ conn'.pc = IF conn.cancelled THEN "recv" ELSE "put_tools"
                            /\ conn'.out = conn.out /\ conn'.frames = conn.frames
           /\ PutTools => /\ conn' \in AConn /\ conn'.pc = "put" /\ conn'.out = conn.out
                          /\ conn'.frames = conn.frames /\ conn'.cancelled = conn.cancelled
           /\ Put => /\ conn' \in AConn /\ conn'.pc = "recv" /\ conn'.out = conn.out
                     /\ conn'.frames = conn.frames /\ conn'.cancelled = conn.cancelled
<1>t. /\ conn \in AConn /\ conn.out \in Seq(Ev) /\ conn.frames \in Seq(Frame)
      /\ conn.cancelled \in BOOLEAN
  BY DEF Typed, AConn
<1>p. {"recv", "closed", "give_up", "select", "unregister", "put_tools", "put"} \subseteq PCs
  BY DEF PCs
<1>n. <<>> \in Seq(Ev) /\ <<>> \in Seq(Frame) /\ <<Error>> \in Seq(Ev)
  BY DEF Error, FrameEvent, Ev
<1>1. ASSUME NEW pc \in PCs, conn' = [conn EXCEPT !.pc = pc]
      PROVE  /\ conn' \in AConn /\ conn'.pc = pc /\ conn'.out = conn.out
             /\ conn'.frames = conn.frames /\ conn'.cancelled = conn.cancelled
  BY <1>1, <1>t DEF AConn
<1>2. ASSUME NEW pc \in PCs, NEW out \in Seq(Ev), conn' = [conn EXCEPT !.pc = pc, !.out = out]
      PROVE  /\ conn' \in AConn /\ conn'.pc = pc /\ conn'.out = out
             /\ conn'.frames = conn.frames /\ conn'.cancelled = conn.cancelled
  BY <1>2, <1>t DEF AConn
<1>3. ASSUME NEW pc \in PCs, NEW flag \in BOOLEAN,
             conn' = [conn EXCEPT !.pc = pc, !.cancelled = flag]
      PROVE  /\ conn' \in AConn /\ conn'.pc = pc /\ conn'.out = conn.out
             /\ conn'.frames = conn.frames /\ conn'.cancelled = flag
  BY <1>3, <1>t DEF AConn
<1>4. SendFails => /\ conn' \in AConn /\ conn'.out = <<>> /\ conn'.cancelled = conn.cancelled
                   /\ \/ /\ conn.pc = "frames"
                         /\ conn'.pc = "unregister" /\ conn'.frames = <<>>
                      \/ /\ conn.pc = "reply" /\ This.mode = "buffered"
                         /\ conn'.pc = "recv" /\ conn'.frames = conn.frames
  <2> SUFFICES ASSUME SendFails
               PROVE  /\ conn' \in AConn /\ conn'.out = <<>> /\ conn'.cancelled = conn.cancelled
                      /\ \/ /\ conn.pc = "frames"
                            /\ conn'.pc = "unregister" /\ conn'.frames = <<>>
                         \/ /\ conn.pc = "reply" /\ This.mode = "buffered"
                            /\ conn'.pc = "recv" /\ conn'.frames = conn.frames
    OBVIOUS
  <2>1. CASE conn.pc = "frames"
    <3>1. conn' = [conn EXCEPT !.pc = "unregister", !.out = <<>>, !.frames = <<>>]
      BY <2>1 DEF SendFails
    <3> QED BY <1>t, <1>p, <1>n, <2>1, <3>1 DEF AConn
  <2>2. CASE conn.pc # "frames"
    <3>1. /\ conn.pc = "reply" /\ This.mode = "buffered"
          /\ conn' = [conn EXCEPT !.pc = "recv", !.out = <<>>]
      BY <2>2 DEF SendFails, This
    <3> QED BY <1>p, <1>n, <1>2, <3>1
  <2> QED BY <2>1, <2>2
<1>5. HangUp => /\ conn' \in AConn /\ conn'.pc = "closed" /\ conn'.out = conn.out
                /\ conn'.frames = conn.frames /\ conn'.cancelled = conn.cancelled
  BY <1>p, <1>1 DEF HangUp
<1>6. PrepareFails => /\ conn' \in AConn /\ conn'.pc = "give_up" /\ conn'.out = <<Error>>
                      /\ conn'.frames = conn.frames /\ conn'.cancelled = conn.cancelled
  BY <1>p, <1>n, <1>2 DEF PrepareFails
<1>7. Register => /\ conn' \in AConn /\ conn'.pc = "select" /\ conn'.out = conn.out
                  /\ conn'.frames = conn.frames /\ conn'.cancelled = conn.cancelled
  BY <1>p, <1>1 DEF Register
<1>8. SelectGone \/ SelectEnd => /\ conn' \in AConn /\ conn'.pc = "unregister"
                                 /\ conn'.out = conn.out /\ conn'.frames = conn.frames
                                 /\ conn'.cancelled = conn.cancelled
  BY <1>p, <1>1 DEF SelectGone, SelectEnd
<1>9. SelectCancel => /\ conn' \in AConn /\ conn'.pc = "unregister"
                      /\ conn'.out = conn.out /\ conn'.frames = conn.frames
  BY <1>p, <1>3 DEF SelectCancel
<1>10. SelectFrame => /\ conn' \in AConn /\ conn'.pc = "unregister"
                      /\ conn'.out = conn.out /\ conn'.frames = conn.frames
                      /\ conn'.cancelled = (Head(inbox) = "cancel")
  <2> SUFFICES ASSUME SelectFrame
               PROVE  /\ conn' \in AConn /\ conn'.pc = "unregister"
                      /\ conn'.out = conn.out /\ conn'.frames = conn.frames
                      /\ conn'.cancelled = (Head(inbox) = "cancel")
    OBVIOUS
  <2>1. PICK flag \in BOOLEAN : flag = (Head(inbox) = "cancel")
    OBVIOUS
  <2>2. conn' = [conn EXCEPT !.pc = "unregister", !.cancelled = flag]
    BY <2>1 DEF SelectFrame
  <2> QED BY <1>p, <1>3, <2>1, <2>2
<1>11. Unregister => /\ conn' \in AConn /\ conn'.cancelled = FALSE
                     /\ conn'.pc = IF conn.cancelled THEN "recv" ELSE "put_tools"
                     /\ conn'.out = conn.out /\ conn'.frames = conn.frames
  <2>1. (IF conn.cancelled THEN "recv" ELSE "put_tools") \in PCs
    BY <1>p
  <2> QED BY <1>3, <2>1 DEF Unregister
<1>12. PutTools => /\ conn' \in AConn /\ conn'.pc = "put" /\ conn'.out = conn.out
                   /\ conn'.frames = conn.frames /\ conn'.cancelled = conn.cancelled
  BY <1>p, <1>1 DEF PutTools
<1>13. Put => /\ conn' \in AConn /\ conn'.pc = "recv" /\ conn'.out = conn.out
              /\ conn'.frames = conn.frames /\ conn'.cancelled = conn.cancelled
  BY <1>p, <1>1 DEF Put
<1> QED BY <1>4, <1>5, <1>6, <1>7, <1>8, <1>9, <1>10, <1>11, <1>12, <1>13

\* A step that changes the current turn only.
OthersStay ==
    /\ turns' \in Seq(ATurn) /\ Current' = Current /\ DOMAIN turns' = DOMAIN turns
    /\ \A t \in DOMAIN turns : t # Current => turns'[t] = turns[t]

LEMMA CurrentIs ==
    ASSUME Typed
    PROVE  /\ Current \in Nat /\ DOMAIN turns = 1..Current
           /\ Current # 0 => Current \in DOMAIN turns /\ This \in ATurn
           /\ \A t \in DOMAIN turns : turns[t] \in ATurn
BY DEF Typed, Current, This

LEMMA ThisSet ==
    ASSUME Typed, Current # 0, NEW turn \in ATurn, turns' = [turns EXCEPT ![Current] = turn]
    PROVE  OthersStay /\ This' = turn
<1>1. /\ turns \in Seq(ATurn) /\ Current \in DOMAIN turns /\ Current = Len(turns)
  BY CurrentIs DEF Typed, Current
<1>2. /\ turns' \in Seq(ATurn) /\ Len(turns') = Len(turns) /\ DOMAIN turns' = DOMAIN turns
      /\ turns'[Current] = turn /\ \A t \in DOMAIN turns : t # Current => turns'[t] = turns[t]
  BY <1>1
<1>3. Current' = Current
  BY <1>1, <1>2 DEF Current
<1> QED BY <1>2, <1>3 DEF OthersStay, This

LEMMA ChunkIs ==
    ASSUME Typed, FramesAreOwed, SelectChunk
    PROVE  \E chunk \in Seq(Frame) :
              /\ conn' \in AConn /\ conn'.pc = "frames" /\ conn'.out = conn.out
              /\ conn'.frames = chunk /\ conn'.cancelled = conn.cancelled
              /\ OthersStay /\ This' = [This EXCEPT !.upstream = This.upstream \o chunk]
              /\ This' \in ATurn
<1>1. PICK chunk \in Chunks : /\ conn' = [conn EXCEPT !.pc = "frames", !.frames = chunk]
                              /\ turns' = [turns EXCEPT ![Current].upstream = @ \o chunk]
  BY DEF SelectChunk
<1>2. chunk \in Seq(Frame) /\ conn \in AConn /\ "frames" \in PCs
  BY DEF Typed, PCs
<1>3. /\ conn' \in AConn /\ conn'.pc = "frames" /\ conn'.out = conn.out
      /\ conn'.frames = chunk /\ conn'.cancelled = conn.cancelled
  BY <1>1, <1>2 DEF AConn
<1>4. Current # 0 /\ This \in ATurn
  BY CurrentIs DEF FramesAreOwed, SelectChunk, Idle
<1> DEFINE turn == [This EXCEPT !.upstream = This.upstream \o chunk]
<1>5. turn \in ATurn
  <2>1. This.upstream \o chunk \in Seq(Frame)
    BY <1>2, <1>4 DEF ATurn
  <2> QED BY <1>4, <2>1 DEF ATurn
<1>6. turns' = [turns EXCEPT ![Current] = turn]
  BY <1>1 DEF This
<1> HIDE DEF turn
<1>7. OthersStay /\ This' = turn
  BY <1>4, <1>5, <1>6, ThisSet
<1> QED BY <1>2, <1>3, <1>5, <1>7 DEF turn

LEMMA PutToolsIs ==
    ASSUME Typed, FramesAreOwed, PutTools
    PROVE  OthersStay /\ This' = [This EXCEPT !.tools = TRUE] /\ This' \in ATurn
<1>1. Current # 0 /\ This \in ATurn
  BY CurrentIs DEF FramesAreOwed, PutTools, Idle
<1> DEFINE turn == [This EXCEPT !.tools = TRUE]
<1>2. turn \in ATurn
  BY <1>1 DEF ATurn
<1>3. turns' = [turns EXCEPT ![Current] = turn]
  BY DEF PutTools, This
<1> HIDE DEF turn
<1>4. OthersStay /\ This' = turn
  BY <1>1, <1>2, <1>3, ThisSet
<1> QED BY <1>2, <1>4 DEF turn

LEMMA PutIs ==
    ASSUME Typed, FramesAreOwed, Put
    PROVE  /\ OthersStay /\ This' = [This EXCEPT !.history = Answer(This)] /\ This' \in ATurn
           /\ Answer(This) \in Seq(Nat)
<1>1. Current # 0 /\ This \in ATurn /\ This.mode # "reject"
  BY CurrentIs DEF FramesAreOwed, Put, Idle
<1> DEFINE turn == [This EXCEPT !.history = Answer(This)]
<1>2. Answer(This) \in Seq(Nat)
  <2>1. This.processed \in Seq(Nat) /\ This.mode \in Mode
    BY <1>1 DEF ATurn
  <2>2. /\ This.mode = "stream" => Answer(This) = This.processed
        /\ This.mode = "echo" => Answer(This) = <<>>
        /\ This.mode \in {"buffered", "compaction"} => Answer(This) = <<1>>
    BY DEF Answer
  <2>3. <<>> \in Seq(Nat) /\ <<1>> \in Seq(Nat)
    OBVIOUS
  <2>4. This.mode = "stream" \/ This.mode = "echo" \/ This.mode \in {"buffered", "compaction"}
    BY <1>1, <2>1 DEF Mode
  <2> QED BY <2>1, <2>2, <2>3, <2>4, Zenon
<1>3. turn \in ATurn
  BY <1>1, <1>2 DEF ATurn
<1>4. turns' = [turns EXCEPT ![Current] = turn]
  BY DEF Put, This
<1> HIDE DEF turn
<1>5. OthersStay /\ This' = turn
  BY <1>1, <1>3, <1>4, ThisSet
<1> QED BY <1>2, <1>3, <1>5 DEF turn

LEMMA FrameIs ==
    ASSUME Typed, FramesAreOwed, NextFrame, conn.frames # <<>>
    PROVE  LET frame == This.upstream[Handled + 1] IN
           /\ Handled + 1 \in 1..Len(This.upstream) /\ frame \in Frame
           /\ Len(This.upstream) \in Nat /\ Handled \in Nat
           /\ conn' \in AConn /\ conn'.cancelled = conn.cancelled
           /\ conn'.pc = IF frame = "bad" THEN "bad_frame" ELSE "frames"
           /\ conn'.out = EventsOf(frame, Handled + 1)
           /\ conn'.frames = IF frame = "bad" THEN <<>> ELSE Tail(conn.frames)
           /\ frame # "bad" => Handled' = Handled + 1
           /\ OthersStay /\ This' \in ATurn
           /\ This' = [This EXCEPT !.processed = IF frame = "data"
                                                 THEN Append(This.processed, Handled + 1)
                                                 ELSE This.processed]
<1> DEFINE frame == Head(conn.frames)
           next == Handled + 1
           pc == IF frame = "bad" THEN "bad_frame" ELSE "frames"
           rest == IF frame = "bad" THEN <<>> ELSE Tail(conn.frames)
           processed == IF frame = "data" THEN Append(This.processed, next) ELSE This.processed
           turn == [This EXCEPT !.processed = processed]
<1>0. /\ conn.pc = "frames" /\ Current # 0 /\ This \in ATurn /\ Handled \in Nat
      /\ conn \in AConn /\ conn.frames \in Seq(Frame)
      /\ \A k \in DOMAIN conn.frames : conn.frames[k] = This.upstream[Handled + k]
  BY CurrentIs DEF NextFrame, FramesAreOwed, Idle, Typed, AConn
<1>1. /\ Len(conn.frames) \in Nat /\ Len(conn.frames) >= 1
      /\ Tail(conn.frames) \in Seq(Frame) /\ Len(Tail(conn.frames)) = Len(conn.frames) - 1
      /\ frame \in Frame /\ frame = conn.frames[1]
  BY <1>0, HeadTail
<1>2. /\ next = NextNumber /\ next \in 1..Len(This.upstream) /\ This.upstream[next] = frame
      /\ Len(This.upstream) \in Nat
  <2>1. Len(This.upstream) \in Nat
    BY <1>0 DEF ATurn
  <2>2. Handled = Len(This.upstream) - Len(conn.frames)
    BY DEF Handled
  <2>3. next = NextNumber
    BY <1>1, <2>1, <2>2 DEF NextNumber, This
  <2>4. 1 \in DOMAIN conn.frames
    BY <1>0, <1>1
  <2>5. Handled + 1 \in 1..Len(This.upstream)
    <3>1. Handled \in Nat
      BY <1>0
    <3>2. Len(conn.frames) \in Nat /\ Len(conn.frames) >= 1
      BY <1>1
    <3>3. PICK h \in Nat, l \in Nat, f \in Nat :
              h = Handled /\ l = Len(This.upstream) /\ f = Len(conn.frames)
      BY <2>1, <3>1, <3>2
    <3>4. f >= 1 /\ h = l - f
      BY <2>2, <3>2, <3>3
    <3>5. h + 1 \in 1..l
      BY <3>4
    <3> QED BY <3>3, <3>5
  <2>6. This.upstream[next] = frame
    BY <1>0, <1>1, <2>4
  <2> QED BY <2>1, <2>3, <2>5, <2>6
<1>3. pc \in PCs
  BY DEF PCs
<1>4. rest \in Seq(Frame)
  BY <1>1
<1>5. EventsOf(frame, next) \in Seq(Ev)
  <2>1. next \in Nat /\ frame \in Frame
    BY <1>1, <1>2
  <2> HIDE DEF frame, next
  <2> QED BY <2>1, EventsOfType
<1>6. processed \in Seq(Nat)
  <2>1. This.processed \in Seq(Nat) /\ next \in Nat
    BY <1>0, <1>2 DEF ATurn
  <2> HIDE DEF next, frame
  <2> QED BY <2>1
<1>7. turn \in ATurn
  <2> HIDE DEF processed
  <2> QED BY <1>0, <1>6 DEF ATurn
<1>8. conn' = [conn EXCEPT !.pc = pc, !.out = EventsOf(frame, next), !.frames = rest]
  BY <1>0, <1>2 DEF NextFrame
<1>9. turns' = [turns EXCEPT ![Current] = turn]
  BY <1>2 DEF NextFrame, This
<1>10. /\ conn' \in AConn /\ conn'.cancelled = conn.cancelled
       /\ conn'.pc = pc /\ conn'.out = EventsOf(frame, next) /\ conn'.frames = rest
  <2> HIDE DEF pc, rest, frame, next
  <2> QED BY <1>0, <1>3, <1>4, <1>5, <1>8 DEF AConn
<1>11. OthersStay /\ This' = turn
  <2> HIDE DEF turn
  <2> QED BY <1>0, <1>7, <1>9, ThisSet
<1>12. frame # "bad" => Handled' = next
  <2> SUFFICES ASSUME frame # "bad" PROVE Handled' = next
    OBVIOUS
  <2>1. conn'.frames = Tail(conn.frames) /\ This'.upstream = This.upstream
    BY <1>0, <1>10, <1>11 DEF ATurn
  <2>2. Handled' = Len(This.upstream) - (Len(conn.frames) - 1)
    BY <1>1, <2>1 DEF Handled
  <2>3. Handled = Len(This.upstream) - Len(conn.frames)
    BY DEF Handled
  <2> QED BY <1>1, <1>2, <2>2, <2>3
<1>13. This' \in ATurn
  BY <1>7, <1>11
<1> HIDE DEF frame
<1> QED BY <1>0, <1>1, <1>2, <1>10, <1>11, <1>12, <1>13

LEMMA RecvIs ==
    ASSUME Typed, Recv
    PROVE  \/ /\ UNCHANGED <<turns, conn>>
           \/ \E mode \in Mode :
                 /\ turns' \in Seq(ATurn) /\ Current' = Current + 1 /\ This' = Turn(mode)
                 /\ DOMAIN turns' = 1..(Current + 1)
                 /\ \A t \in DOMAIN turns : turns'[t] = turns[t]
                 /\ conn' \in AConn /\ conn'.pc = "reply" /\ conn'.out = Reply(mode)
                 /\ conn'.frames = conn.frames /\ conn'.cancelled = conn.cancelled
<1>1. CASE Head(inbox) = "create"
  <2>1. PICK mode \in Mode : /\ turns' = Append(turns, Turn(mode))
                             /\ conn' = [conn EXCEPT !.pc = "reply", !.out = Reply(mode)]
    BY <1>1 DEF Recv
  <2>2. Turn(mode) \in ATurn
    <3>1. NotStored \in Seq(Nat) \cup {NotStored} /\ <<>> \in Seq(Nat) /\ <<>> \in Seq(Frame)
      OBVIOUS
    <3> QED BY <3>1 DEF Turn, ATurn
  <2>3. turns \in Seq(ATurn) /\ Current = Len(turns)
    BY DEF Typed, Current
  <2>4. /\ turns' \in Seq(ATurn) /\ Len(turns') = Len(turns) + 1
        /\ turns'[Len(turns) + 1] = Turn(mode) /\ DOMAIN turns' = 1..(Len(turns) + 1)
        /\ \A t \in DOMAIN turns : turns'[t] = turns[t]
    BY <2>1, <2>2, <2>3
  <2>5. Current' = Current + 1 /\ This' = Turn(mode)
    BY <2>4 DEF Current, This
  <2>6. /\ conn' \in AConn /\ conn'.pc = "reply" /\ conn'.out = Reply(mode)
        /\ conn'.frames = conn.frames /\ conn'.cancelled = conn.cancelled
    <3>1. Reply(mode) \in Seq(Ev) /\ "reply" \in PCs /\ conn \in AConn
      BY ReplyType DEF PCs, Typed
    <3> QED BY <2>1, <3>1 DEF AConn
  <2> QED BY <2>3, <2>4, <2>5, <2>6
<1>2. CASE Head(inbox) # "create"
  BY <1>2 DEF Recv
<1> QED BY <1>1, <1>2

LEMMA SendIs ==
    ASSUME Typed, FramesAreOwed, Send
    PROVE  /\ conn' \in AConn /\ conn'.out = Tail(conn.out) /\ conn'.frames = conn.frames
           /\ conn'.cancelled = conn.cancelled /\ conn.pc \in Sending
           /\ conn.out # <<>> /\ Head(conn.out) \in Ev
           /\ conn'.pc = AfterSend(Tail(conn.out))
           /\ client' \in AClient /\ client'.connected = client.connected
           /\ client'.sent = client.sent
           /\ client.connected => client'.seen = Append(client.seen,
                                         [turn |-> Current, event |-> Head(conn.out)])
           /\ ~client.connected => client'.seen = client.seen
<1>1. /\ conn.out # <<>> /\ conn.out \in Seq(Ev) /\ conn \in AConn /\ conn.pc \in Sending
      /\ conn' = [conn EXCEPT !.out = Tail(conn.out), !.pc = AfterSend(Tail(conn.out))]
  BY DEF Typed, Send, AConn, FramesAreOwed
<1>2. Tail(conn.out) \in Seq(Ev) /\ Head(conn.out) \in Ev
  BY <1>1, HeadTail
<1>3. AfterSend(Tail(conn.out)) \in PCs
  <2>1. CASE Tail(conn.out) # <<>> \/ conn.pc = "frames"
    BY <1>1, <2>1 DEF AfterSend, AConn
  <2>2. CASE Tail(conn.out) = <<>> /\ conn.pc = "reply"
    <3>1. turns[Current].mode \in Mode
      BY <2>2, CurrentIs DEF FramesAreOwed, Idle, This, ATurn
    <3>2. AfterReply(turns[Current].mode) \in PCs
      BY <3>1 DEF AfterReply, Mode, PCs
    <3> QED BY <2>2, <3>2 DEF AfterSend
  <2>3. CASE Tail(conn.out) = <<>> /\ conn.pc \in {"give_up", "bad_frame"}
    BY <2>3 DEF AfterSend, PCs
  <2> QED BY <1>1, <2>1, <2>2, <2>3 DEF Sending
<1>4. /\ conn' \in AConn /\ conn'.out = Tail(conn.out) /\ conn'.frames = conn.frames
      /\ conn'.cancelled = conn.cancelled /\ conn'.pc = AfterSend(Tail(conn.out))
  BY <1>1, <1>2, <1>3 DEF AConn
<1> DEFINE item == [turn |-> Current, event |-> Head(conn.out)]
           seen == IF client.connected THEN Append(client.seen, item) ELSE client.seen
<1>5. client \in AClient /\ client' = [client EXCEPT !.seen = seen]
  BY DEF Typed, Send
<1>6. seen \in Seq(ASeen)
  <2>1. item \in ASeen /\ client.seen \in Seq(ASeen)
    BY <1>2, <1>5, CurrentIs DEF AClient, ASeen
  <2> HIDE DEF item
  <2>2. CASE client.connected
    <3>1. Append(client.seen, item) \in Seq(ASeen)
      BY <2>1
    <3> QED BY <2>2, <3>1
  <2>3. CASE ~client.connected
    BY <2>1, <2>3
  <2> QED BY <2>2, <2>3
<1>7. client' \in AClient /\ client'.seen = seen /\ client'.connected = client.connected
      /\ client'.sent = client.sent
  <2> HIDE DEF seen
  <2> QED BY <1>5, <1>6 DEF AClient
<1> QED BY <1>1, <1>2, <1>4, <1>7

-----------------------------------------------------------------------------
(* The shape is kept                                                       *)

LEMMA BaseInit == Init => Base
<1> SUFFICES ASSUME Init PROVE Base
  OBVIOUS
<1>1. /\ <<>> \in Seq(Ev) /\ <<>> \in Seq(Frame) /\ <<>> \in Seq(ATurn)
      /\ <<>> \in Seq(ClientFrame) /\ <<>> \in Seq(ASeen)
      /\ <<>> \in Seq(AnAnswer) /\ Len(<<>>) = 0 /\ DOMAIN <<>> = {}
  OBVIOUS
<1>2. conn \in AConn
  BY <1>1 DEF Init, AConn, PCs
<1>3. client \in AClient
  BY <1>1 DEF Init, AClient
<1>4. Len(answers) <= MaxCancels /\ token \in {0, Current}
  BY <1>1 DEF Init
<1>5. Typed
  BY <1>1, <1>2, <1>3, <1>4 DEF Init, Typed
<1>6. FramesAreOwed
  BY DEF Init, FramesAreOwed, Idle, Relaying
<1>7. TurnsAreSane
  BY <1>1 DEF Init, TurnsAreSane
<1>8. InboxIsSent
  BY <1>1 DEF Init, InboxIsSent
<1> QED BY <1>5, <1>6, <1>7, <1>8 DEF Base

LEMMA TypedNext ==
    ASSUME Typed, FramesAreOwed, [Next]_vars
    PROVE  Typed'
<1>t. /\ conn \in AConn /\ turns \in Seq(ATurn) /\ inbox \in Seq(ClientFrame)
      /\ client \in AClient /\ client.sent \in Seq(ClientFrame) /\ client.connected \in BOOLEAN
      /\ client.seen \in Seq(ASeen) /\ token \in {0, Current}
      /\ signalled \in BOOLEAN /\ answers \in Seq(AnAnswer) /\ Len(answers) <= MaxCancels
      /\ Current \in Nat
  BY CurrentIs DEF Typed, AClient
<1>c. turns' = turns => Current' = Current
  BY DEF Current
<1>o. OthersStay => Current' = Current /\ turns' \in Seq(ATurn)
  BY DEF OthersStay
<1>i. inbox # <<>> => Tail(inbox) \in Seq(ClientFrame)
  BY <1>t, HeadTail
<1>1. CASE Recv
  <2>1. conn' \in AConn /\ turns' \in Seq(ATurn)
    BY <1>1, <1>t, RecvIs
  <2>2. token' = 0
    BY <1>1 DEF Recv, FramesAreOwed, Held
  <2> QED BY <1>1, <1>t, <1>i, <2>1, <2>2 DEF Recv, Typed
<1>2. CASE HangUp \/ SendFails \/ PrepareFails \/ SelectCancel \/ SelectGone \/ SelectEnd
  <2>1. UNCHANGED <<turns, inbox, client, token, signalled, answers>>
    BY <1>2 DEF HangUp, SendFails, PrepareFails, SelectCancel, SelectGone, SelectEnd
  <2>2. conn' \in AConn
    BY <1>2, ConnAfter
  <2> QED BY <1>t, <1>c, <2>1, <2>2 DEF Typed
<1>3. CASE Send
  BY <1>3, <1>t, <1>c, SendIs DEF Send, Typed
<1>4. CASE Register
  BY <1>4, <1>t, <1>c, ConnAfter DEF Register, Typed
<1>5. CASE SelectFrame
  BY <1>5, <1>t, <1>c, <1>i, ConnAfter DEF SelectFrame, Typed
<1>6. CASE SelectChunk
  BY <1>6, <1>t, <1>o, ChunkIs DEF SelectChunk, Typed
<1>7. CASE NextFrame
  <2>1. CASE conn.frames = <<>>
    <3>1. conn' \in AConn
      BY <1>7, <1>t, <2>1 DEF NextFrame, AConn, PCs
    <3> QED BY <1>7, <1>t, <1>c, <2>1, <3>1 DEF NextFrame, Typed
  <2>2. CASE conn.frames # <<>>
    BY <1>7, <1>t, <1>o, <2>2, FrameIs DEF NextFrame, Typed
  <2> QED BY <2>1, <2>2
<1>8. CASE Unregister
  BY <1>8, <1>t, <1>c, ConnAfter DEF Unregister, Typed
<1>9. CASE PutTools
  BY <1>9, <1>t, <1>o, ConnAfter, PutToolsIs DEF PutTools, Typed
<1>10. CASE Put
  BY <1>10, <1>t, <1>o, ConnAfter, PutIs DEF Put, Typed
<1>11. CASE ClientSends
  <2>1. PICK frame \in ClientFrame : /\ client' = [client EXCEPT !.sent = Append(client.sent, frame)]
                                     /\ inbox' = Append(inbox, frame)
    BY <1>11 DEF ClientSends
  <2>2. Append(client.sent, frame) \in Seq(ClientFrame) /\ inbox' \in Seq(ClientFrame)
    BY <1>t, <2>1
  <2>3. client' \in AClient
    BY <1>t, <2>1, <2>2 DEF AClient
  <2> QED BY <1>11, <1>t, <1>c, <2>2, <2>3 DEF ClientSends, Typed
<1>12. CASE Leave
  <2>1. client' \in AClient
    BY <1>12, <1>t DEF Leave, AClient
  <2> QED BY <1>12, <1>t, <1>c, <2>1 DEF Leave, Typed
<1>13. CASE Cancel
  <2>1. PICK t \in DOMAIN turns :
            /\ answers' = Append(answers, [turn |-> t, status |-> IF token = t THEN 200 ELSE 404,
                                           pc |-> IF t = Current THEN conn.pc ELSE "recv"])
            /\ signalled' = (signalled \/ token = t)
            /\ token' = IF token = t THEN 0 ELSE token
    BY <1>13 DEF Cancel
  <2>2. [turn |-> t, status |-> IF token = t THEN 200 ELSE 404,
         pc |-> IF t = Current THEN conn.pc ELSE "recv"] \in AnAnswer
    <3>1. t \in Nat /\ conn.pc \in PCs /\ "recv" \in PCs
      BY <1>t, CurrentIs DEF AConn, PCs
    <3> QED BY <3>1 DEF AnAnswer
  <2>3. answers' \in Seq(AnAnswer) /\ Len(answers') <= MaxCancels
    <3>1. Len(answers) < MaxCancels /\ Len(answers) \in Nat
      BY <1>13, <1>t DEF Cancel
    <3> QED BY <1>t, <2>1, <2>2, <3>1
  <2>4. signalled' \in BOOLEAN /\ token' \in {0, Current}
    BY <1>t, <2>1
  <2> QED BY <1>13, <1>t, <1>c, <2>3, <2>4 DEF Cancel, Typed
<1>14. CASE UNCHANGED vars
  BY <1>14, <1>c DEF vars, Typed
<1> QED BY <1>1, <1>2, <1>3, <1>4, <1>5, <1>6, <1>7, <1>8, <1>9, <1>10, <1>11, <1>12, <1>13,
           <1>14 DEF Next, ConnStep

LEMMA SendMoves ==
    ASSUME Typed, FramesAreOwed, Send
    PROVE  /\ conn.pc = "frames" \/ Tail(conn.out) # <<>> => conn'.pc = conn.pc
           /\ conn.pc = "reply" /\ Tail(conn.out) = <<>> =>
                 /\ This.mode = "reject" => conn'.pc = "recv"
                 /\ This.mode \in {"echo", "buffered"} => conn'.pc = "put_tools"
                 /\ This.mode = "compaction" => conn'.pc = "put"
                 /\ This.mode = "stream" => conn'.pc = "register"
           /\ conn.pc = "give_up" /\ Tail(conn.out) = <<>> => conn'.pc = "recv"
           /\ conn.pc = "bad_frame" /\ Tail(conn.out) = <<>> => conn'.pc = "unregister"
           /\ Current # 0 /\ This.mode \in Mode
           /\ turns' = turns /\ Current' = Current /\ This' = This /\ Handled' = Handled
<1>1. /\ conn'.pc = AfterSend(Tail(conn.out)) /\ conn.pc \in Sending /\ turns' = turns
      /\ conn'.frames = conn.frames
  BY SendIs DEF Send
<1>2. Current # 0 /\ This.mode \in Mode
  BY <1>1, CurrentIs DEF FramesAreOwed, Sending, Idle, ATurn
<1>3. Current' = Current /\ This' = This /\ Handled' = Handled
  BY <1>1 DEF Current, This, Handled
<1>4. conn.pc = "frames" \/ Tail(conn.out) # <<>> => conn'.pc = conn.pc
  BY <1>1 DEF AfterSend
<1>5. conn.pc = "reply" /\ Tail(conn.out) = <<>> => conn'.pc = AfterReply(This.mode)
  BY <1>1 DEF AfterSend, This
<1>6. /\ conn.pc = "give_up" /\ Tail(conn.out) = <<>> => conn'.pc = "recv"
      /\ conn.pc = "bad_frame" /\ Tail(conn.out) = <<>> => conn'.pc = "unregister"
  BY <1>1 DEF AfterSend
<1>7. /\ This.mode = "reject" => AfterReply(This.mode) = "recv"
      /\ This.mode \in {"echo", "buffered"} => AfterReply(This.mode) = "put_tools"
      /\ This.mode = "compaction" => AfterReply(This.mode) = "put"
      /\ This.mode = "stream" => AfterReply(This.mode) = "register"
  BY DEF AfterReply
<1> QED BY <1>1, <1>2, <1>3, <1>4, <1>5, <1>6, <1>7

LEMMA OwedNext ==
    ASSUME Typed, FramesAreOwed, [Next]_vars
    PROVE  FramesAreOwed'
<1>s. turns' = turns => Current' = Current /\ This' = This
  BY DEF Current, This
<1>h. turns' = turns /\ conn'.frames = conn.frames => Handled' = Handled
  BY DEF Handled, Current, This
<1>n. conn.pc # "frames" /\ conn.pc \notin Idle => Handled = Len(This.upstream) /\ Handled \in Nat
  <2> SUFFICES ASSUME conn.pc # "frames", conn.pc \notin Idle
               PROVE  Handled = Len(This.upstream) /\ Handled \in Nat
    OBVIOUS
  <2>1. Len(This.upstream) \in Nat /\ conn.frames = <<>>
    BY CurrentIs DEF FramesAreOwed, ATurn
  <2> QED BY <2>1 DEF Handled
<1>1. CASE Recv
  <2>1. CASE UNCHANGED <<turns, conn>>
    BY <1>1, <1>s, <1>h, <2>1 DEF Recv, FramesAreOwed
  <2>2. ASSUME NEW mode \in Mode, Current' = Current + 1, This' = Turn(mode), conn'.pc = "reply",
               conn'.frames = conn.frames
        PROVE  FramesAreOwed'
    <3>1. Current' # 0 /\ This'.upstream = <<>> /\ conn'.frames = <<>> /\ token' = 0
      <4>1. Current' # 0
        BY <2>2, CurrentIs
      <4>2. This'.upstream = <<>>
        BY <2>2 DEF Turn
      <4>3. conn'.frames = <<>> /\ token' = 0
        BY <1>1, <2>2 DEF Recv, FramesAreOwed, Held
      <4> QED BY <4>1, <4>2, <4>3
    <3> QED BY <2>2, <3>1 DEF FramesAreOwed, Idle, Held, Relaying, Sending
  <2> QED BY <1>1, <2>1, <2>2, RecvIs
<1>2. CASE HangUp
  BY <1>2, <1>s, <1>h, ConnAfter DEF HangUp, FramesAreOwed, Idle, Held, Relaying, Sending
<1>3. CASE Send
  <2>1. /\ conn'.out = Tail(conn.out) /\ conn'.frames = conn.frames /\ conn.pc \in Sending
        /\ token' = token
    BY <1>3, SendIs DEF Send
  <2>2. CASE conn.pc = "frames" \/ Tail(conn.out) # <<>>
    BY <1>3, <2>1, <2>2, SendMoves DEF FramesAreOwed
  <2>3. CASE conn.pc = "reply" /\ Tail(conn.out) = <<>>
    BY <1>3, <2>1, <2>3, SendMoves DEF FramesAreOwed, Idle, Held, Relaying, Sending, Mode
  <2>4. CASE conn.pc \in {"give_up", "bad_frame"} /\ Tail(conn.out) = <<>>
    BY <1>3, <2>1, <2>4, SendMoves DEF FramesAreOwed, Idle, Held, Relaying, Sending
  <2> QED BY <2>1, <2>2, <2>3, <2>4 DEF Sending
<1>4. CASE SendFails
  <2>1. turns' = turns /\ token' = token
    BY <1>4 DEF SendFails
  <2> QED BY <1>4, <1>s, <1>h, <2>1, ConnAfter DEF FramesAreOwed, Idle, Held, Relaying, Sending
<1>5. CASE PrepareFails
  <2>1. turns' = turns /\ token' = token /\ conn.pc = "reply"
    BY <1>5 DEF PrepareFails
  <2> QED BY <1>5, <1>s, <1>h, <2>1, ConnAfter DEF FramesAreOwed, Idle, Held, Relaying, Sending
<1>6. CASE Register
  <2>1. turns' = turns /\ conn.pc = "register"
    BY <1>6 DEF Register
  <2>2. Handled = 0
    BY <1>n, <2>1 DEF FramesAreOwed, Idle
  <2> QED BY <1>6, <1>s, <1>h, <2>1, <2>2, ConnAfter
          DEF FramesAreOwed, Idle, Held, Relaying, Sending
<1>7. CASE SelectCancel \/ SelectFrame \/ SelectGone \/ SelectEnd
  <2>1. turns' = turns /\ token' = token /\ conn.pc = "select"
    BY <1>7 DEF SelectCancel, SelectFrame, SelectGone, SelectEnd
  <2> QED BY <1>7, <1>s, <1>h, <2>1, ConnAfter DEF FramesAreOwed, Idle, Held, Relaying, Sending
<1>8. CASE SelectChunk
  <2>1. PICK chunk \in Seq(Frame) :
              /\ conn'.pc = "frames" /\ conn'.out = conn.out /\ conn'.frames = chunk
              /\ OthersStay /\ This' = [This EXCEPT !.upstream = This.upstream \o chunk]
    BY <1>8, ChunkIs
  <2>2. conn.pc = "select" /\ token' = token
    BY <1>8 DEF SelectChunk
  <2>3. This \in ATurn /\ This.upstream \in Seq(Frame) /\ Current # 0 /\ This.mode = "stream"
    BY <2>2, CurrentIs DEF FramesAreOwed, Idle, Relaying, ATurn
  <2>4. This'.upstream = This.upstream \o chunk /\ This'.mode = "stream"
    BY <2>1, <2>3 DEF ATurn
  <2>5. Handled' = Len(This.upstream) /\ Len(This.upstream) \in Nat /\ Handled = Len(This.upstream)
    <3>1. /\ Len(This.upstream) \in Nat /\ Len(chunk) \in Nat
          /\ Len(This.upstream \o chunk) = Len(This.upstream) + Len(chunk)
      BY <2>3
    <3>2. Handled' = Len(This.upstream \o chunk) - Len(chunk)
      BY <2>1, <2>4 DEF Handled
    <3>3. Handled = Len(This.upstream)
      BY <1>n, <2>2 DEF Idle
    <3> QED BY <3>1, <3>2, <3>3
  <2>6. \A k \in DOMAIN chunk : chunk[k] = This'.upstream[Len(This.upstream) + k]
    BY <2>3, <2>4, ConcatProperties
  <2>7. \A n \in 1..Len(This.upstream) : This'.upstream[n] # "bad"
    <3>1. \A n \in 1..Len(This.upstream) : This.upstream[n] # "bad"
      BY <2>2, <2>5 DEF FramesAreOwed
    <3> QED BY <2>3, <2>4, <3>1, ConcatProperties
  <2>8. Current' # 0
    BY <2>1, <2>3 DEF OthersStay
  <2> QED BY <2>1, <2>2, <2>4, <2>5, <2>6, <2>7, <2>8
          DEF FramesAreOwed, Idle, Held, Relaying, Sending
<1>9. CASE NextFrame /\ conn.frames = <<>>
  <2>1. /\ turns' = turns /\ token' = token /\ conn.pc = "frames" /\ conn.out = <<>>
        /\ conn'.pc = "select" /\ conn'.out = conn.out /\ conn'.frames = conn.frames
    BY <1>9 DEF NextFrame, Typed, AConn
  <2> QED BY <1>9, <1>s, <1>h, <2>1 DEF FramesAreOwed, Idle, Held, Relaying, Sending
<1>10. CASE NextFrame /\ conn.frames # <<>>
  <2> DEFINE next == Handled + 1
             frame == This.upstream[next]
  <2>1. /\ next \in 1..Len(This.upstream) /\ Len(This.upstream) \in Nat /\ Handled \in Nat
        /\ conn'.pc = IF frame = "bad" THEN "bad_frame" ELSE "frames"
        /\ conn'.frames = IF frame = "bad" THEN <<>> ELSE Tail(conn.frames)
        /\ frame # "bad" => Handled' = next
        /\ OthersStay
    BY <1>10, FrameIs
  <2>2. conn.pc = "frames" /\ token' = token
    BY <1>10 DEF NextFrame
  <2>3. Current' # 0 /\ This'.mode = "stream" /\ This'.upstream = This.upstream
    <3>1. This \in ATurn /\ Current # 0 /\ This.mode = "stream"
      BY <2>2, CurrentIs DEF FramesAreOwed, Idle, Relaying
    <3>2. This' = [This EXCEPT !.processed = IF frame = "data" THEN Append(This.processed, next)
                                             ELSE This.processed]
      BY <1>10, FrameIs
    <3>3. This'.mode = This.mode /\ This'.upstream = This.upstream
      BY <3>1, <3>2 DEF ATurn
    <3> QED BY <2>1, <3>1, <3>3 DEF OthersStay
  <2>4. CASE frame = "bad"
    BY <2>1, <2>2, <2>3, <2>4 DEF FramesAreOwed, Idle, Held, Relaying, Sending
  <2>5. CASE frame # "bad"
    <3>1. conn'.pc = "frames" /\ conn'.frames = Tail(conn.frames) /\ Handled' = next
      BY <2>1, <2>5
    <3>2. ASSUME NEW k \in DOMAIN Tail(conn.frames)
          PROVE  Tail(conn.frames)[k] = This.upstream[next + k]
      <4>1. /\ conn.frames \in Seq(Frame) /\ Len(conn.frames) \in Nat
            /\ k \in 1..(Len(conn.frames) - 1) /\ k + 1 \in DOMAIN conn.frames
            /\ Tail(conn.frames)[k] = conn.frames[k + 1]
        <5>1. conn.frames \in Seq(Frame)
          BY DEF Typed, AConn
        <5> QED BY <1>10, <5>1, HeadTail
      <4>2. conn.frames[k + 1] = This.upstream[Handled + (k + 1)]
        BY <2>2, <4>1 DEF FramesAreOwed
      <4>3. Handled + (k + 1) = next + k
        BY <2>1, <4>1
      <4> QED BY <4>1, <4>2, <4>3
    <3>3. \A n \in 1..next : This.upstream[n] # "bad"
      BY <2>1, <2>2, <2>5 DEF FramesAreOwed
    <3>4. next \in Nat
      BY <2>1
    <3> HIDE DEF next
    <3> QED BY <2>2, <2>3, <3>1, <3>2, <3>3, <3>4
            DEF FramesAreOwed, Idle, Held, Relaying, Sending
  <2> QED BY <2>4, <2>5
<1>11. CASE Unregister
  <2>1. turns' = turns /\ token' = 0 /\ conn.pc = "unregister"
    BY <1>11 DEF Unregister
  <2> QED BY <1>11, <1>s, <1>h, <2>1, ConnAfter DEF FramesAreOwed, Idle, Held, Relaying, Sending
<1>12. CASE PutTools
  <2>1. token' = token /\ conn.pc = "put_tools"
    BY <1>12 DEF PutTools
  <2>2. This \in ATurn /\ Current # 0 /\ This.mode # "reject"
    BY <2>1, CurrentIs DEF FramesAreOwed, Idle
  <2>3. /\ Current' # 0 /\ This'.mode = This.mode /\ This'.tools = TRUE
        /\ This'.upstream = This.upstream
    BY <1>12, <2>2, PutToolsIs DEF OthersStay, ATurn
  <2> QED BY <1>12, <2>1, <2>2, <2>3, ConnAfter DEF FramesAreOwed, Idle, Held, Relaying, Sending
<1>13. CASE Put
  <2>1. token' = token /\ conn.pc = "put"
    BY <1>13 DEF Put
  <2> QED BY <1>13, <2>1, ConnAfter DEF FramesAreOwed, Idle, Held, Relaying, Sending
<1>14. CASE ClientSends \/ Leave \/ Cancel
  <2>1. turns' = turns /\ conn' = conn /\ (token = 0 => token' = 0)
    BY <1>14 DEF ClientSends, Leave, Cancel
  <2> QED BY <1>s, <1>h, <2>1 DEF FramesAreOwed
<1>15. CASE UNCHANGED vars
  BY <1>15, <1>s, <1>h DEF vars, FramesAreOwed
<1> QED BY <1>1, <1>2, <1>3, <1>4, <1>5, <1>6, <1>7, <1>8, <1>9, <1>10, <1>11, <1>12, <1>13,
           <1>14, <1>15 DEF Next, ConnStep

LEMMA SaneNext ==
    ASSUME Typed, FramesAreOwed, TurnsAreSane, [Next]_vars
    PROVE  TurnsAreSane'
<1> DEFINE Sane(turn) == /\ \A k \in DOMAIN turn.processed :
                               turn.processed[k] \in DOMAIN turn.upstream
                         /\ turn.mode # "stream" => turn.upstream = <<>>
<1>s. \A t \in DOMAIN turns : Sane(turns[t])
  BY DEF TurnsAreSane
<1>o. ASSUME OthersStay, Current # 0 => Sane(This') PROVE TurnsAreSane'
  <2>1. ASSUME NEW t \in DOMAIN turns' PROVE Sane(turns'[t])
    <3>1. CASE t = Current
      BY <1>o, <2>1, <3>1, CurrentIs DEF OthersStay, This
    <3>2. CASE t # Current
      BY <1>o, <1>s, <2>1, <3>2 DEF OthersStay
    <3> QED BY <3>1, <3>2
  <2> QED BY <2>1 DEF TurnsAreSane
<1>1. CASE turns' = turns
  BY <1>1 DEF TurnsAreSane
<1>2. CASE Recv /\ turns' # turns
  <2>1. PICK mode \in Mode : /\ This' = Turn(mode) /\ Current' = Current + 1
                             /\ DOMAIN turns' = 1..(Current + 1)
                             /\ \A t \in DOMAIN turns : turns'[t] = turns[t]
    BY <1>2, RecvIs
  <2>2. ASSUME NEW t \in DOMAIN turns' PROVE Sane(turns'[t])
    <3>1. CASE t = Current + 1
      <4>1. turns'[t] = Turn(mode)
        BY <2>1, <3>1 DEF This
      <4> QED BY <4>1 DEF Turn
    <3>2. CASE t # Current + 1
      BY <1>s, <2>1, <2>2, <3>2, CurrentIs
    <3> QED BY <3>1, <3>2
  <2> QED BY <2>2 DEF TurnsAreSane
<1>3. CASE SelectChunk
  <2>1. PICK chunk \in Seq(Frame) :
              OthersStay /\ This' = [This EXCEPT !.upstream = This.upstream \o chunk]
    BY <1>3, ChunkIs
  <2>2. This \in ATurn /\ This.upstream \in Seq(Frame) /\ Sane(This) /\ This.mode = "stream"
    BY <1>3, <1>s, CurrentIs DEF SelectChunk, FramesAreOwed, Idle, Relaying, This, ATurn
  <2>3. This'.upstream = This.upstream \o chunk /\ This'.mode = This.mode
        /\ This'.processed = This.processed
    BY <2>1, <2>2 DEF ATurn
  <2>4. \A n \in DOMAIN This.upstream : n \in DOMAIN (This.upstream \o chunk)
    BY <2>2
  <2>5. Sane(This')
    BY <2>2, <2>3, <2>4
  <2> QED BY <1>o, <2>1, <2>5
<1>4. CASE NextFrame /\ conn.frames # <<>>
  <2> DEFINE next == Handled + 1
             more == Append(This.processed, next)
  <2>1. /\ next \in 1..Len(This.upstream) /\ OthersStay
        /\ \/ This' = [This EXCEPT !.processed = more]
           \/ This' = [This EXCEPT !.processed = This.processed]
    BY <1>4, FrameIs
  <2>2. /\ This \in ATurn /\ This.upstream \in Seq(Frame) /\ This.processed \in Seq(Nat)
        /\ Sane(This)
    BY <1>4, <1>s, CurrentIs DEF NextFrame, FramesAreOwed, Idle, This, ATurn
  <2>3. \A k \in DOMAIN more : more[k] \in DOMAIN This.upstream
    <3>1. next \in DOMAIN This.upstream /\ next \in Nat
      BY <2>1, <2>2
    <3> HIDE DEF next
    <3> QED BY <2>2, <3>1
  <2>4. /\ This'.upstream = This.upstream /\ This'.mode = This.mode
        /\ This'.processed = more \/ This'.processed = This.processed
    <3> HIDE DEF more
    <3> QED BY <2>1, <2>2 DEF ATurn
  <2>5. Sane(This')
    <3> HIDE DEF more
    <3> QED BY <2>2, <2>3, <2>4
  <2> QED BY <1>o, <2>1, <2>5
<1>5. CASE PutTools
  <2>1. OthersStay /\ This' = [This EXCEPT !.tools = TRUE]
    BY <1>5, PutToolsIs
  <2>2. This \in ATurn /\ Sane(This)
    BY <1>5, <1>s, CurrentIs DEF PutTools, FramesAreOwed, Idle, This
  <2>3. Sane(This')
    BY <2>1, <2>2 DEF ATurn
  <2> QED BY <1>o, <2>1, <2>3
<1>6. CASE Put
  <2>1. OthersStay /\ This' = [This EXCEPT !.history = Answer(This)]
    BY <1>6, PutIs
  <2>2. This \in ATurn /\ Sane(This)
    BY <1>6, <1>s, CurrentIs DEF Put, FramesAreOwed, Idle, This
  <2>3. Sane(This')
    BY <2>1, <2>2 DEF ATurn
  <2> QED BY <1>o, <2>1, <2>3
<1>7. NextFrame /\ conn.frames = <<>> => turns' = turns
  BY DEF NextFrame
<1>8. /\ HangUp \/ Send \/ SendFails \/ PrepareFails \/ Register \/ SelectCancel
         \/ SelectFrame \/ SelectGone \/ SelectEnd => turns' = turns
      /\ Unregister \/ ClientSends \/ Leave \/ Cancel \/ UNCHANGED vars => turns' = turns
  BY DEF HangUp, Send, SendFails, PrepareFails, Register, SelectCancel, SelectFrame,
         SelectGone, SelectEnd, Unregister, ClientSends, Leave, Cancel, vars
<1> QED BY <1>1, <1>2, <1>3, <1>4, <1>5, <1>6, <1>7, <1>8 DEF Next, ConnStep

LEMMA InboxNext ==
    ASSUME Typed, FramesAreOwed, InboxIsSent, [Next]_vars
    PROVE  InboxIsSent'
<1>t. inbox \in Seq(ClientFrame) /\ client.sent \in Seq(ClientFrame) /\ client \in AClient
  BY DEF Typed, AClient
<1>1. CASE inbox' = inbox /\ client'.sent = client.sent
  BY <1>1 DEF InboxIsSent
<1>2. CASE inbox # <<>> /\ inbox' = Tail(inbox) /\ client' = client
  <2>1. /\ Len(Tail(inbox)) = Len(inbox) - 1 /\ Len(inbox) \in Nat /\ Len(client.sent) \in Nat
        /\ Tail(inbox) \in Seq(ClientFrame)
        /\ \A k \in 1..(Len(inbox) - 1) : Tail(inbox)[k] = inbox[k + 1]
    BY <1>2, <1>t, HeadTail
  <2>2. Len(inbox') <= Len(client'.sent)
    BY <1>2, <2>1 DEF InboxIsSent
  <2>3. ASSUME NEW k \in DOMAIN inbox' PROVE Contains(client'.sent, inbox'[k])
    <3>1. k \in 1..(Len(inbox) - 1) /\ k + 1 \in DOMAIN inbox
      BY <1>2, <1>t, <2>1, <2>3
    <3> QED BY <1>2, <2>1, <3>1 DEF InboxIsSent
  <2> QED BY <2>2, <2>3 DEF InboxIsSent
<1>3. CASE ClientSends
  <2>1. PICK frame \in ClientFrame : /\ client' = [client EXCEPT !.sent = Append(client.sent, frame)]
                                     /\ inbox' = Append(inbox, frame)
    BY <1>3 DEF ClientSends
  <2>2. client'.sent = Append(client.sent, frame)
    BY <1>t, <2>1 DEF AClient
  <2>3. Len(inbox') <= Len(client'.sent)
    BY <1>t, <2>1, <2>2 DEF InboxIsSent
  <2>4. \A x : Contains(client.sent, x) => Contains(client'.sent, x)
    BY <1>t, <2>2 DEF Contains
  <2>5. Contains(client'.sent, frame)
    BY <1>t, <2>2 DEF Contains
  <2>6. ASSUME NEW k \in DOMAIN inbox' PROVE Contains(client'.sent, inbox'[k])
    <3>1. inbox'[k] = frame \/ (k \in DOMAIN inbox /\ inbox'[k] = inbox[k])
      BY <1>t, <2>1
    <3> QED BY <2>4, <2>5, <3>1 DEF InboxIsSent
  <2> QED BY <2>3, <2>6 DEF InboxIsSent
<1>4. Recv \/ SelectFrame => inbox # <<>> /\ inbox' = Tail(inbox) /\ client' = client
  BY DEF Recv, SelectFrame
<1>5. Send => inbox' = inbox /\ client'.sent = client.sent
  BY SendIs DEF Send
<1>6. Leave => inbox' = inbox /\ client'.sent = client.sent
  BY <1>t DEF Leave, AClient
<1>7. /\ HangUp \/ SendFails \/ PrepareFails \/ Register \/ SelectCancel \/ SelectGone
         \/ SelectChunk \/ SelectEnd \/ NextFrame => inbox' = inbox /\ client' = client
      /\ Unregister \/ PutTools \/ Put \/ Cancel \/ UNCHANGED vars
         => inbox' = inbox /\ client' = client
  BY DEF HangUp, SendFails, PrepareFails, Register, SelectCancel, SelectGone,
         SelectChunk, SelectEnd, NextFrame, Unregister, PutTools, Put, Cancel, vars
<1> QED BY <1>1, <1>2, <1>3, <1>4, <1>5, <1>6, <1>7 DEF Next, ConnStep

LEMMA BaseNext ==
    ASSUME Base, [Next]_vars
    PROVE  Base'
BY TypedNext, OwedNext, SaneNext, InboxNext DEF Base

\* What a step does to the turns: nothing, or something to the current one, or
\* there is a new one.
LEMMA TurnsMove ==
    ASSUME Typed, FramesAreOwed, [Next]_vars
    PROVE  \/ /\ turns' = turns /\ Current' = Current /\ This' = This
              /\ DOMAIN turns' = DOMAIN turns
           \/ OthersStay /\ conn.pc \notin Idle /\ (SelectChunk \/ NextFrame \/ PutTools \/ Put)
           \/ /\ Recv /\ conn.pc = "recv" /\ conn'.pc = "reply"
              /\ Current' = Current + 1 /\ DOMAIN turns' = 1..(Current + 1)
              /\ \A t \in DOMAIN turns : turns'[t] = turns[t]
              /\ \E mode \in Mode : This' = Turn(mode) /\ conn'.out = Reply(mode)
<1>1. /\ SelectChunk => OthersStay /\ conn.pc \notin Idle
      /\ PutTools => OthersStay /\ conn.pc \notin Idle
      /\ Put => OthersStay /\ conn.pc \notin Idle
      /\ NextFrame /\ conn.frames # <<>> => OthersStay /\ conn.pc \notin Idle
      /\ NextFrame /\ conn.frames = <<>> => turns' = turns
  <2>1. SelectChunk => OthersStay /\ conn.pc \notin Idle
    BY ChunkIs DEF SelectChunk, Idle
  <2>2. PutTools => OthersStay /\ conn.pc \notin Idle
    BY PutToolsIs DEF PutTools, Idle
  <2>3. Put => OthersStay /\ conn.pc \notin Idle
    BY PutIs DEF Put, Idle
  <2>4. NextFrame /\ conn.frames # <<>> => OthersStay /\ conn.pc \notin Idle
    BY FrameIs DEF NextFrame, Idle
  <2>5. NextFrame /\ conn.frames = <<>> => turns' = turns
    BY DEF NextFrame
  <2> QED BY <2>1, <2>2, <2>3, <2>4, <2>5
<1>2. /\ HangUp \/ Send \/ SendFails \/ PrepareFails \/ Register \/ SelectCancel
         \/ SelectFrame \/ SelectGone \/ SelectEnd => turns' = turns
      /\ Unregister \/ ClientSends \/ Leave \/ Cancel \/ UNCHANGED vars => turns' = turns
  BY DEF HangUp, Send, SendFails, PrepareFails, Register, SelectCancel, SelectFrame,
         SelectGone, SelectEnd, Unregister, ClientSends, Leave, Cancel, vars
<1>3. Recv => conn.pc = "recv"
  BY DEF Recv
<1>4. turns' = turns => Current' = Current /\ This' = This /\ DOMAIN turns' = DOMAIN turns
  BY DEF Current, This
<1> QED BY <1>1, <1>2, <1>3, <1>4, RecvIs DEF Next, ConnStep

-----------------------------------------------------------------------------
(* The token and the cancels                                               *)

\* A cancel of a turn has been answered with 200.
Stopped(t) == \E k \in DOMAIN answers : answers[k].turn = t /\ answers[k].status = 200

\* A token that went before its turn ended was taken by a cancel that was told so.
TokenInv ==
    /\ conn.pc \in Held /\ token = 0 => Stopped(Current)
    /\ NotFoundMeansNotRelaying

\* And only such a cancel signals a turn that holds its token.
CancelInv ==
    /\ conn.pc \in Held /\ signalled => Stopped(Current)
    /\ conn.cancelled => /\ conn.pc = "unregister"
                         /\ Contains(client.sent, "cancel") \/ Stopped(Current)
    /\ KeptUnlessCancelled

\* A turn comes to hold a token only by registering one.
LEMMA HeldStays ==
    ASSUME Typed, FramesAreOwed, [Next]_vars, ~Register, ~Cancel
    PROVE  /\ answers' = answers
           /\ conn'.pc \in Held => /\ conn.pc \in Held /\ Current' = Current
                                   /\ token' = token /\ signalled' = signalled
<1>c. turns' = turns => Current' = Current
  BY DEF Current
<1>1. CASE Recv
  <2>1. token' = token /\ signalled' = signalled /\ answers' = answers /\ conn.pc = "recv"
    BY <1>1 DEF Recv
  <2>2. conn'.pc = "recv" \/ conn'.pc = "reply"
    BY <1>1, <2>1, RecvIs
  <2> QED BY <2>1, <2>2 DEF Held
<1>2. CASE Send
  <2>1. /\ token' = token /\ signalled' = signalled /\ answers' = answers /\ turns' = turns
        /\ conn.pc \in Sending
    BY <1>2, SendIs DEF Send
  <2>2. conn'.pc \in Held => conn.pc \in Held
    BY <1>2, <2>1, SendMoves DEF Held, Sending, Mode
  <2> QED BY <1>c, <2>1, <2>2
<1>3. CASE HangUp \/ SendFails \/ PrepareFails \/ SelectCancel \/ SelectFrame \/ SelectGone
           \/ SelectEnd
  <2>1. token' = token /\ signalled' = signalled /\ answers' = answers /\ turns' = turns
    BY <1>3 DEF HangUp, SendFails, PrepareFails, SelectCancel, SelectFrame, SelectGone, SelectEnd
  <2>2. SelectCancel \/ SelectFrame \/ SelectGone \/ SelectEnd => conn.pc = "select"
    BY DEF SelectCancel, SelectFrame, SelectGone, SelectEnd
  <2>3. conn'.pc \in Held => conn.pc \in Held
    BY <1>3, <2>2, ConnAfter DEF Held
  <2> QED BY <1>c, <2>1, <2>3
<1>4. CASE SelectChunk
  BY <1>4, ChunkIs DEF SelectChunk, OthersStay, Held
<1>5. CASE NextFrame
  <2>1. /\ token' = token /\ signalled' = signalled /\ answers' = answers /\ conn.pc = "frames"
        /\ conn.pc \in Held
    BY <1>5 DEF NextFrame, Held
  <2>2. Current' = Current
    BY <1>5, <1>c, TurnsMove DEF OthersStay, Recv, NextFrame
  <2> QED BY <2>1, <2>2
<1>6. CASE Unregister \/ PutTools \/ Put
  <2>1. conn'.pc \notin Held
    BY <1>6, ConnAfter DEF Held
  <2>2. answers' = answers
    BY <1>6 DEF Unregister, PutTools, Put
  <2> QED BY <2>1, <2>2
<1>7. CASE ClientSends \/ Leave \/ UNCHANGED vars
  <2>1. /\ token' = token /\ signalled' = signalled /\ answers' = answers /\ turns' = turns
        /\ conn' = conn
    BY <1>7 DEF ClientSends, Leave, vars
  <2> QED BY <1>c, <2>1
<1> QED BY <1>1, <1>2, <1>3, <1>4, <1>5, <1>6, <1>7 DEF Next, ConnStep

\* One more answer.
LEMMA CancelIs ==
    ASSUME Typed, Cancel
    PROVE  \E t \in DOMAIN turns, answer \in AnAnswer :
              /\ answer.turn = t /\ answer.pc = (IF t = Current THEN conn.pc ELSE "recv")
              /\ answer.status = IF token = t THEN 200 ELSE 404
              /\ answers' = Append(answers, answer)
              /\ Len(answers) \in Nat /\ DOMAIN answers' = 1..(Len(answers) + 1)
              /\ DOMAIN answers = 1..Len(answers)
              /\ answers'[Len(answers) + 1] = answer
              /\ \A k \in DOMAIN answers : answers'[k] = answers[k]
              /\ signalled' = (signalled \/ token = t)
              /\ token' = IF token = t THEN 0 ELSE token
              /\ conn' = conn /\ turns' = turns /\ client' = client /\ Current' = Current
<1>1. PICK t \in DOMAIN turns :
          /\ answers' = Append(answers, [turn |-> t, status |-> IF token = t THEN 200 ELSE 404,
                                         pc |-> IF t = Current THEN conn.pc ELSE "recv"])
          /\ signalled' = (signalled \/ token = t)
          /\ token' = IF token = t THEN 0 ELSE token
  BY DEF Cancel
<1> DEFINE answer == [turn |-> t, status |-> IF token = t THEN 200 ELSE 404,
                      pc |-> IF t = Current THEN conn.pc ELSE "recv"]
<1>2. answer \in AnAnswer
  <2>1. t \in Nat /\ conn.pc \in PCs /\ "recv" \in PCs
    BY CurrentIs DEF Typed, AConn, PCs
  <2> QED BY <2>1 DEF AnAnswer
<1>3. /\ answer.turn = t /\ answer.pc = (IF t = Current THEN conn.pc ELSE "recv")
      /\ answer.status = IF token = t THEN 200 ELSE 404
  OBVIOUS
<1>4. answers' = Append(answers, answer)
  BY <1>1
<1> HIDE DEF answer
<1>5. /\ Len(answers) \in Nat /\ DOMAIN answers' = 1..(Len(answers) + 1)
      /\ DOMAIN answers = 1..Len(answers)
      /\ answers'[Len(answers) + 1] = answer
      /\ \A k \in DOMAIN answers : answers'[k] = answers[k]
  <2>1. answers \in Seq(AnAnswer)
    BY DEF Typed
  <2> QED BY <1>2, <1>4, <2>1
<1>6. conn' = conn /\ turns' = turns /\ client' = client /\ Current' = Current
  BY DEF Cancel, Current
<1> QED BY <1>1, <1>2, <1>3, <1>4, <1>5, <1>6

LEMMA StoppedStays ==
    ASSUME Typed, FramesAreOwed, [Next]_vars
    PROVE  \A t : Stopped(t) => Stopped(t)'
<1>1. CASE Cancel
  <2>1. /\ \A k \in DOMAIN answers : answers'[k] = answers[k]
        /\ \A k \in DOMAIN answers : k \in DOMAIN answers'
    BY <1>1, CancelIs
  <2> QED BY <2>1 DEF Stopped
<1>2. CASE ~Cancel
  <2>1. Register => answers' = answers
    BY DEF Register
  <2>2. answers' = answers
    BY <1>2, <2>1, HeldStays
  <2> QED BY <2>2 DEF Stopped
<1> QED BY <1>1, <1>2

LEMMA TokenNext ==
    ASSUME Base, TokenInv, [Next]_vars
    PROVE  TokenInv'
<1> USE DEF Base
<1>1. CASE Register
  <2>1. token' = Current /\ Current' = Current /\ Current # 0 /\ answers' = answers
    BY <1>1 DEF Register, FramesAreOwed, Idle, Current
  <2> QED BY <2>1 DEF TokenInv, NotFoundMeansNotRelaying
<1>2. CASE Cancel
  <2>1. PICK t \in DOMAIN turns, answer \in AnAnswer :
              /\ answer.turn = t /\ answer.pc = (IF t = Current THEN conn.pc ELSE "recv")
              /\ answer.status = IF token = t THEN 200 ELSE 404
              /\ Len(answers) \in Nat /\ DOMAIN answers' = 1..(Len(answers) + 1)
              /\ DOMAIN answers = 1..Len(answers)
              /\ answers'[Len(answers) + 1] = answer
              /\ \A k \in DOMAIN answers : answers'[k] = answers[k]
              /\ token' = IF token = t THEN 0 ELSE token
              /\ conn' = conn /\ Current' = Current
    BY <1>2, CancelIs
  <2>2. token \in {0, Current} /\ Current \in Nat /\ t # 0
    BY CurrentIs DEF Typed
  <2>3. ASSUME conn'.pc \in Held, token' = 0 PROVE Stopped(Current)'
    <3>1. CASE token = 0
      <4>1. Stopped(Current)
        BY <2>1, <2>3, <3>1 DEF TokenInv
      <4> QED BY <2>1, <4>1 DEF Stopped
    <3>2. CASE token # 0
      <4>1. token = t /\ t = Current /\ answer.status = 200
        BY <2>1, <2>2, <2>3, <3>2
      <4> QED BY <2>1, <4>1 DEF Stopped
    <3> QED BY <3>1, <3>2
  <2>4. ASSUME NEW k \in DOMAIN answers', answers'[k].status = 404,
               answers'[k].pc \in {"select", "frames", "bad_frame"}
        PROVE  \E j \in 1..(k - 1) :
                   answers'[j].turn = answers'[k].turn /\ answers'[j].status = 200
    <3>1. CASE k \in DOMAIN answers
      <4>1. PICK j \in 1..(k - 1) : answers[j].turn = answers[k].turn /\ answers[j].status = 200
        BY <2>1, <2>4, <3>1 DEF TokenInv, NotFoundMeansNotRelaying
      <4> QED BY <2>1, <3>1, <4>1
    <3>2. CASE k = Len(answers) + 1
      <4>1. answer.status = 404 /\ answer.pc \in {"select", "frames", "bad_frame"}
        BY <2>1, <2>4, <3>2
      <4>2. token # t /\ t = Current /\ conn.pc \in Held
        BY <2>1, <4>1 DEF Held
      <4>3. Stopped(Current)
        BY <2>2, <4>2 DEF TokenInv
      <4> QED BY <2>1, <3>2, <4>2, <4>3 DEF Stopped
    <3> QED BY <2>1, <2>4, <3>1, <3>2
  <2>5. NotFoundMeansNotRelaying'
    BY <2>4 DEF NotFoundMeansNotRelaying
  <2>6. conn'.pc \in Held /\ token' = 0 => Stopped(Current)'
    BY <2>3
  <2> QED BY <2>5, <2>6 DEF TokenInv
<1>3. CASE ~Register /\ ~Cancel
  <2>1. NotFoundMeansNotRelaying'
    BY <1>3, HeldStays DEF TokenInv, NotFoundMeansNotRelaying
  <2>2. conn'.pc \in Held /\ token' = 0 => Stopped(Current)'
    BY <1>3, HeldStays DEF TokenInv, Stopped
  <2> QED BY <2>1, <2>2 DEF TokenInv
<1> QED BY <1>1, <1>2, <1>3

LEMMA SentStays ==
    ASSUME Typed, FramesAreOwed, [Next]_vars
    PROVE  \A x : Contains(client.sent, x) => Contains(client'.sent, x)
<1>t. client \in AClient /\ client.sent \in Seq(ClientFrame)
  BY DEF Typed, AClient
<1>1. CASE ClientSends
  <2>1. PICK frame \in ClientFrame : client' = [client EXCEPT !.sent = Append(client.sent, frame)]
    BY <1>1 DEF ClientSends
  <2>2. client'.sent = Append(client.sent, frame)
    BY <1>t, <2>1 DEF AClient
  <2> QED BY <1>t, <2>2 DEF Contains
<1>2. Send => client'.sent = client.sent
  BY SendIs
<1>3. Leave => client'.sent = client.sent
  BY <1>t DEF Leave, AClient
<1>4. /\ Recv \/ HangUp \/ SendFails \/ PrepareFails \/ Register \/ SelectCancel \/ SelectGone
         \/ SelectFrame \/ SelectChunk \/ SelectEnd \/ NextFrame => client' = client
      /\ Unregister \/ PutTools \/ Put \/ Cancel \/ UNCHANGED vars => client' = client
  BY DEF Recv, HangUp, SendFails, PrepareFails, Register, SelectCancel, SelectGone, SelectFrame,
         SelectChunk, SelectEnd, NextFrame, Unregister, PutTools, Put, Cancel, vars
<1> QED BY <1>1, <1>2, <1>3, <1>4 DEF Next, ConnStep

LEMMA NotStoredIsNone == NotStored \notin Seq(Nat)
<1> SUFFICES ASSUME NotStored \in Seq(Nat) PROVE FALSE
  OBVIOUS
<1>1. NotStored[1] = -1 /\ 1 \in DOMAIN NotStored
  BY DEF NotStored
<1>2. NotStored[1] \in Nat
  BY <1>1
<1> QED BY <1>1, <1>2

\* How a turn ends.
LEMMA TurnEndsBy ==
    ASSUME Base, CancelInv, [Next]_vars, conn'.pc \in Idle, conn.pc \notin Idle
    PROVE  \/ Put /\ OthersStay /\ This'.history \in Seq(Nat)
           \/ /\ turns' = turns /\ This.upstream = <<>>
           \/ /\ Unregister /\ turns' = turns
              /\ Contains(client.sent, "cancel") \/ Stopped(Current)
<1> USE DEF Base
<1>1. CASE Put
  <2>1. /\ OthersStay /\ This' = [This EXCEPT !.history = Answer(This)]
        /\ Answer(This) \in Seq(Nat)
    BY <1>1, PutIs
  <2>2. This \in ATurn
    BY <1>1, CurrentIs DEF FramesAreOwed
  <2> QED BY <1>1, <2>1, <2>2 DEF ATurn
<1>2. CASE Send
  <2>1. conn.pc \in {"reply", "give_up"} /\ turns' = turns
    BY <1>2, SendMoves, SendIs DEF Idle, Sending, Mode
  <2> QED BY <2>1 DEF FramesAreOwed
<1>3. CASE SendFails
  <2>1. conn.pc = "reply" /\ turns' = turns
    BY <1>3, ConnAfter DEF Idle, SendFails
  <2> QED BY <2>1 DEF FramesAreOwed
<1>4. CASE Unregister
  <2>1. conn.cancelled /\ turns' = turns
    BY <1>4, ConnAfter DEF Idle, Unregister
  <2> QED BY <1>4, <2>1 DEF CancelInv
<1>5. /\ PrepareFails \/ Register \/ SelectCancel \/ SelectGone
         \/ SelectFrame \/ SelectEnd \/ PutTools => conn'.pc \notin Idle
      /\ Recv \/ HangUp => conn.pc \in Idle
      /\ ClientSends \/ Leave \/ Cancel \/ UNCHANGED vars => conn'.pc = conn.pc
  <2>1. PrepareFails \/ Register \/ SelectCancel \/ SelectGone
         \/ SelectFrame \/ SelectEnd \/ PutTools => conn'.pc \notin Idle
    BY ConnAfter DEF Idle
  <2>2. Recv \/ HangUp => conn.pc \in Idle
    BY DEF Recv, HangUp, Idle
  <2>3. ClientSends \/ Leave \/ Cancel \/ UNCHANGED vars => conn'.pc = conn.pc
    BY DEF ClientSends, Leave, Cancel, vars
  <2> QED BY <2>1, <2>2, <2>3
<1>6. SelectChunk => conn'.pc \notin Idle
  BY ChunkIs DEF Idle
<1>7. NextFrame => conn'.pc \notin Idle
  <2>1. NextFrame /\ conn.frames = <<>> => conn'.pc \notin Idle
    BY DEF NextFrame, Idle, Typed, AConn
  <2>2. NextFrame /\ conn.frames # <<>> => conn'.pc \notin Idle
    BY FrameIs DEF Idle
  <2> QED BY <2>1, <2>2
<1> QED BY <1>1, <1>2, <1>3, <1>4, <1>5, <1>6, <1>7 DEF Next, ConnStep

LEMMA CancelNext ==
    ASSUME Base, TokenInv, CancelInv, [Next]_vars
    PROVE  CancelInv'
<1> USE DEF Base
<1> DEFINE Excused(t) == Contains(client.sent, "cancel") \/ Stopped(t)
<1>e. \A t : Excused(t) => Contains(client'.sent, "cancel") \/ Stopped(t)'
  BY SentStays, StoppedStays
<1>1. conn'.pc \in Held /\ signalled' => Stopped(Current)'
  <2> SUFFICES ASSUME conn'.pc \in Held, signalled' PROVE Stopped(Current)'
    OBVIOUS
  <2>1. CASE Register
    BY <2>1 DEF Register
  <2>2. CASE Cancel
    <3>1. PICK t \in DOMAIN turns, answer \in AnAnswer :
              /\ answer.turn = t
              /\ answer.status = IF token = t THEN 200 ELSE 404
              /\ Len(answers) \in Nat /\ DOMAIN answers' = 1..(Len(answers) + 1)
              /\ DOMAIN answers = 1..Len(answers)
              /\ answers'[Len(answers) + 1] = answer
              /\ \A k \in DOMAIN answers : answers'[k] = answers[k]
              /\ signalled' = (signalled \/ token = t)
              /\ conn' = conn /\ Current' = Current
      BY ZenonT(60), <2>2, CancelIs
    <3>2. CASE signalled
      <4>1. Stopped(Current)
        BY <2>2, <3>1, <3>2 DEF CancelInv
      <4> QED BY <3>1, <4>1 DEF Stopped
    <3>3. CASE ~signalled
      <4>1. token = t /\ t = Current /\ answer.status = 200
        BY <3>1, <3>3, CurrentIs DEF Typed
      <4> QED BY <3>1, <4>1 DEF Stopped
    <3> QED BY <3>2, <3>3
  <2>3. CASE ~Register /\ ~Cancel
    <3>1. /\ answers' = answers /\ Current' = Current /\ conn.pc \in Held
          /\ signalled' = signalled
      BY <2>3, HeldStays
    <3>2. Stopped(Current)
      BY <3>1 DEF CancelInv
    <3> QED BY <3>1, <3>2 DEF Stopped
  <2> QED BY <2>1, <2>2, <2>3
<1>2. conn'.cancelled => /\ conn'.pc = "unregister"
                         /\ Contains(client'.sent, "cancel") \/ Stopped(Current)'
  <2> SUFFICES ASSUME conn'.cancelled
               PROVE  /\ conn'.pc = "unregister"
                      /\ Contains(client'.sent, "cancel") \/ Stopped(Current)'
    OBVIOUS
  <2>1. CASE SelectCancel
    <3>1. /\ conn'.pc = "unregister" /\ conn.pc = "select" /\ signalled /\ Current' = Current
          /\ answers' = answers
      BY <2>1, ConnAfter DEF SelectCancel, Current
    <3>2. Stopped(Current)
      BY <3>1 DEF CancelInv, Held
    <3> QED BY <3>1, <3>2 DEF Stopped
  <2>2. CASE SelectFrame
    <3>1. conn'.pc = "unregister" /\ Head(inbox) = "cancel" /\ inbox # <<>> /\ client' = client
      BY <2>2, ConnAfter DEF SelectFrame
    <3>2. 1 \in DOMAIN inbox /\ inbox[1] = Head(inbox)
      <4>1. inbox \in Seq(ClientFrame)
        BY DEF Typed
      <4> QED BY <3>1, <4>1, HeadTail
    <3> QED BY <3>1, <3>2 DEF InboxIsSent
  <2>3. CASE conn'.cancelled = conn.cancelled /\ conn'.pc = conn.pc /\ Current' = Current
    <3>1. conn'.pc = "unregister" /\ Excused(Current)
      BY <2>3 DEF CancelInv
    <3>2. CASE Contains(client.sent, "cancel")
      BY <3>1, <3>2, SentStays
    <3>3. CASE Stopped(Current)
      <4>1. Stopped(Current)'
        <5> DEFINE c == Current
        <5>1. c' = c /\ Stopped(c)
          BY <2>3, <3>3
        <5>2. answers' = answers \/ Cancel
          BY HeldStays DEF Register
        <5>3. Cancel => \A k \in DOMAIN answers : k \in DOMAIN answers' /\ answers'[k] = answers[k]
          BY CancelIs
        <5> QED BY <2>3, <3>3, <5>2, <5>3 DEF Stopped
      <4> QED BY <3>1, <4>1
    <3> QED BY <3>1, <3>2, <3>3
  <2>4. CASE conn'.cancelled = conn.cancelled /\ conn.pc # "unregister"
    BY <2>4 DEF CancelInv
  <2>5. /\ Recv => conn.pc # "unregister" /\ conn'.cancelled = conn.cancelled
        /\ Send => conn.pc # "unregister" /\ conn'.cancelled = conn.cancelled
        /\ HangUp => conn.pc # "unregister" /\ conn'.cancelled = conn.cancelled
        /\ SendFails => conn.pc # "unregister" /\ conn'.cancelled = conn.cancelled
        /\ PrepareFails => conn.pc # "unregister" /\ conn'.cancelled = conn.cancelled
        /\ Register => conn.pc # "unregister" /\ conn'.cancelled = conn.cancelled
        /\ SelectGone \/ SelectEnd => conn.pc # "unregister" /\ conn'.cancelled = conn.cancelled
        /\ SelectChunk => conn.pc # "unregister" /\ conn'.cancelled = conn.cancelled
        /\ NextFrame => conn.pc # "unregister" /\ conn'.cancelled = conn.cancelled
        /\ PutTools => conn.pc # "unregister" /\ conn'.cancelled = conn.cancelled
        /\ Put => conn.pc # "unregister" /\ conn'.cancelled = conn.cancelled
    <3>1. Recv => conn.pc # "unregister" /\ conn'.cancelled = conn.cancelled
      BY RecvIs DEF Recv
    <3>2. Send => conn.pc # "unregister" /\ conn'.cancelled = conn.cancelled
      BY SendIs DEF Sending
    <3>3. /\ HangUp => conn.pc # "unregister" /\ conn'.cancelled = conn.cancelled
          /\ SendFails => conn.pc # "unregister" /\ conn'.cancelled = conn.cancelled
          /\ PrepareFails => conn.pc # "unregister" /\ conn'.cancelled = conn.cancelled
          /\ Register => conn.pc # "unregister" /\ conn'.cancelled = conn.cancelled
          /\ SelectGone \/ SelectEnd => conn.pc # "unregister" /\ conn'.cancelled = conn.cancelled
          /\ PutTools => conn.pc # "unregister" /\ conn'.cancelled = conn.cancelled
          /\ Put => conn.pc # "unregister" /\ conn'.cancelled = conn.cancelled
      BY ZenonT(60), ConnAfter DEF HangUp, PrepareFails, Register, SelectGone, SelectEnd, PutTools, Put
    <3>4. SelectChunk => conn.pc # "unregister" /\ conn'.cancelled = conn.cancelled
      BY ChunkIs DEF SelectChunk
    <3>5. NextFrame => conn.pc # "unregister" /\ conn'.cancelled = conn.cancelled
      <4>1. NextFrame => conn.pc # "unregister"
        BY DEF NextFrame
      <4>2. NextFrame /\ conn.frames = <<>> => conn'.cancelled = conn.cancelled
        BY DEF NextFrame, Typed, AConn
      <4>3. NextFrame /\ conn.frames # <<>> => conn'.cancelled = conn.cancelled
        BY FrameIs
      <4> QED BY <4>1, <4>2, <4>3
    <3> QED BY <3>1, <3>2, <3>3, <3>4, <3>5
  <2>6. Unregister => ~conn'.cancelled
    BY ConnAfter
  <2>7. ClientSends \/ Leave \/ Cancel \/ UNCHANGED vars =>
            conn'.cancelled = conn.cancelled /\ conn'.pc = conn.pc /\ Current' = Current
    BY DEF ClientSends, Leave, Cancel, vars, Current
  <2> QED BY <2>1, <2>2, <2>3, <2>4, <2>5, <2>6, <2>7 DEF Next, ConnStep
<1>3. KeptUnlessCancelled'
  <2> SUFFICES ASSUME NEW t \in DOMAIN turns', t < Current' \/ conn'.pc \in Idle,
                      turns'[t].upstream # <<>>, turns'[t].history = NotStored
               PROVE  Contains(client'.sent, "cancel") \/ Stopped(t)'
    BY DEF KeptUnlessCancelled, Idle, Stopped
  <2>1. CASE t \in DOMAIN turns /\ turns'[t] = turns[t] /\ (t < Current \/ conn.pc \in Idle)
    <3>1. Excused(t)
      BY <2>1 DEF CancelInv, KeptUnlessCancelled, Idle, Stopped
    <3> QED BY <1>e, <3>1
  <2>2. CASE Current' = Current + 1
    <3>1. /\ conn.pc = "recv" /\ conn'.pc = "reply" /\ DOMAIN turns' = 1..(Current + 1)
          /\ \A u \in DOMAIN turns : turns'[u] = turns[u]
      BY <2>2, TurnsMove, CurrentIs DEF OthersStay
    <3>2. t \in DOMAIN turns
      BY <2>2, <3>1, CurrentIs DEF Idle
    <3> QED BY <2>1, <3>1, <3>2 DEF Idle
  <2>3. CASE Current' # Current + 1
    <3>1. /\ Current' = Current /\ DOMAIN turns' = DOMAIN turns
          /\ \A u \in DOMAIN turns : u # Current \/ conn.pc \in Idle => turns'[u] = turns[u]
      BY <2>3, TurnsMove DEF OthersStay
    <3>2. CASE t # Current \/ conn.pc \in Idle
      <4>1. t < Current \/ conn.pc \in Idle
        BY <3>1, <3>2, CurrentIs
      <4> QED BY <2>1, <3>1, <3>2, <4>1
    <3>3. CASE t = Current /\ conn.pc \notin Idle
      <4>1. conn'.pc \in Idle
        BY <3>1, <3>3, CurrentIs
      <4>2. turns'[t] = This'
        BY <3>1, <3>3 DEF This
      <4>3. ~ Put
        BY <3>3, <4>1, <4>2, PutIs, NotStoredIsNone, CurrentIs DEF FramesAreOwed, ATurn
      <4>4. turns' = turns /\ turns[t] = This
        BY <3>3, <4>1, <4>3, TurnEndsBy DEF This
      <4>5. Excused(t)
        BY <3>3, <4>1, <4>3, <4>4, TurnEndsBy
      <4> QED BY <1>e, <4>5
    <3> QED BY <3>2, <3>3
  <2> QED BY <2>2, <2>3
<1> QED BY <1>1, <1>2, <1>3 DEF CancelInv

-----------------------------------------------------------------------------
(* What the client has seen                                                *)

LEMMA AppendIs ==
    ASSUME NEW S, NEW s \in Seq(S), NEW e \in S
    PROVE  /\ Append(s, e) \in Seq(S) /\ Len(s) \in Nat /\ DOMAIN s = 1..Len(s)
           /\ Len(Append(s, e)) = Len(s) + 1 /\ DOMAIN Append(s, e) = 1..(Len(s) + 1)
           /\ Append(s, e)[Len(s) + 1] = e /\ \A k \in 1..Len(s) : Append(s, e)[k] = s[k]
OBVIOUS

LEMMA SameSequence ==
    ASSUME NEW S, NEW s \in Seq(S), NEW r \in Seq(S), Len(s) = Len(r),
           \A k \in 1..Len(s) : s[k] = r[k]
    PROVE  s = r
OBVIOUS

Pieces(seen, t) == [k \in DOMAIN seen |-> IF seen[k].turn = t THEN <<seen[k].event>> ELSE <<>>]

LEMMA SeenIs == \A t : Seen(t) = FlattenSeq(Pieces(client.seen, t))
BY DEF Seen, Pieces

LEMMA PiecesType ==
    ASSUME NEW seen \in Seq(ASeen), NEW t
    PROVE  Pieces(seen, t) \in Seq(Seq(Ev))
<1>1. \A k \in DOMAIN seen : seen[k].event \in Ev
  <2>1. \A k \in DOMAIN seen : seen[k] \in ASeen
    OBVIOUS
  <2> QED BY <2>1 DEF ASeen
<1>2. \A e \in Ev : <<e>> \in Seq(Ev)
  OBVIOUS
<1>3. <<>> \in Seq(Ev)
  OBVIOUS
<1>4. \A k \in DOMAIN seen : (IF seen[k].turn = t THEN <<seen[k].event>> ELSE <<>>) \in Seq(Ev)
  BY <1>1, <1>2, <1>3
<1>5. DOMAIN seen = 1..Len(seen) /\ Len(seen) \in Nat
  OBVIOUS
<1> QED BY <1>4, <1>5 DEF Pieces

LEMMA SeenType ==
    ASSUME Typed
    PROVE  \A t : Seen(t) \in Seq(Ev)
<1>1. client.seen \in Seq(ASeen)
  BY DEF Typed, AClient
<1> SUFFICES ASSUME NEW t PROVE Seen(t) \in Seq(Ev)
  OBVIOUS
<1>2. Pieces(client.seen, t) \in Seq(Seq(Ev))
  BY <1>1, PiecesType
<1> QED BY <1>2, FlattenType, SeenIs

LEMMA PiecesAppend ==
    ASSUME NEW seen \in Seq(ASeen), NEW c \in Nat, NEW e \in Ev, NEW t
    PROVE  FlattenSeq(Pieces(Append(seen, [turn |-> c, event |-> e]), t))
             = IF t = c THEN Append(FlattenSeq(Pieces(seen, t)), e)
                        ELSE FlattenSeq(Pieces(seen, t))
<1> DEFINE item == [turn |-> c, event |-> e]
           piece == IF c = t THEN <<e>> ELSE <<>>
<1>1. item \in ASeen /\ item.turn = c /\ item.event = e
  BY DEF ASeen
<1>2. piece \in Seq(Ev)
  OBVIOUS
<1>3. Pieces(Append(seen, item), t) = Append(Pieces(seen, t), piece)
  <2> HIDE DEF item
  <2>1. /\ DOMAIN seen = 1..Len(seen) /\ Len(seen) \in Nat
        /\ Append(seen, item) \in Seq(ASeen)
        /\ DOMAIN Append(seen, item) = 1..(Len(seen) + 1)
        /\ Append(seen, item)[Len(seen) + 1] = item
        /\ \A k \in 1..Len(seen) : Append(seen, item)[k] = seen[k]
    BY <1>1, AppendIs
  <2> DEFINE before == Pieces(seen, t)
             after == Pieces(Append(seen, item), t)
  <2>2. before \in Seq(Seq(Ev)) /\ after \in Seq(Seq(Ev))
    BY <2>1, PiecesType
  <2>3. /\ DOMAIN before = 1..Len(seen)
        /\ DOMAIN after = 1..(Len(seen) + 1)
        /\ \A k \in 1..Len(seen) : before[k] = after[k]
    BY <2>1 DEF Pieces
  <2>4. after[Len(seen) + 1] = piece
    <3>1. Len(seen) + 1 \in DOMAIN Append(seen, item)
      BY <2>1
    <3> QED BY <1>1, <2>1, <3>1 DEF Pieces
  <2> HIDE DEF before, after, piece
  <2>5. Len(before) = Len(seen) /\ Len(after) = Len(seen) + 1
    BY <2>1, <2>2, <2>3
  <2>6. /\ Append(before, piece) \in Seq(Seq(Ev)) /\ Len(Append(before, piece)) = Len(before) + 1
        /\ Append(before, piece)[Len(before) + 1] = piece
        /\ \A k \in 1..Len(before) : Append(before, piece)[k] = before[k]
    BY <1>2, <2>2, AppendIs
  <2>7. \A k \in 1..Len(after) : after[k] = Append(before, piece)[k]
    BY <2>1, <2>3, <2>4, <2>5, <2>6
  <2>8. after = Append(before, piece)
    BY <2>2, <2>5, <2>6, <2>7, SameSequence
  <2> QED BY <2>8 DEF before, after
<1>4. FlattenSeq(Append(Pieces(seen, t), piece)) = FlattenSeq(Pieces(seen, t)) \o piece
  <2> HIDE DEF piece
  <2> QED BY <1>2, PiecesType, FlattenAppend
<1>5. FlattenSeq(Pieces(seen, t)) \in Seq(Ev)
  BY PiecesType, FlattenType
<1>6. \A flat \in Seq(Ev) : flat \o <<e>> = Append(flat, e) /\ flat \o <<>> = flat
  OBVIOUS
<1> QED BY <1>3, <1>4, <1>5, <1>6

\* The client sees more only when the task sends.
LEMMA SeenMoves ==
    ASSUME Base, [Next]_vars
    PROVE  \/ client'.seen = client.seen /\ \A t : Seen(t)' = Seen(t)
           \/ /\ Send /\ client.connected /\ Head(conn.out) \in Ev /\ Current \in Nat
              /\ client'.seen = Append(client.seen, [turn |-> Current, event |-> Head(conn.out)])
              /\ \A t : Seen(t)' = IF t = Current THEN Append(Seen(t), Head(conn.out)) ELSE Seen(t)
<1> USE DEF Base
<1>t. client.seen \in Seq(ASeen) /\ client \in AClient
  BY DEF Typed, AClient
<1>1. client'.seen = client.seen => \A t : Seen(t)' = Seen(t)
  BY DEF Seen
<1>2. CASE Send /\ client.connected
  <2>1. Head(conn.out) \in Ev /\ Current \in Nat
    BY <1>2, SendIs, CurrentIs
  <2>2. client'.seen = Append(client.seen, [turn |-> Current, event |-> Head(conn.out)])
    BY <1>2, SendIs
  <2>3. ASSUME NEW t
        PROVE  Seen(t)' = IF t = Current THEN Append(Seen(t), Head(conn.out)) ELSE Seen(t)
    <3>1. Seen(t)' = FlattenSeq(Pieces(client'.seen, t))
      BY DEF Seen, Pieces
    <3> DEFINE e == Head(conn.out)
               seen == client.seen
    <3>2. client'.seen = Append(seen, [turn |-> Current, event |-> e])
      BY <2>2
    <3>3. e \in Ev /\ seen \in Seq(ASeen) /\ Current \in Nat
      BY <1>t, <2>1
    <3> HIDE DEF e, seen
    <3>4. FlattenSeq(Pieces(Append(seen, [turn |-> Current, event |-> e]), t))
             = IF t = Current THEN Append(FlattenSeq(Pieces(seen, t)), e)
                              ELSE FlattenSeq(Pieces(seen, t))
      BY <3>3, PiecesAppend
    <3> QED BY <3>1, <3>2, <3>4, SeenIs DEF e, seen
  <2> QED BY <1>2, <2>1, <2>2, <2>3
<1>3. CASE Send /\ ~client.connected
  BY <1>1, <1>3, SendIs
<1>4. ClientSends \/ Leave => client'.seen = client.seen
  BY <1>t DEF ClientSends, Leave, AClient
<1>5. /\ Recv \/ HangUp \/ SendFails \/ PrepareFails \/ Register \/ SelectCancel \/ SelectGone
         \/ SelectFrame \/ SelectChunk \/ SelectEnd \/ NextFrame => client' = client
      /\ Unregister \/ PutTools \/ Put \/ Cancel \/ UNCHANGED vars => client' = client
  BY DEF Recv, HangUp, SendFails, PrepareFails, Register, SelectCancel, SelectGone, SelectFrame,
         SelectChunk, SelectEnd, NextFrame, Unregister, PutTools, Put, Cancel, vars
<1> QED BY <1>1, <1>2, <1>3, <1>4, <1>5 DEF Next, ConnStep

\* The events of a turn come after those of the turns before, and those of the
\* current turn last.
InTurn ==
    /\ \A k \in DOMAIN client.seen : client.seen[k].turn <= Current
    /\ \A j, k \in DOMAIN client.seen : j < k => client.seen[j].turn <= client.seen[k].turn
    /\ \A t \in Nat : t > Current => Seen(t) = <<>>

LEMMA InTurnInit == Init => InTurn
<1> SUFFICES ASSUME Init PROVE InTurn
  OBVIOUS
<1>1. client.seen = <<>> /\ DOMAIN <<>> = {}
  BY DEF Init
<1>2. ASSUME NEW t PROVE Seen(t) = <<>>
  <2>1. Pieces(<<>>, t) = <<>>
    BY DEF Pieces
  <2> QED BY <1>1, <2>1, FlattenEmpty, SeenIs
<1> QED BY <1>1, <1>2 DEF InTurn

LEMMA InTurnNext ==
    ASSUME Base, InTurn, [Next]_vars
    PROVE  InTurn'
<1> USE DEF Base
<1>1. Current' \in Nat /\ Current \in Nat /\ Current' >= Current
  BY TurnsMove, CurrentIs DEF OthersStay
<1>2. CASE client'.seen = client.seen /\ \A t : Seen(t)' = Seen(t)
  <2>1. \A k \in DOMAIN client.seen : client.seen[k].turn \in Nat
    <3>1. client.seen \in Seq(ASeen)
      BY DEF Typed, AClient
    <3>2. \A k \in DOMAIN client.seen : client.seen[k] \in ASeen
      BY <3>1
    <3> QED BY <3>2 DEF ASeen
  <2> QED BY <1>1, <1>2, <2>1 DEF InTurn
<1>3. CASE /\ Send /\ Head(conn.out) \in Ev
           /\ client'.seen = Append(client.seen, [turn |-> Current, event |-> Head(conn.out)])
           /\ \A t : Seen(t)' = IF t = Current THEN Append(Seen(t), Head(conn.out)) ELSE Seen(t)
  <2>1. Current' = Current
    BY <1>3 DEF Send, Current
  <2>2. client.seen \in Seq(ASeen)
    BY DEF Typed, AClient
  <2> DEFINE item == [turn |-> Current, event |-> Head(conn.out)]
  <2>3. item \in ASeen /\ item.turn = Current
    BY <1>1, <1>3 DEF ASeen
  <2>4. client'.seen = Append(client.seen, item)
    BY <1>3
  <2> HIDE DEF item
  <2>5. /\ Len(client.seen) \in Nat /\ DOMAIN client.seen = 1..Len(client.seen)
        /\ DOMAIN client'.seen = 1..(Len(client.seen) + 1)
        /\ client'.seen[Len(client.seen) + 1] = item
        /\ \A k \in DOMAIN client.seen : client'.seen[k] = client.seen[k]
    BY <2>2, <2>3, <2>4
  <2>6. \A k \in DOMAIN client'.seen : client'.seen[k].turn <= Current
    BY <1>1, <2>3, <2>5 DEF InTurn
  <2>7. \A j, k \in DOMAIN client'.seen : j < k => client'.seen[j].turn <= client'.seen[k].turn
    <3> SUFFICES ASSUME NEW j \in DOMAIN client'.seen, NEW k \in DOMAIN client'.seen, j < k
                 PROVE  client'.seen[j].turn <= client'.seen[k].turn
      OBVIOUS
    <3>1. j \in DOMAIN client.seen
      BY <2>5
    <3>2. CASE k \in DOMAIN client.seen
      BY <2>5, <3>1, <3>2 DEF InTurn
    <3>3. CASE k = Len(client.seen) + 1
      BY <2>3, <2>5, <2>6, <3>3
    <3> QED BY <2>5, <3>2, <3>3
  <2>8. \A t \in Nat : t > Current => Seen(t)' = <<>>
    BY <1>1, <1>3 DEF InTurn
  <2> QED BY <2>1, <2>6, <2>7, <2>8 DEF InTurn
<1> QED BY <1>2, <1>3, SeenMoves

-----------------------------------------------------------------------------
(* What is persisted                                                       *)

\* The answer holds what this event shows of it.
Holds(turn, event) ==
    event.type \in {"added", "delta", "item"} =>
        \/ turn.mode = "stream" /\ Contains(turn.processed, event.n)
        \/ turn.mode \in {"buffered", "compaction"} /\ event.n = 1

HoldsAll(turn, events) == \A k \in DOMAIN events : Holds(turn, events[k])

\* All that a client gets of a turn is in its answer, which is what is stored, when
\* the turn is over.
HistoryInv ==
    /\ conn.pc \in Sending => HoldsAll(This, conn.out)
    /\ \A t \in DOMAIN turns : HoldsAll(turns[t], Seen(t))
    /\ \A t \in DOMAIN turns :
          turns[t].history # NotStored =>
              /\ t < Current \/ conn.pc \in Idle
              /\ turns[t].mode # "reject" /\ (turns[t].tools \/ turns[t].mode = "compaction")
              /\ turns[t].history = Answer(turns[t])

LEMMA HoldsReply == \A mode \in Mode : HoldsAll(Turn(mode), Reply(mode))
<1> SUFFICES ASSUME NEW mode \in Mode PROVE HoldsAll(Turn(mode), Reply(mode))
  OBVIOUS
<1>0. Turn(mode).mode = mode
  BY DEF Turn
<1>1. CASE mode = "reject"
  BY <1>1 DEF HoldsAll, Holds, Reply, Error, FrameEvent
<1>2. CASE mode = "echo"
  <2>1. Reply(mode) = Append(FirstEvents, FrameEvent(0, "completed"))
    BY <1>2 DEF Reply
  <2> QED BY <2>1 DEF HoldsAll, Holds, FirstEvents, FrameEvent
<1>3. CASE mode = "buffered"
  <2>1. Reply(mode) = FirstEvents \o <<FrameEvent(1, "added"), FrameEvent(1, "delta")>> \o <<FrameEvent(2, "completed")>>
    BY <1>3 DEF Reply, EventsOf
  <2> QED BY <1>0, <1>3, <2>1 DEF HoldsAll, Holds, FirstEvents, FrameEvent
<1>4. CASE mode = "compaction"
  <2>1. Reply(mode) = FirstEvents \o <<FrameEvent(1, "item"), FrameEvent(1, "completed")>>
    BY <1>4 DEF Reply
  <2> QED BY <1>0, <1>4, <2>1 DEF HoldsAll, Holds, FirstEvents, FrameEvent
<1>5. CASE mode = "stream"
  BY <1>5 DEF HoldsAll, Holds, Reply, FirstEvents, FrameEvent
<1> QED BY <1>1, <1>2, <1>3, <1>4, <1>5 DEF Mode

LEMMA HoldsEvents ==
    ASSUME NEW turn, turn.mode = "stream", NEW frame \in Frame, NEW n \in Nat,
           frame = "data" => Contains(turn.processed, n)
    PROVE  HoldsAll(turn, EventsOf(frame, n))
<1>1. CASE frame = "data"
  <2>1. EventsOf(frame, n) = <<FrameEvent(n, "added"), FrameEvent(n, "delta")>>
    BY <1>1 DEF EventsOf
  <2> QED BY <1>1, <2>1 DEF HoldsAll, Holds, FrameEvent
<1>2. CASE frame = "skip"
  BY <1>2 DEF HoldsAll, EventsOf
<1>3. CASE frame = "bad"
  BY <1>3 DEF HoldsAll, Holds, EventsOf, FrameEvent
<1>4. CASE frame = "done"
  BY <1>4 DEF HoldsAll, Holds, EventsOf, FrameEvent
<1> QED BY <1>1, <1>2, <1>3, <1>4 DEF Frame

LEMMA HoldsMore ==
    ASSUME NEW turn, NEW later, later.mode = turn.mode,
           \A n : Contains(turn.processed, n) => Contains(later.processed, n)
    PROVE  \A events : HoldsAll(turn, events) => HoldsAll(later, events)
BY Zenon DEF HoldsAll, Holds

LEMMA HoldsSplit ==
    ASSUME NEW turn, NEW events \in Seq(Ev)
    PROVE  /\ \A e \in Ev : HoldsAll(turn, events) /\ Holds(turn, e)
                                => HoldsAll(turn, Append(events, e))
           /\ HoldsAll(turn, events) /\ events # <<>>
                => Holds(turn, Head(events)) /\ HoldsAll(turn, Tail(events))
<1>1. ASSUME NEW e \in Ev, HoldsAll(turn, events), Holds(turn, e)
      PROVE  HoldsAll(turn, Append(events, e))
  <2>1. /\ DOMAIN Append(events, e) = 1..(Len(events) + 1) /\ DOMAIN events = 1..Len(events)
        /\ Len(events) \in Nat /\ Append(events, e)[Len(events) + 1] = e
        /\ \A k \in 1..Len(events) : Append(events, e)[k] = events[k]
    BY AppendIs
  <2> SUFFICES ASSUME NEW k \in 1..(Len(events) + 1) PROVE Holds(turn, Append(events, e)[k])
    BY <2>1 DEF HoldsAll
  <2>2. CASE k = Len(events) + 1
    BY <1>1, <2>1, <2>2
  <2>3. CASE k # Len(events) + 1
    BY <1>1, <2>1, <2>3 DEF HoldsAll
  <2> QED BY <2>2, <2>3
<1>2. ASSUME HoldsAll(turn, events), events # <<>>
      PROVE  Holds(turn, Head(events)) /\ HoldsAll(turn, Tail(events))
  <2>1. /\ Head(events) = events[1] /\ Len(events) \in Nat /\ Len(events) >= 1
        /\ Tail(events) \in Seq(Ev) /\ Len(Tail(events)) = Len(events) - 1
        /\ \A k \in 1..(Len(events) - 1) : Tail(events)[k] = events[k + 1]
    BY <1>2, HeadTail
  <2>2. DOMAIN events = 1..Len(events) /\ DOMAIN Tail(events) = 1..(Len(events) - 1)
    BY <2>1
  <2> QED BY <1>2, <2>1, <2>2 DEF HoldsAll
<1> QED BY <1>1, <1>2

\* A turn keeps its mode and what it has processed.
LEMMA TurnGrows ==
    ASSUME Base, [Next]_vars
    PROVE  \A t \in DOMAIN turns :
              /\ t \in DOMAIN turns' /\ turns'[t].mode = turns[t].mode
              /\ \A n : Contains(turns[t].processed, n) => Contains(turns'[t].processed, n)
              /\ ~Put => turns'[t].history = turns[t].history
<1> USE DEF Base
<1>o. ASSUME OthersStay, This'.mode = This.mode,
             \A n : Contains(This.processed, n) => Contains(This'.processed, n),
             ~Put => This'.history = This.history
      PROVE  \A t \in DOMAIN turns :
                /\ t \in DOMAIN turns' /\ turns'[t].mode = turns[t].mode
                /\ \A n : Contains(turns[t].processed, n) => Contains(turns'[t].processed, n)
                /\ ~Put => turns'[t].history = turns[t].history
  <2> SUFFICES ASSUME NEW t \in DOMAIN turns
               PROVE  /\ t \in DOMAIN turns' /\ turns'[t].mode = turns[t].mode
                      /\ \A n : Contains(turns[t].processed, n) => Contains(turns'[t].processed, n)
                      /\ ~Put => turns'[t].history = turns[t].history
    OBVIOUS
  <2>1. t \in DOMAIN turns' /\ (t # Current => turns'[t] = turns[t])
    BY <1>o DEF OthersStay
  <2>2. t = Current => turns'[t] = This' /\ turns[t] = This
    BY <1>o DEF OthersStay, This
  <2> QED BY <1>o, <2>1, <2>2
<1>1. CASE /\ \A t \in DOMAIN turns : turns'[t] = turns[t]
           /\ \A t \in DOMAIN turns : t \in DOMAIN turns'
  BY <1>1
<1>2. CASE OthersStay /\ conn.pc \notin Idle /\ (SelectChunk \/ NextFrame \/ PutTools \/ Put)
  <2>1. This \in ATurn
    BY <1>2, CurrentIs DEF FramesAreOwed
  <2>2. CASE SelectChunk
    <3>1. PICK chunk \in Seq(Frame) : This' = [This EXCEPT !.upstream = This.upstream \o chunk]
      BY <2>2, ChunkIs
    <3>2. This'.mode = This.mode /\ This'.processed = This.processed
          /\ This'.history = This.history
      BY <2>1, <3>1 DEF ATurn
    <3> QED BY <1>o, <1>2, <3>2
  <2>3. CASE PutTools
    <3>1. This'.mode = This.mode /\ This'.processed = This.processed
          /\ This'.history = This.history
      BY <2>1, <2>3, PutToolsIs DEF ATurn
    <3> QED BY <1>o, <1>2, <3>1
  <2>4. CASE Put
    <3>1. This'.mode = This.mode /\ This'.processed = This.processed
      BY <2>1, <2>4, PutIs DEF ATurn
    <3> QED BY <1>o, <1>2, <2>4, <3>1
  <2>5. CASE NextFrame /\ conn.frames = <<>>
    <3>1. turns' = turns
      BY <2>5 DEF NextFrame
    <3> QED BY <3>1
  <2>6. CASE NextFrame /\ conn.frames # <<>>
    <3> DEFINE next == Handled + 1
               more == Append(This.processed, next)
    <3>1. /\ Handled \in Nat
          /\ \/ This' = [This EXCEPT !.processed = more]
             \/ This' = [This EXCEPT !.processed = This.processed]
      BY <2>6, FrameIs
    <3>2. \A n : Contains(This.processed, n) => Contains(more, n)
      <4>1. This.processed \in Seq(Nat) /\ next \in Nat
        BY <2>1, <3>1 DEF ATurn
      <4> HIDE DEF next
      <4> QED BY <4>1, ContainsAppend
    <3> HIDE DEF more
    <3>3. /\ This'.mode = This.mode /\ This'.history = This.history
          /\ This'.processed = more \/ This'.processed = This.processed
      BY <2>1, <3>1 DEF ATurn
    <3> QED BY <1>o, <1>2, <3>2, <3>3
  <2> QED BY <1>2, <2>2, <2>3, <2>4, <2>5, <2>6
<1>3. \A t \in DOMAIN turns : Current' = Current + 1 /\ DOMAIN turns' = 1..(Current + 1) => t \in DOMAIN turns'
  BY CurrentIs
<1> QED BY <1>1, <1>2, <1>3, TurnsMove

\* What the task has to send is in its turn's answer.
LEMMA OutHolds ==
    ASSUME Base, HistoryInv, [Next]_vars, conn'.pc \in Sending
    PROVE  HoldsAll(This', conn'.out)
<1> USE DEF Base
<1>n. \A turn : HoldsAll(turn, <<>>)
  BY DEF HoldsAll
<1>1. CASE conn' = conn /\ turns' = turns
  BY <1>1 DEF HistoryInv, This, Current
<1>2. CASE Recv
  <2>1. CASE UNCHANGED <<turns, conn>>
    BY <1>1, <2>1
  <2>2. ASSUME NEW mode \in Mode, This' = Turn(mode), conn'.out = Reply(mode)
        PROVE  HoldsAll(This', conn'.out)
    BY <2>2, HoldsReply
  <2> QED BY <1>2, <2>1, <2>2, RecvIs
<1>3. CASE Send
  <2>1. /\ conn'.out = Tail(conn.out) /\ This' = This /\ conn.out # <<>>
        /\ conn.pc \in Sending /\ conn.out \in Seq(Ev)
    BY <1>3, SendIs, SendMoves DEF Typed, AConn
  <2>2. HoldsAll(This, conn.out)
    BY <2>1 DEF HistoryInv
  <2> QED BY <2>1, <2>2, HoldsSplit
<1>4. CASE SendFails
  BY <1>n, <1>4, ConnAfter
<1>5. CASE PrepareFails
  <2>1. conn'.out = <<Error>>
    BY <1>5, ConnAfter
  <2> QED BY <2>1 DEF HoldsAll, Holds, Error, FrameEvent
<1>6. CASE NextFrame /\ conn.frames = <<>>
  BY <1>6 DEF NextFrame, Sending, Typed, AConn
<1>7. CASE NextFrame /\ conn.frames # <<>>
  <2> DEFINE next == Handled + 1
             frame == This.upstream[next]
  <2>1. /\ Handled \in Nat /\ frame \in Frame /\ conn'.out = EventsOf(frame, next)
        /\ This' = [This EXCEPT !.processed = IF frame = "data"
                                              THEN Append(This.processed, next)
                                              ELSE This.processed]
    BY <1>7, FrameIs
  <2>2. This \in ATurn /\ This.mode = "stream"
    BY <1>7, CurrentIs DEF NextFrame, FramesAreOwed, Idle, Relaying
  <2>3. next \in Nat /\ This.processed \in Seq(Nat)
    BY <2>1, <2>2 DEF ATurn
  <2> HIDE DEF next, frame
  <2>4. /\ This'.mode = "stream"
        /\ frame = "data" => This'.processed = Append(This.processed, next)
    BY <2>1, <2>2 DEF ATurn
  <2>5. frame = "data" => Contains(This'.processed, next)
    BY ZenonT(60), <2>3, <2>4, ContainsAppend
  <2>6. \A turn : turn.mode = "stream" /\ (frame = "data" => Contains(turn.processed, next))
                    => HoldsAll(turn, EventsOf(frame, next))
    BY <2>1, <2>3, HoldsEvents
  <2> QED BY <2>1, <2>4, <2>5, <2>6
<1>8. CASE SelectChunk
  BY <1>n, <1>8, ChunkIs DEF SelectChunk, FramesAreOwed, Sending
<1>9. HangUp \/ Register \/ SelectCancel \/ SelectFrame \/ SelectGone \/ SelectEnd
        \/ Unregister \/ PutTools \/ Put => conn'.pc \notin Sending
  BY ConnAfter DEF Sending
<1>10. ClientSends \/ Leave \/ Cancel \/ UNCHANGED vars => conn' = conn /\ turns' = turns
  BY DEF ClientSends, Leave, Cancel, vars
<1> QED BY <1>1, <1>2, <1>3, <1>4, <1>5, <1>6, <1>7, <1>8, <1>9, <1>10 DEF Next, ConnStep

\* An idle connection stays so until it gets a response.create.
LEMMA IdleStays ==
    ASSUME Base, [Next]_vars, conn.pc \in Idle, Current' # Current + 1
    PROVE  conn'.pc \in Idle
<1> USE DEF Base
<1>1. CASE Recv
  <2>1. CASE UNCHANGED <<turns, conn>>
    BY <2>1
  <2> QED BY <1>1, <2>1, RecvIs
<1>2. HangUp => conn'.pc \in Idle
  BY ConnAfter DEF Idle
<1>3. ~Send
  BY SendIs DEF Idle, Sending
<1>4. ClientSends \/ Leave \/ Cancel \/ UNCHANGED vars => conn' = conn
  BY DEF ClientSends, Leave, Cancel, vars
<1>5. ~(\/ SendFails \/ PrepareFails \/ Register \/ SelectCancel \/ SelectFrame \/ SelectGone
        \/ SelectChunk \/ SelectEnd \/ NextFrame \/ Unregister \/ PutTools \/ Put)
  <2>1. conn.pc = "recv" \/ conn.pc = "closed"
    BY DEF Idle
  <2> QED BY <2>1 DEF SendFails, PrepareFails, Register, SelectCancel, SelectFrame, SelectGone,
         SelectChunk, SelectEnd, NextFrame, Unregister, PutTools, Put
<1> QED BY <1>1, <1>2, <1>3, <1>4, <1>5 DEF Next, ConnStep

LEMMA HistoryNext ==
    ASSUME Base, InTurn, HistoryInv, [Next]_vars
    PROVE  HistoryInv'
<1> USE DEF Base
<1>1. (conn.pc \in Sending => HoldsAll(This, conn.out))'
  BY OutHolds
<1>2. ASSUME NEW t \in DOMAIN turns' PROVE HoldsAll(turns'[t], Seen(t)')
  <2>1. CASE t \in DOMAIN turns
    <3>1. \A events : HoldsAll(turns[t], events) => HoldsAll(turns'[t], events)
      BY <2>1, TurnGrows, HoldsMore
    <3>2. HoldsAll(turns[t], Seen(t)) /\ Seen(t) \in Seq(Ev)
      BY <2>1, SeenType DEF HistoryInv
    <3>3. CASE Seen(t)' = Seen(t)
      BY <3>1, <3>2, <3>3
    <3>4. CASE /\ Send /\ t = Current /\ Head(conn.out) \in Ev
               /\ Seen(t)' = Append(Seen(t), Head(conn.out))
      <4>1. HoldsAll(This, conn.out) /\ conn.out \in Seq(Ev) /\ conn.out # <<>>
        BY <3>4, SendIs DEF HistoryInv, Typed, AConn
      <4>2. Holds(turns[t], Head(conn.out))
        BY <3>4, <4>1, HoldsSplit DEF This
      <4>3. HoldsAll(turns[t], Append(Seen(t), Head(conn.out)))
        <5> DEFINE e == Head(conn.out)
                   seen == Seen(t)
        <5>1. e \in Ev /\ seen \in Seq(Ev) /\ HoldsAll(turns[t], seen) /\ Holds(turns[t], e)
          BY <3>2, <3>4, <4>2
        <5> HIDE DEF e, seen
        <5>2. HoldsAll(turns[t], Append(seen, e))
          BY <5>1, HoldsSplit
        <5> QED BY <5>2 DEF e, seen
      <4> QED BY <3>1, <3>4, <4>3
    <3> QED BY <3>3, <3>4, SeenMoves
  <2>2. CASE t \notin DOMAIN turns
    <3>1. t = Current + 1 /\ Recv /\ Current \in Nat
      BY <1>2, <2>2, TurnsMove, CurrentIs DEF OthersStay
    <3>2. client' = client
      BY <3>1 DEF Recv
    <3>3. Seen(t)' = Seen(t) /\ Seen(t) = <<>>
      <4>1. Seen(t) = <<>>
        BY <3>1 DEF InTurn
      <4>2. Seen(t)' = Seen(t)
        BY <3>2 DEF Seen
      <4> QED BY <4>1, <4>2
    <3> QED BY <3>3 DEF HoldsAll
  <2> QED BY <2>1, <2>2
<1>3. ASSUME NEW t \in DOMAIN turns', turns'[t].history # NotStored
      PROVE  /\ t < Current' \/ conn'.pc \in Idle
             /\ turns'[t].mode # "reject" /\ (turns'[t].tools \/ turns'[t].mode = "compaction")
             /\ turns'[t].history = Answer(turns'[t])
  <2>1. CASE /\ t \in DOMAIN turns /\ turns'[t] = turns[t]
             /\ t < Current \/ conn.pc \in Idle => t < Current' \/ conn'.pc \in Idle
    BY <1>3, <2>1 DEF HistoryInv
  <2>2. CASE Current' = Current + 1
    <3>1. /\ DOMAIN turns' = 1..(Current + 1) /\ \A u \in DOMAIN turns : turns'[u] = turns[u]
          /\ \E mode \in Mode : This' = Turn(mode)
      BY <2>2, TurnsMove, CurrentIs DEF OthersStay
    <3>2. t # Current + 1
      BY <1>3, <2>2, <3>1 DEF This, Turn
    <3>3. t \in DOMAIN turns /\ t < Current'
      BY <2>2, <3>1, <3>2, CurrentIs
    <3> QED BY <2>1, <3>1, <3>3
  <2>3. CASE Current' # Current + 1
    <3>1. /\ Current' = Current /\ DOMAIN turns' = DOMAIN turns
          /\ turns' = turns \/ (OthersStay /\ conn.pc \notin Idle)
      <4>1. OthersStay => Current' = Current /\ DOMAIN turns' = DOMAIN turns
        BY DEF OthersStay
      <4>2. \/ /\ turns' = turns /\ Current' = Current /\ DOMAIN turns' = DOMAIN turns
            \/ OthersStay /\ conn.pc \notin Idle
            \/ Current' = Current + 1
        BY TurnsMove
      <4> QED BY <2>3, <4>1, <4>2
    <3>2. CASE conn.pc \in Idle
      <4>1. conn'.pc \in Idle
        BY <2>3, <3>2, IdleStays
      <4> QED BY <2>1, <3>1, <3>2, <4>1
    <3>3. CASE conn.pc \notin Idle /\ t # Current
      BY <2>1, <3>1, <3>3 DEF OthersStay
    <3>4. CASE conn.pc \notin Idle /\ t = Current
      <4>1. turns[t].history = NotStored /\ turns[t] = This /\ turns'[t] = This'
        BY <3>1, <3>4, CurrentIs DEF HistoryInv, This
      <4>2. Put
        BY <1>3, <3>1, <4>1, TurnGrows
      <4>3. /\ This.mode # "reject" /\ (This.tools \/ This.mode = "compaction") /\ This \in ATurn
        BY <4>2, CurrentIs DEF Put, FramesAreOwed, Idle
      <4>4. /\ This'.mode = This.mode /\ This'.processed = This.processed
            /\ This'.tools = This.tools /\ This'.history = Answer(This)
        BY <4>2, <4>3, PutIs DEF ATurn
      <4>5. Answer(This') = Answer(This)
        BY <4>4 DEF Answer
      <4>6. conn'.pc \in Idle
        BY <4>2, ConnAfter DEF Idle
      <4> QED BY <4>1, <4>3, <4>4, <4>5, <4>6
    <3> QED BY <3>2, <3>3, <3>4
  <2> QED BY <2>2, <2>3
<1> QED BY <1>1, <1>2, <1>3 DEF HistoryInv

-----------------------------------------------------------------------------
(* The order of what is relayed                                            *)

\* All that a client can get of a turn.
Full(turn) == IF turn.mode = "stream" THEN EventsFor(turn.upstream) ELSE Reply(turn.mode)

Follows(seen, turn) ==
    \/ IsPrefix(seen, Full(turn))
    \/ IsPrefix(Front(seen), Reply(turn.mode)) /\ Last(seen) = Error

\* A client that is there has got what the task has not still to send.
Relayed ==
    /\ conn.pc = "reply" => Seen(Current) \o conn.out = Reply(This.mode) /\ conn.out # <<>>
    /\ conn.pc = "give_up" => conn.out = <<Error>> /\ IsPrefix(Seen(Current), Reply(This.mode))
    /\ conn.pc = "register" => Seen(Current) = FirstEvents
    /\ conn.pc \in {"select", "frames"} =>
          Seen(Current) \o conn.out = UpTo(This.upstream, Handled)
    /\ conn.pc = "bad_frame" => Seen(Current) \o conn.out = EventsFor(This.upstream)

RelayInv ==
    /\ \A t \in DOMAIN turns : Follows(Seen(t), turns[t])
    /\ client.connected => Relayed

LEMMA HandledIs ==
    ASSUME Base, conn.pc \in {"select", "frames"}
    PROVE  /\ This \in ATurn /\ This.upstream \in Seq(Frame) /\ This.mode = "stream"
           /\ Len(This.upstream) \in Nat /\ Handled \in 0..Len(This.upstream)
           /\ conn.pc = "select" => Handled = Len(This.upstream)
           /\ \A n \in 1..Handled : This.upstream[n] # "bad"
<1>1. /\ This \in ATurn /\ This.mode = "stream"
      /\ \A n \in 1..Handled : This.upstream[n] # "bad"
  BY CurrentIs DEF Base, FramesAreOwed, Idle, Relaying
<1>2. This.upstream \in Seq(Frame) /\ Len(This.upstream) \in Nat
  BY <1>1 DEF ATurn
<1>3. conn.frames \in Seq(Frame) /\ Len(conn.frames) \in Nat
  BY DEF Base, Typed, AConn
<1>4. conn.pc = "select" => Len(conn.frames) = 0
  BY DEF Base, FramesAreOwed
<1>5. conn.pc = "frames" => Handled \in Nat
  BY DEF Base, FramesAreOwed
<1>6. Handled = Len(This.upstream) - Len(conn.frames)
  BY DEF Handled
<1>7. ASSUME NEW l \in Nat, NEW f \in Nat, NEW h, h = l - f, f = 0 \/ h \in Nat
      PROVE  h \in 0..l /\ (f = 0 => h = l)
  BY <1>7
<1>8. Handled \in 0..Len(This.upstream) /\ (Len(conn.frames) = 0 => Handled = Len(This.upstream))
  BY ZenonT(60), <1>2, <1>3, <1>4, <1>5, <1>6, <1>7
<1> QED BY <1>1, <1>2, <1>4, <1>8

\* The events of one more frame.
LEMMA UpToNext ==
    ASSUME NEW u \in Seq(Frame), NEW h \in Nat, h + 1 \in 1..Len(u),
           \A n \in 1..h : u[n] # "bad"
    PROVE  /\ EventsOf(u[h + 1], h + 1) \in Seq(Ev)
           /\ UpTo(u, h + 1) = UpTo(u, h) \o EventsOf(u[h + 1], h + 1)
           /\ u[h + 1] = "bad" => EventsFor(u) = UpTo(u, h + 1)
<1>1. h + 1 - 1 = h
  OBVIOUS
<1>2. Yield(u, h + 1) = EventsOf(u[h + 1], h + 1)
  BY <1>1 DEF Yield
<1>3. UpTo(u, h + 1) = UpTo(u, h) \o Yield(u, h + 1) /\ Yield(u, h + 1) \in Seq(Ev)
  BY <1>1, UpToStep, YieldType
<1>4. ASSUME u[h + 1] = "bad" PROVE EventsFor(u) = UpTo(u, h + 1)
  <2>1. h + 1 \in 0..Len(u) /\ (\E m \in 1..(h + 1) : u[m] = "bad") /\ Len(u) \in (h + 1)..Len(u)
    BY <1>4
  <2>2. UpTo(u, Len(u)) = UpTo(u, h + 1)
    BY <2>1, UpToBad
  <2> QED BY <2>2, UpToAll
<1> QED BY <1>2, <1>3, <1>4

LEMMA FrontLast ==
    ASSUME NEW S, NEW s \in Seq(S), NEW e \in S
    PROVE  Front(Append(s, e)) = s /\ Last(Append(s, e)) = e
<1>1. /\ Append(s, e) \in Seq(S) /\ Len(s) \in Nat /\ Len(Append(s, e)) = Len(s) + 1
      /\ Append(s, e)[Len(s) + 1] = e /\ \A k \in 1..Len(s) : Append(s, e)[k] = s[k]
  BY AppendIs
<1>2. Last(Append(s, e)) = e
  BY <1>1 DEF Last
<1>3. Front(Append(s, e)) = SubSeq(Append(s, e), 1, Len(s))
  BY <1>1 DEF Front
<1>4. /\ SubSeq(Append(s, e), 1, Len(s)) \in Seq(S)
      /\ Len(SubSeq(Append(s, e), 1, Len(s))) = Len(s)
      /\ \A k \in 1..Len(s) : SubSeq(Append(s, e), 1, Len(s))[k] = s[k]
  BY <1>1
<1>5. SubSeq(Append(s, e), 1, Len(s)) = s
  BY <1>4, SameSequence
<1> QED BY <1>2, <1>3, <1>5

\* A turn's stream, before it is read, is its reply.
LEMMA FullIsReply ==
    ASSUME NEW turn \in ATurn, turn.upstream = <<>>
    PROVE  Full(turn) = Reply(turn.mode) /\ Reply(turn.mode) \in Seq(Ev)
<1>1. turn.mode \in Mode
  BY DEF ATurn
<1>2. CASE turn.mode = "stream"
  <2>1. <<>> \in Seq(Frame) /\ Len(<<>>) = 0
    OBVIOUS
  <2>2. UpTo(<<>>, 0) = FirstEvents
    BY <2>1, UpToNone
  <2>3. UpTo(<<>>, 0) = EventsFor(<<>>)
    BY <2>1, UpToAll
  <2>4. Reply(turn.mode) = FirstEvents
    BY <1>2 DEF Reply
  <2> QED BY <1>1, <1>2, <2>2, <2>3, <2>4, ReplyType DEF Full
<1>3. CASE turn.mode # "stream"
  BY <1>1, <1>3, ReplyType DEF Full
<1> QED BY <1>2, <1>3

LEMMA PrefixEv == \A s, r, t \in Seq(Ev) : s \o r = t => IsPrefix(s, t)
<1> SUFFICES ASSUME NEW s \in Seq(Ev), NEW r \in Seq(Ev), NEW t \in Seq(Ev), s \o r = t
             PROVE  IsPrefix(s, t)
  OBVIOUS
<1> QED BY PrefixIsConcat

LEMMA MoveEv ==
    \A s, r \in Seq(Ev) : r # <<>> => /\ Append(s, Head(r)) \o Tail(r) = s \o r
                                      /\ Append(s, Head(r)) \in Seq(Ev) /\ Tail(r) \in Seq(Ev)
<1> SUFFICES ASSUME NEW s \in Seq(Ev), NEW r \in Seq(Ev), r # <<>>
             PROVE  /\ Append(s, Head(r)) \o Tail(r) = s \o r
                    /\ Append(s, Head(r)) \in Seq(Ev) /\ Tail(r) \in Seq(Ev)
  OBVIOUS
<1>1. Head(r) \in Ev /\ Tail(r) \in Seq(Ev)
  BY HeadTail
<1>2. Append(s, Head(r)) \in Seq(Ev)
  BY <1>1
<1> QED BY <1>1, <1>2, MoveHead

\* What the client gets by a send follows its turn.
LEMMA SendFollows ==
    ASSUME Base, RelayInv, Send, client.connected
    PROVE  Follows(Append(Seen(Current), Head(conn.out)), This)
<1> USE DEF Base
<1> DEFINE seen == Seen(Current)
           out == conn.out
<1>1. /\ seen \in Seq(Ev) /\ out \in Seq(Ev) /\ out # <<>> /\ conn.pc \in Sending
      /\ Head(out) \in Ev
  BY SeenType, SendIs DEF Typed, AConn
<1>2. This \in ATurn /\ This.mode \in Mode
  BY <1>1, CurrentIs DEF FramesAreOwed, Sending, Idle, ATurn
<1>3. Relayed
  BY DEF RelayInv
<1>4. /\ Append(seen, Head(out)) \o Tail(out) = seen \o out
      /\ Append(seen, Head(out)) \in Seq(Ev) /\ Tail(out) \in Seq(Ev)
  <2> HIDE DEF seen, out
  <2> QED BY <1>1, MoveEv
<1>5. ASSUME NEW full \in Seq(Ev), seen \o out = full, Full(This) = full
      PROVE  Follows(Append(seen, Head(out)), This)
  <2> HIDE DEF seen, out
  <2>1. IsPrefix(Append(seen, Head(out)), full)
    BY <1>4, <1>5, PrefixEv
  <2> QED BY <1>5, <2>1 DEF Follows
<1>6. CASE conn.pc = "reply"
  <2>1. /\ Full(This) = Reply(This.mode) /\ Reply(This.mode) \in Seq(Ev)
        /\ seen \o out = Reply(This.mode)
    BY <1>2, <1>3, <1>6, FullIsReply DEF FramesAreOwed, Relayed
  <2> QED BY <1>5, <2>1
<1>7. CASE conn.pc = "give_up"
  <2>1. Head(out) = Error /\ IsPrefix(seen, Reply(This.mode))
    BY <1>3, <1>7 DEF Relayed
  <2>2. Front(Append(seen, Head(out))) = seen /\ Last(Append(seen, Head(out))) = Head(out)
    <3> HIDE DEF seen, out
    <3> QED BY <1>1, FrontLast
  <2> QED BY <2>1, <2>2 DEF Follows
<1>8. CASE conn.pc = "frames"
  <2>1. /\ This.upstream \in Seq(Frame) /\ Handled \in 0..Len(This.upstream)
        /\ This.mode = "stream"
    BY <1>8, HandledIs
  <2>2. seen \o out = UpTo(This.upstream, Handled)
    BY <1>3, <1>8 DEF Relayed
  <2>3. /\ UpTo(This.upstream, Handled) \in Seq(Ev) /\ EventsFor(This.upstream) \in Seq(Ev)
        /\ IsPrefix(UpTo(This.upstream, Handled), EventsFor(This.upstream))
    BY <2>1, UpToType, EventsForType, PrefixOfAll
  <2>4. IsPrefix(Append(seen, Head(out)), UpTo(This.upstream, Handled))
    <3> HIDE DEF seen, out
    <3> QED BY <1>4, <2>2, <2>3, PrefixEv
  <2>5. IsPrefix(Append(seen, Head(out)), EventsFor(This.upstream))
    BY <1>4, <2>3, <2>4, PrefixTransitive
  <2> QED BY <2>1, <2>5 DEF Follows, Full
<1>9. CASE conn.pc = "bad_frame"
  <2>1. This.mode = "stream" /\ This.upstream \in Seq(Frame)
    BY <1>2, <1>9 DEF FramesAreOwed, Relaying, ATurn
  <2>2. EventsFor(This.upstream) \in Seq(Ev) /\ Full(This) = EventsFor(This.upstream)
    BY <2>1, EventsForType DEF Full
  <2>3. seen \o out = EventsFor(This.upstream)
    BY <1>3, <1>9 DEF Relayed
  <2> QED BY <1>5, <2>2, <2>3
<1> QED BY <1>1, <1>6, <1>7, <1>8, <1>9 DEF Sending

\* A turn that follows its upstream does so when more is read.
LEMMA FollowsMore ==
    ASSUME Base, [Next]_vars
    PROVE  \A t \in DOMAIN turns : \A seen \in Seq(Ev) :
              Follows(seen, turns[t]) => Follows(seen, turns'[t])
<1> USE DEF Base
<1> SUFFICES ASSUME NEW t \in DOMAIN turns, NEW seen \in Seq(Ev), Follows(seen, turns[t])
             PROVE  Follows(seen, turns'[t])
  OBVIOUS
<1>1. turns'[t].mode = turns[t].mode
  BY TurnGrows
<1>2. CASE turns'[t].upstream = turns[t].upstream
  BY <1>1, <1>2 DEF Follows, Full
<1>3. CASE SelectChunk /\ t = Current
  <2>1. PICK chunk \in Seq(Frame) :
            OthersStay /\ This' = [This EXCEPT !.upstream = This.upstream \o chunk]
    BY <1>3, ChunkIs
  <2>2. This \in ATurn /\ This.upstream \in Seq(Frame) /\ This.mode = "stream"
    BY <1>3, CurrentIs DEF SelectChunk, FramesAreOwed, Idle, Relaying, ATurn
  <2>3. turns[t] = This /\ turns'[t] = This' /\ This'.upstream = This.upstream \o chunk
    BY <1>3, <2>1, <2>2 DEF OthersStay, This, ATurn
  <2>4. CASE IsPrefix(Front(seen), Reply(turns[t].mode)) /\ Last(seen) = Error
    BY <1>1, <2>4 DEF Follows
  <2>5. CASE IsPrefix(seen, Full(turns[t]))
    <3> DEFINE u == This.upstream
    <3>1. /\ EventsFor(u) \in Seq(Ev) /\ EventsFor(u \o chunk) \in Seq(Ev)
          /\ IsPrefix(EventsFor(u), EventsFor(u \o chunk))
      <4>1. u \in Seq(Frame) /\ u \o chunk \in Seq(Frame)
        BY <2>2
      <4> HIDE DEF u
      <4> QED BY <4>1, EventsForType, MoreIsLonger
    <3>2. IsPrefix(seen, EventsFor(u))
      BY <2>2, <2>3, <2>5 DEF Full
    <3>3. IsPrefix(seen, EventsFor(u \o chunk))
      BY <3>1, <3>2, PrefixTransitive
    <3> QED BY <1>1, <2>2, <2>3, <3>3 DEF Follows, Full
  <2> QED BY <2>4, <2>5 DEF Follows
<1>4. turns'[t].upstream = turns[t].upstream \/ (SelectChunk /\ t = Current)
  <2>1. CASE turns'[t] = turns[t]
    BY <2>1
  <2>2. CASE OthersStay /\ conn.pc \notin Idle /\ t = Current
    <3>1. This \in ATurn /\ turns[t] = This /\ turns'[t] = This'
      BY <2>2, CurrentIs DEF FramesAreOwed, OthersStay, This
    <3>2. NextFrame /\ conn.frames = <<>> => turns'[t] = turns[t]
      BY DEF NextFrame
    <3>3. NextFrame /\ conn.frames # <<>> => This'.upstream = This.upstream
      <4> SUFFICES ASSUME NextFrame, conn.frames # <<>> PROVE This'.upstream = This.upstream
        OBVIOUS
      <4> DEFINE more == Append(This.processed, Handled + 1)
      <4>1. \/ This' = [This EXCEPT !.processed = more]
            \/ This' = [This EXCEPT !.processed = This.processed]
        BY FrameIs
      <4> HIDE DEF more
      <4> QED BY <3>1, <4>1 DEF ATurn
    <3>4. PutTools \/ Put => This'.upstream = This.upstream
      BY <3>1, PutToolsIs, PutIs DEF ATurn
    <3> QED BY <2>2, <3>1, <3>2, <3>3, <3>4, TurnsMove, CurrentIs
  <2>3. CASE OthersStay /\ t # Current
    BY <2>3 DEF OthersStay
  <2> QED BY <2>1, <2>2, <2>3, TurnsMove
<1> QED BY <1>2, <1>3, <1>4

LEMMA FollowsNext ==
    ASSUME Base, InTurn, RelayInv, [Next]_vars
    PROVE  \A t \in DOMAIN turns' : Follows(Seen(t)', turns'[t])
<1> USE DEF Base
<1> SUFFICES ASSUME NEW t \in DOMAIN turns' PROVE Follows(Seen(t)', turns'[t])
  OBVIOUS
<1>1. CASE t \in DOMAIN turns
  <2>1. Seen(t) \in Seq(Ev) /\ Follows(Seen(t), turns[t])
    BY <1>1, SeenType DEF RelayInv
  <2>2. CASE Seen(t)' = Seen(t)
    BY <1>1, <2>1, <2>2, FollowsMore
  <2>3. CASE /\ Send /\ client.connected /\ t = Current
             /\ Seen(t)' = Append(Seen(t), Head(conn.out))
    <3>1. Follows(Append(Seen(Current), Head(conn.out)), This)
      BY <2>3, SendFollows
    <3>2. turns'[t] = This
      BY <2>3 DEF Send, This
    <3> QED BY <2>3, <3>1, <3>2
  <2> QED BY <2>2, <2>3, SeenMoves
<1>2. CASE t \notin DOMAIN turns
  <2>1. t = Current + 1 /\ Recv /\ Current \in Nat /\ Current' = t
        /\ \E mode \in Mode : This' = Turn(mode)
    BY <1>2, TurnsMove, CurrentIs DEF OthersStay
  <2>2. client' = client
    BY <2>1 DEF Recv
  <2>3. Seen(t)' = Seen(t) /\ Seen(t) = <<>>
    <3>1. Seen(t) = <<>>
      BY <2>1 DEF InTurn
    <3>2. Seen(t)' = Seen(t)
      BY <2>2 DEF Seen
    <3> QED BY <3>1, <3>2
  <2>4. PICK mode \in Mode : turns'[t] = Turn(mode)
    BY <2>1 DEF This
  <2>5. Full(Turn(mode)) \in Seq(Ev)
    <3>1. Turn(mode).upstream = <<>> /\ Turn(mode).mode = mode /\ <<>> \in Seq(Frame)
      BY DEF Turn
    <3> QED BY <3>1, EventsForType, ReplyType DEF Full
  <2>6. \A full \in Seq(Ev) : IsPrefix(<<>>, full)
    BY DEF IsPrefix
  <2> QED BY <2>3, <2>4, <2>5, <2>6 DEF Follows
<1> QED BY <1>1, <1>2

LEMMA RelayedNext ==
    ASSUME Base, InTurn, RelayInv, [Next]_vars, client'.connected
    PROVE  Relayed'
<1> USE DEF Base
<1>c. client.connected
  <2>1. Send => client'.connected = client.connected
    BY SendIs
  <2>2. Leave => ~client'.connected
    BY DEF Leave, Typed, AClient
  <2>3. ClientSends => client.connected
    BY DEF ClientSends
  <2>4. /\ Recv \/ HangUp \/ SendFails \/ PrepareFails \/ Register \/ SelectCancel \/ SelectGone
           \/ SelectFrame \/ SelectChunk \/ SelectEnd \/ NextFrame => client' = client
        /\ Unregister \/ PutTools \/ Put \/ Cancel \/ UNCHANGED vars => client' = client
    BY DEF Recv, HangUp, SendFails, PrepareFails, Register, SelectCancel, SelectGone, SelectFrame,
           SelectChunk, SelectEnd, NextFrame, Unregister, PutTools, Put, Cancel, vars
  <2> QED BY <2>1, <2>2, <2>3, <2>4 DEF Next, ConnStep
<1>r. Relayed
  BY <1>c DEF RelayInv
<1> DEFINE seen == Seen(Current)
<1>t. /\ seen \in Seq(Ev) /\ conn.out \in Seq(Ev)
      /\ \A s \in Seq(Ev) : s \o <<>> = s /\ <<>> \o s = s
  BY SeenType DEF Typed, AConn
<1>s. ASSUME turns' = turns, client'.seen = client.seen
      PROVE  Seen(Current)' = seen /\ This' = This /\ Current' = Current
  BY <1>s DEF Seen, This, Current
<1>1. CASE Recv
  <2>1. CASE UNCHANGED <<turns, conn>>
    <3>1. Relayed
      BY <1>r
    <3> QED BY <1>1, <2>1, <3>1 DEF Recv, Relayed, Seen, This, Current, Handled
  <2>2. ASSUME NEW mode \in Mode, Current' = Current + 1, This' = Turn(mode),
               conn'.pc = "reply", conn'.out = Reply(mode)
        PROVE  Relayed'
    <3>1. Seen(Current + 1) = <<>>
      BY CurrentIs DEF InTurn
    <3>2. Seen(Current)' = <<>>
      BY <1>1, <2>2, <3>1 DEF Seen, Recv
    <3>3. Reply(mode) \in Seq(Ev) /\ Reply(mode) # <<>> /\ Turn(mode).mode = mode
      BY ReplyType DEF Turn
    <3> QED BY <1>t, <2>2, <3>2, <3>3 DEF Relayed
  <2> QED BY <1>1, <2>1, <2>2, RecvIs
<1>2. CASE Send
  <2>1. /\ conn.out # <<>> /\ conn'.out = Tail(conn.out) /\ conn.pc \in Sending
        /\ Current' = Current /\ This' = This /\ Handled' = Handled
        /\ This.mode \in Mode
    BY <1>2, SendIs, SendMoves
  <2>2. Seen(Current)' = Append(seen, Head(conn.out))
    <3>1. \A t : Seen(t)' = IF t = Current THEN Append(Seen(t), Head(conn.out)) ELSE Seen(t)
      <4>1. client'.seen = Append(client.seen, [turn |-> Current, event |-> Head(conn.out)])
        BY <1>2, <1>c, SendIs
      <4>2. Len(client'.seen) # Len(client.seen)
        <5> DEFINE item == [turn |-> Current, event |-> Head(conn.out)]
        <5>1. item \in ASeen /\ client.seen \in Seq(ASeen)
          BY <1>2, SendIs, CurrentIs DEF ASeen, Typed, AClient
        <5>2. client'.seen = Append(client.seen, item)
          BY <4>1
        <5> HIDE DEF item
        <5> QED BY <5>1, <5>2
      <4> QED BY <4>2, SeenMoves
    <3>2. Seen(Current)' = FlattenSeq(Pieces(client'.seen, Current'))
      BY DEF Seen, Pieces
    <3> DEFINE c == Current
    <3>3. \A t : Seen(t)' = FlattenSeq(Pieces(client'.seen, t))
      BY DEF Seen, Pieces
    <3>4. FlattenSeq(Pieces(client'.seen, Current)) = Append(seen, Head(conn.out))
      BY <3>1, <3>3
    <3> QED BY <2>1, <3>2, <3>4
  <2>3. /\ Append(seen, Head(conn.out)) \o Tail(conn.out) = seen \o conn.out
        /\ Append(seen, Head(conn.out)) \in Seq(Ev) /\ Tail(conn.out) \in Seq(Ev)
    <3> HIDE DEF seen
    <3> QED BY <1>t, <2>1, MoveEv
  <2>4. CASE conn'.pc = conn.pc
    <3>1. conn.pc # "give_up"
      <4>1. conn.pc = "give_up" => Tail(conn.out) = <<>>
        <5>1. conn.pc = "give_up" => conn.out = <<Error>>
          BY <1>r DEF Relayed
        <5>2. Tail(<<Error>>) = <<>>
          OBVIOUS
        <5> QED BY <5>1, <5>2
      <4> QED BY <1>2, <2>4, <4>1, SendMoves
    <3>2. conn.pc = "reply" => conn'.out # <<>>
      <4>1. conn.pc = "reply" /\ Tail(conn.out) = <<>> => conn'.pc # "reply"
        BY <1>2, <2>1, SendMoves DEF Mode
      <4> QED BY <2>1, <2>4, <4>1
    <3> HIDE DEF seen
    <3>3. Seen(Current)' \o conn'.out = seen \o conn.out
      BY <2>1, <2>2, <2>3
    <3> QED BY <1>r, <2>1, <2>4, <3>1, <3>2, <3>3 DEF Relayed, Sending, seen
  <2>5. CASE conn'.pc # conn.pc
    <3>1. Tail(conn.out) = <<>>
      BY <1>2, <2>5, SendMoves
    <3>2. conn'.pc \in {"recv", "put_tools", "put", "register", "unregister"}
      BY <1>2, <2>1, <2>5, <3>1, SendMoves DEF Sending, Mode
    <3>3. conn'.pc = "register" => conn.pc = "reply" /\ This.mode = "stream"
      BY <1>2, <2>1, <2>5, <3>1, SendMoves DEF Sending, Mode
    <3>4. ASSUME conn.pc = "reply", This.mode = "stream" PROVE Append(seen, Head(conn.out)) = FirstEvents
      <4>1. seen \o conn.out = FirstEvents
        BY <1>r, <3>4 DEF Relayed, Reply
      <4> HIDE DEF seen
      <4>2. Append(seen, Head(conn.out)) \o <<>> = seen \o conn.out
        BY <2>3, <3>1
      <4> QED BY <1>t, <2>3, <4>1, <4>2
    <3> QED BY <2>2, <3>2, <3>3, <3>4 DEF Relayed
  <2> QED BY <2>4, <2>5
<1>3. CASE PrepareFails
  <2>1. /\ conn'.pc = "give_up" /\ conn'.out = <<Error>> /\ conn.pc = "reply"
        /\ turns' = turns /\ client' = client
    BY <1>3, ConnAfter DEF PrepareFails
  <2>2. IsPrefix(seen, Reply(This.mode))
    <3>1. seen \o conn.out = Reply(This.mode) /\ Reply(This.mode) \in Seq(Ev)
      BY <1>r, <2>1, CurrentIs, ReplyType DEF Relayed, FramesAreOwed, Idle, ATurn
    <3> HIDE DEF seen
    <3> QED BY <1>t, <3>1, PrefixEv
  <2> QED BY <1>s, <2>1, <2>2 DEF Relayed
<1>4. CASE Register
  <2>1. /\ conn'.pc = "select" /\ conn.pc = "register" /\ turns' = turns /\ client' = client
        /\ conn'.out = <<>> /\ conn'.frames = <<>> /\ This.upstream = <<>>
    BY <1>4, ConnAfter DEF Register, FramesAreOwed, Sending
  <2>2. Handled' = 0 /\ <<>> \in Seq(Frame)
    BY <1>s, <2>1 DEF Handled
  <2>3. UpTo(This.upstream, 0) = FirstEvents
    BY <2>1, <2>2, UpToNone
  <2>4. seen \o <<>> = FirstEvents
    BY <1>r, <1>t, <2>1 DEF Relayed
  <2> QED BY <1>s, <2>1, <2>2, <2>3, <2>4 DEF Relayed
<1>5. CASE SelectChunk
  <2>1. PICK chunk \in Seq(Frame) :
            /\ conn'.pc = "frames" /\ conn'.out = conn.out /\ conn'.frames = chunk
            /\ OthersStay /\ This' = [This EXCEPT !.upstream = This.upstream \o chunk]
    BY <1>5, ChunkIs
  <2>2. conn.pc = "select" /\ client' = client
    BY <1>5 DEF SelectChunk
  <2> DEFINE u == This.upstream
  <2>3. /\ This \in ATurn /\ u \in Seq(Frame) /\ Handled = Len(u) /\ Len(u) \in Nat
    BY <2>2, HandledIs
  <2>4. This'.upstream = u \o chunk
    BY <2>1, <2>3 DEF ATurn
  <2>5. Handled' = Len(u)
    <3>1. Handled' = Len(u \o chunk) - Len(chunk)
      BY <2>1, <2>4 DEF Handled
    <3>2. Len(u \o chunk) = Len(u) + Len(chunk) /\ Len(chunk) \in Nat
      BY <2>3
    <3> QED BY <2>3, <3>1, <3>2
  <2>6. UpTo(u \o chunk, Len(u)) = UpTo(u, Len(u))
    <3>1. Len(u) \in 0..Len(u)
      BY <2>3
    <3> HIDE DEF u
    <3> QED BY <2>3, <3>1, UpToSame
  <2>7. Seen(Current)' = seen
    BY <2>1, <2>2 DEF OthersStay, Seen
  <2>8. seen \o conn.out = UpTo(u, Len(u))
    BY <1>r, <2>2, <2>3 DEF Relayed
  <2> QED BY <2>1, <2>4, <2>5, <2>6, <2>7, <2>8 DEF Relayed
<1>6. CASE NextFrame /\ conn.frames = <<>>
  <2>1. /\ conn'.pc = "select" /\ conn'.out = conn.out /\ conn'.frames = conn.frames
        /\ turns' = turns /\ client' = client /\ conn.pc = "frames"
    BY <1>6 DEF NextFrame, Typed, AConn
  <2>2. Handled' = Handled
    BY <1>s, <2>1 DEF Handled
  <2> QED BY <1>s, <1>r, <2>1, <2>2 DEF Relayed
<1>7. CASE NextFrame /\ conn.frames # <<>>
  <2> DEFINE u == This.upstream
             next == Handled + 1
             frame == u[next]
             events == EventsOf(frame, next)
  <2>1. /\ next \in 1..Len(u) /\ Handled \in Nat
        /\ conn'.pc = IF frame = "bad" THEN "bad_frame" ELSE "frames"
        /\ conn'.out = events
        /\ frame # "bad" => Handled' = next
        /\ OthersStay
        /\ This' = [This EXCEPT !.processed = IF frame = "data"
                                              THEN Append(This.processed, next)
                                              ELSE This.processed]
    BY <1>7, FrameIs
  <2>2. conn.pc = "frames" /\ conn.out = <<>> /\ client' = client
    BY <1>7 DEF NextFrame
  <2>3. This \in ATurn /\ u \in Seq(Frame) /\ \A n \in 1..Handled : u[n] # "bad"
    BY <2>2, HandledIs
  <2>4. This'.upstream = u
    <3> DEFINE processed == IF frame = "data" THEN Append(This.processed, next) ELSE This.processed
    <3>1. This' = [This EXCEPT !.processed = processed]
      BY <2>1
    <3> HIDE DEF processed
    <3> QED BY <2>3, <3>1 DEF ATurn
  <2>5. seen = UpTo(u, Handled)
    <3>1. seen \o <<>> = UpTo(u, Handled)
      BY <1>r, <2>2 DEF Relayed
    <3> HIDE DEF seen
    <3> QED BY <1>t, <3>1
  <2>6. /\ UpTo(u, next) = UpTo(u, Handled) \o events
        /\ frame = "bad" => EventsFor(u) = UpTo(u, next)
    <3> DEFINE h == Handled
    <3>1. h \in Nat /\ h + 1 \in 1..Len(u) /\ u \in Seq(Frame) /\ \A n \in 1..h : u[n] # "bad"
      BY <2>1, <2>3
    <3> HIDE DEF h, u
    <3> QED BY <3>1, UpToNext DEF h
  <2>7. Seen(Current)' = seen
    BY <2>1, <2>2 DEF OthersStay, Seen
  <2> HIDE DEF u, next, frame, events, seen
  <2>8. Seen(Current)' \o conn'.out = UpTo(u, next)
    BY <2>1, <2>5, <2>6, <2>7
  <2>9. CASE frame = "bad"
    BY <2>1, <2>4, <2>6, <2>8, <2>9 DEF Relayed
  <2>10. CASE frame # "bad"
    BY <2>1, <2>4, <2>8, <2>10 DEF Relayed
  <2> QED BY <2>9, <2>10
<1>8. HangUp \/ SendFails \/ SelectCancel \/ SelectFrame \/ SelectGone \/ SelectEnd
        \/ Unregister \/ PutTools \/ Put
        => conn'.pc \in {"recv", "closed", "unregister", "put_tools", "put"}
  BY ConnAfter
<1>9. CASE ClientSends \/ Leave \/ Cancel \/ UNCHANGED vars
  <2>1. conn' = conn /\ turns' = turns /\ client'.seen = client.seen
    <3>1. ClientSends \/ Leave => client'.seen = client.seen
      BY DEF ClientSends, Leave, Typed, AClient
    <3> QED BY <1>9, <3>1 DEF ClientSends, Leave, Cancel, vars
  <2>2. Handled' = Handled
    BY <1>s, <2>1 DEF Handled
  <2> QED BY <1>s, <1>r, <2>1, <2>2 DEF Relayed
<1>10. conn'.pc \in {"recv", "closed", "unregister", "put_tools", "put"} => Relayed'
  BY DEF Relayed
<1> QED BY <1>1, <1>2, <1>3, <1>4, <1>5, <1>6, <1>7, <1>8, <1>9, <1>10 DEF Next, ConnStep

LEMMA RelayNext ==
    ASSUME Base, InTurn, RelayInv, [Next]_vars
    PROVE  RelayInv'
BY FollowsNext, RelayedNext DEF RelayInv

-----------------------------------------------------------------------------
(* The theorems                                                            *)

Inv == Base /\ TokenInv /\ CancelInv /\ InTurn /\ HistoryInv /\ RelayInv

LEMMA InvInit == Init => Inv
<1> SUFFICES ASSUME Init PROVE Inv
  OBVIOUS
<1>1. /\ conn.pc = "recv" /\ conn.cancelled = FALSE /\ DOMAIN turns = {} /\ DOMAIN answers = {}
      /\ token = 0 /\ conn.out = <<>>
  BY DEF Init
<1>2. TokenInv
  BY <1>1 DEF TokenInv, Held, NotFoundMeansNotRelaying
<1>3. CancelInv
  BY <1>1 DEF CancelInv, Held, KeptUnlessCancelled
<1>4. HistoryInv
  BY <1>1 DEF HistoryInv, Sending
<1>5. RelayInv
  BY <1>1 DEF RelayInv, Relayed
<1> QED BY <1>2, <1>3, <1>4, <1>5, BaseInit, InTurnInit DEF Inv

LEMMA InvHolds == Spec => []Inv
<1>1. Inv /\ [Next]_vars => Inv'
  BY BaseNext, TokenNext, CancelNext, InTurnNext, HistoryNext, RelayNext DEF Inv
<1> QED BY <1>1, InvInit, PTL DEF Spec

\* The connection, its turns and its client are what the code makes them: no frame
\* of the upstream waits but while it is read, nothing waits to be sent but where it
\* is, and a token is registered for no turn but the one that is handled.
THEOREM TypeCorrect == Spec => []TypeOK
<1>1. Base => TypeOK
  <2> SUFFICES ASSUME Base PROVE TypeOK
    OBVIOUS
  <2>1. /\ conn.pc \in PCs /\ conn.cancelled \in BOOLEAN /\ conn.frames \in Seq(Frame)
        /\ client.connected \in BOOLEAN /\ client.sent \in Seq(ClientFrame)
    BY DEF Base, Typed, AConn, AClient
  <2>2. ASSUME NEW t \in DOMAIN turns
        PROVE  /\ turns[t].mode \in Mode /\ turns[t].tools \in BOOLEAN
               /\ turns[t].upstream \in Seq(Frame)
    BY <2>2, CurrentIs DEF Base, ATurn
  <2> QED BY <2>1, <2>2 DEF Base, Typed, FramesAreOwed, TurnsAreSane, InboxIsSent, Sending, TypeOK
<1> QED BY <1>1, InvHolds, PTL DEF Inv

\* A cancel cannot stop a turn that it does not name: between its turns a connection
\* holds no token (handle unregisters it before anything else).  And while a turn
\* relays, its first cancel finds it.
THEOREM TokensFollowTurns == Spec => []TokenFollowsTurn
<1>1. Inv => TokenFollowsTurn
  BY DEF Inv, Base, FramesAreOwed, Held, TokenInv, TokenFollowsTurn, TokenIsFreed
<1> QED BY <1>1, InvHolds, PTL

\* A turn whose upstream answered is persisted, with all that its client saw of the
\* answer and the tools its continuation needs, although the client hung up or
\* interrupted it: nothing but a cancel, its client's frame or a call of the endpoint
\* that was answered with 200, keeps it from the store.
THEOREM TurnsAreKept == Spec => []TurnIsKept
<1>1. Inv => HistoryIsWhole
  <2> SUFFICES ASSUME Inv, NEW t \in DOMAIN turns, turns[t].history # NotStored
               PROVE  /\ turns[t].tools \/ turns[t].mode = "compaction"
                      /\ \A k \in DOMAIN Seen(t) :
                            Seen(t)[k].type \in {"added", "delta", "item"} =>
                                Contains(turns[t].history, Seen(t)[k].n)
    BY DEF HistoryIsWhole
  <2>1. /\ turns[t].tools \/ turns[t].mode = "compaction"
        /\ turns[t].history = Answer(turns[t]) /\ HoldsAll(turns[t], Seen(t))
    BY DEF Inv, HistoryInv
  <2>2. ASSUME NEW event, Holds(turns[t], event), event.type \in {"added", "delta", "item"}
        PROVE  Contains(turns[t].history, event.n)
    <3>1. CASE turns[t].mode = "stream" /\ Contains(turns[t].processed, event.n)
      BY <2>1, <3>1 DEF Answer
    <3>2. CASE turns[t].mode \in {"buffered", "compaction"} /\ event.n = 1
      <4>1. turns[t].history = <<1>>
        BY <2>1, <3>2 DEF Answer
      <4> QED BY <3>2, <4>1 DEF Contains
    <3> QED BY <2>2, <3>1, <3>2 DEF Holds
  <2> QED BY <2>1, <2>2 DEF HoldsAll
<1>2. Inv => KeptUnlessCancelled
  BY DEF Inv, CancelInv
<1> QED BY <1>1, <1>2, InvHolds, PTL DEF TurnIsKept

\* The turns of a connection do not mix: what the client gets of one comes after all
\* it gets of those before, in the order of the upstream, and ends in an error when
\* an event could not be prepared.
THEOREM TurnsDoNotMix == Spec => []TurnsAreSequential
<1>1. Inv => TurnsAreSequential
  BY DEF Inv, InTurn, RelayInv, Follows, Full, TurnsAreSequential
<1> QED BY <1>1, InvHolds, PTL
=============================================================================
