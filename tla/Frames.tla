------------------------------- MODULE Frames -------------------------------
(***************************************************************************)
(* What the two relays (SseStream, WsConnection) share: the frames of the  *)
(* upstream's event stream, and the events the client gets for them.  What *)
(* a chunk turns into is ChatStream's subject; here a frame is numbered by *)
(* its place in the stream, and yields the events that can be told apart   *)
(* by when they are sent.                                                  *)
(***************************************************************************)
EXTENDS Naturals, Sequences, SequencesExt

Frame == {"data",   \* a Chat chunk
          "skip",   \* no data line, or a chunk that yields nothing
          "bad",    \* does not parse, or a rewrite fails
          "done"}   \* [DONE]

FrameEvent(n, type) == [n |-> n, type |-> type]

\* created and in_progress, which the handler sends by itself.
FirstEvents == <<FrameEvent(0, "created"), FrameEvent(0, "in_progress")>>

\* The events of the n-th frame.
EventsOf(frame, n) ==
    CASE frame = "data" -> <<FrameEvent(n, "added"), FrameEvent(n, "delta")>>
      [] frame = "skip" -> <<>>
      [] frame = "bad"  -> <<FrameEvent(n, "error")>>
      [] frame = "done" -> <<FrameEvent(n, "completed")>>

\* All a client can get for these frames: one that does not parse ends the stream.
EventsFor(frames) ==
    LET ended(n) == \E m \in 1..(n - 1) : frames[m] = "bad"
    IN  FirstEvents \o FlattenSeq([n \in DOMAIN frames |->
                                    IF ended(n) THEN <<>> ELSE EventsOf(frames[n], n)])
=============================================================================
