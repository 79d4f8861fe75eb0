----------------------------- MODULE SseBuffer -----------------------------
(***************************************************************************)
(* From the bytes of an upstream's event stream to the payloads that       *)
(* process_upstream_stream_data is given. The body comes in reads that     *)
(* end anywhere, each is decoded by itself, and what is complete is taken  *)
(* from a buffer. The two relays (src/handlers/responses.rs,               *)
(* websocket/create.rs) do that frame by frame for a client; the drain     *)
(* (src/upstream.rs) does it for a compaction. SseStream and WsConnection  *)
(* begin where this ends: with a read's whole frames.                      *)
(***************************************************************************)
EXTENDS Integers, Sequences, FiniteSets, SequencesExt

CONSTANT Bodies      \* what the upstream may send

\* "data:" and "event:" begin a line, "a" is a character of one byte, "x1" and
\* "x2" are the bytes of another, "nl" ends a line.
Byte == {"data:", "event:", "a", "x1", "x2", "nl"}

\* "?" stands for bytes that are no character.
Char == {"data:", "event:", "a", "x", "?", "nl"}

ASSUME SseBufferAssumption == \A b \in Bodies :
    /\ b \in Seq(Byte)
    /\ \A i \in DOMAIN b : b[i] = "x1" => i < Len(b) /\ b[i + 1] = "x2"
    /\ \A i \in DOMAIN b : b[i] = "x2" => i > 1 /\ b[i - 1] = "x1"

VARIABLES
    body,     \* what the upstream sends
    reader,   \* who reads it
    at,       \* the bytes read
    buf,      \* what was decoded and not yet taken
    fed,      \* the payloads handed on
    over      \* how it ended

vars == <<body, reader, at, buf, fed, over>>

-----------------------------------------------------------------------------
(* The buffer                                                              *)

\* String::from_utf8_lossy of one read.
Lossy(bytes) ==
    LET char(i) ==
            CASE bytes[i] = "x1" -> IF i < Len(bytes) THEN <<"x">> ELSE <<"?">>
              [] bytes[i] = "x2" -> IF i > 1 THEN <<>> ELSE <<"?">>
              [] OTHER           -> <<bytes[i]>>
    IN  FlattenSeq([i \in DOMAIN bytes |-> char(i)])

\* Where two lines end at once.
Blanks(text) ==
    {i \in 1..(Len(text) - 1) : text[i] = "nl" /\ text[i + 1] = "nl"}

\* The first line that begins with "data:"; trimming the frame removes empty
\* lines only.
Payload(frame) ==
    LET starts == {i \in DOMAIN frame : frame[i] = "data:" /\ (i > 1 => frame[i - 1] = "nl")}
        start == Min(starts)
        ends == {i \in DOMAIN frame : i > start /\ frame[i] = "nl"}
        end == IF ends = {} THEN Len(frame) ELSE Min(ends) - 1
    IN  IF starts = {} THEN <<>> ELSE <<SubSeq(frame, start + 1, end)>>

\* Mutant: one frame is taken per read.
drain_sse_buffer_Once(text) ==
    LET end == Min(Blanks(text)) IN
    IF Blanks(text) = {} THEN [taken |-> <<>>, rest |-> text]
    ELSE [taken |-> Payload(SubSeq(text, 1, end - 1)), rest |-> SubSeq(text, end + 2, Len(text))]

\* Mutant: the end of the last frame is taken for the end of the first.
drain_sse_buffer_Last(text) ==
    LET end == Max(Blanks(text)) IN
    IF Blanks(text) = {} THEN [taken |-> <<>>, rest |-> text]
    ELSE [taken |-> Payload(SubSeq(text, 1, end - 1)), rest |-> SubSeq(text, end + 2, Len(text))]

\* Takes every complete frame; what follows the last stays in the buffer.
drain_sse_buffer(text) ==
    LET from[start \in 1..(Len(text) + 1)] ==
            LET ends == {i \in Blanks(text) : i >= start}
                end == Min(ends)
            IN  IF ends = {} THEN [taken |-> <<>>, rest |-> SubSeq(text, start, Len(text))]
                ELSE [from[end + 2] EXCEPT
                        !.taken = Payload(SubSeq(text, start, end - 1)) \o @]
    IN  from[1]

-----------------------------------------------------------------------------
(* The readers                                                             *)

Init ==
    /\ body \in Bodies
    /\ reader \in {"relay", "drain"}
    /\ at = 0 /\ buf = <<>> /\ fed = <<>> /\ over = "no"

\* A read ends anywhere, also inside a character.
Read ==
    /\ over = "no"
    /\ \E to \in (at + 1)..Len(body) :
          LET buffer == drain_sse_buffer(buf \o Lossy(SubSeq(body, at + 1, to))) IN
          /\ at' = to
          /\ buf' = buffer.rest
          /\ fed' = fed \o buffer.taken
    /\ UNCHANGED <<body, reader, over>>

\* What a reader takes from the buffer at the end of the body.
Trailing(text) == IF reader = "drain" THEN Payload(text) ELSE <<>>

End ==
    /\ over = "no" /\ at = Len(body)
    /\ over' = "end"
    /\ fed' = fed \o Trailing(buf)
    /\ UNCHANGED <<body, reader, at, buf>>

\* The connection breaks or times out. A relay ends as at the end of the body,
\* a drain fails and what it was fed goes with it.
Break ==
    /\ over = "no"
    /\ over' = "broken"
    /\ fed' = IF reader = "drain" THEN <<>> ELSE fed
    /\ UNCHANGED <<body, reader, at, buf>>

Next == Read \/ End \/ Break

Spec == Init /\ [][Next]_vars

-----------------------------------------------------------------------------
(* Properties                                                              *)

\* Nothing that is complete waits for another read.
TypeOK ==
    /\ body \in Bodies /\ reader \in {"relay", "drain"} /\ over \in {"no", "end", "broken"}
    /\ at \in 0..Len(body)
    /\ buf \in Seq(Char) /\ Blanks(buf) = {}
    /\ fed \in Seq(Seq(Char))

\* Where the payloads of a text begin, frames being separated by empty lines:
\* behind the first "data:" of each.
Starts(text) ==
    LET lines == {i \in DOMAIN text : text[i] = "data:" /\ (i > 1 => text[i - 1] = "nl")} IN
    {i \in lines : \A j \in lines : j < i => \E k \in Blanks(text) : j < k /\ k < i}

\* p is q, but for characters that a read may have cut in two.
Blurred(p, q) ==
    \E cut \in SUBSET {i \in DOMAIN q : q[i] = "x"} :
        p = FlattenSeq([i \in DOMAIN q |-> IF i \in cut THEN <<"?", "?">> ELSE <<q[i]>>])

\* However the body is cut into reads, what is handed on is the payloads of the
\* frames read so far, each once, in order, and intact but for a character that
\* a read has cut; and at the end, for the drain, of the frame that has no
\* empty line after it.
FedAsSent ==
    LET text == Lossy(body)
        got == Lossy(SubSeq(body, 1, at))
        read(i) == i <= Len(got) /\ \E k \in Blanks(got) : k > i
        due == {i \in Starts(text) : read(i) \/ (over = "end" /\ reader = "drain")}
        nth(k) == CHOOSE i \in due : Cardinality({j \in due : j <= i}) = k
        line(i) == SelectInSubSeq(text, i + 1, Len(text), LAMBDA c : c = "nl")
        sent(k) == LET i == nth(k) IN
                   SubSeq(text, i + 1, IF line(i) = 0 THEN Len(text) ELSE line(i) - 1)
    IN  IF over = "broken" /\ reader = "drain" THEN fed = <<>>
        ELSE /\ Len(fed) = Cardinality(due)
             /\ \A k \in DOMAIN fed : Blurred(fed[k], sent(k))
=============================================================================
