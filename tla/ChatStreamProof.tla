---------------------------- MODULE ChatStreamProof ----------------------------
(***************************************************************************)
(* The streaming state machine, for every number of slots and chunks: the  *)
(* events it emits are well-formed, they implement ItemProtocol, no text   *)
(* is lost, and what is persisted of any prefix is whole.                  *)
(***************************************************************************)
EXTENDS ChatStream, SequenceLemmas, FiniteSetTheorems

USE ChatStreamAssumption

\* Both handlers send the two lifecycle events themselves.
Transport == TransportStarts = TRUE

\* What the upstream keeps to: a call that text has followed is over, and no
\* delta has an empty id.
Contract ==
    /\ ~ToolsResumeAfterText
    /\ \A c \in Chunks : \A j \in DOMAIN c.tools : c.tools[j].id # "empty"

-----------------------------------------------------------------------------
(* Types                                                                   *)

Types == {"item_added", "part_added", "delta", "content_done", "part_done", "item_done"}

AnEvent == [type : Types \cup {"created", "in_progress"}, index : Int,
            kind : Kinds \cup {"response"}, data : Seq(PieceType), seq : Nat]

Plain == [type : Types \cup {"created", "in_progress"}, index : Int,
          kind : Kinds \cup {"response"}, data : Seq(PieceType)]

AnItem == [kind : Kinds, index : Nat, slot : Int, data : Seq(PieceType),
           refused : BOOLEAN, logprobs : Seq(PieceType)]

ASlot == [id : {"", "call"}, arguments : Seq(PieceType), output_index : Nat,
          is_custom : BOOLEAN]

AState ==
    [reasoning_content : Seq(PieceType), reasoning_output_index : Nat,
     accumulated_text : Seq(PieceType), msg_output_index : Nat,
     has_refusal : BOOLEAN, text_logprobs : Seq(PieceType),
     tool_calls : [Slots -> ASlot],
     completed_items : Seq(AnItem),
     finish_reason : {"none", "stop", "length", "content_filter"}, usage : BOOLEAN,
     has_started : BOOLEAN,
     next_output_index : Nat, next_sequence_number : Nat,
     log : Seq(AnEvent)]

-----------------------------------------------------------------------------
(* Logs                                                                    *)

\* A log of events, of which the deltas have pieces.
IsLog(log) ==
    /\ log \in Seq({log[a] : a \in DOMAIN log})
    /\ \A a \in DOMAIN log : log[a].type = "delta" => log[a].data \in Seq(PieceType)

Fits(e) == e.type = "delta" => e.data \in Seq(PieceType)

\* What one event adds to the deltas of index i.
DeltaAt(e, i) == IF e.index = i /\ e.type = "delta" THEN e.data ELSE <<>>

LEMMA AppendLog ==
    ASSUME NEW log, IsLog(log), NEW e, Fits(e)
    PROVE  /\ IsLog(Append(log, e)) /\ Len(log) \in Nat /\ DOMAIN log = 1..Len(log)
           /\ DOMAIN Append(log, e) = 1..(Len(log) + 1)
           /\ Len(Append(log, e)) = Len(log) + 1
           /\ Append(log, e)[Len(log) + 1] = e
           /\ \A a \in DOMAIN log : Append(log, e)[a] = log[a]
           /\ IsPrefix(log, Append(log, e))
<1> DEFINE S == {log[a] : a \in DOMAIN log} \cup {e}
           new == Append(log, e)
<1>1. log \in Seq({log[a] : a \in DOMAIN log})
  BY DEF IsLog
<1>2. log \in Seq(S) /\ e \in S
  <2>1. {log[a] : a \in DOMAIN log} \subseteq S
    OBVIOUS
  <2> HIDE DEF S
  <2>2. \A T : T \subseteq S => Seq(T) \subseteq Seq(S)
    OBVIOUS
  <2>3. e \in S
    BY DEF S
  <2> QED BY <1>1, <2>1, <2>2, <2>3
<1> HIDE DEF S
<1>3. /\ Len(log) \in Nat /\ DOMAIN log = 1..Len(log)
      /\ new \in Seq(S) /\ Len(new) = Len(log) + 1 /\ DOMAIN new = 1..(Len(log) + 1)
      /\ new[Len(log) + 1] = e
      /\ \A a \in 1..Len(log) : new[a] = log[a]
  BY <1>2
<1>4. new \in Seq({new[a] : a \in DOMAIN new})
  BY <1>3
<1>5. \A a \in DOMAIN new : new[a].type = "delta" => new[a].data \in Seq(PieceType)
  <2> TAKE a \in DOMAIN new
  <2>1. a \in DOMAIN log \/ new[a] = e
    BY <1>3
  <2> QED BY <1>3, <2>1 DEF IsLog, Fits
<1>6. IsPrefix(log, new)
  <2>1. <<e>> \in Seq(S) /\ new = log \o <<e>>
    BY <1>2
  <2> HIDE DEF new
  <2> QED BY <1>2, <2>1, PrefixIsConcat
<1> QED BY <1>3, <1>4, <1>5, <1>6 DEF IsLog

LEMMA AppendDeltas ==
    ASSUME NEW log, IsLog(log), NEW e, Fits(e), NEW i
    PROVE  /\ DeltasAt(Append(log, e), i) = DeltasAt(log, i) \o DeltaAt(e, i)
           /\ DeltasAt(log, i) \in Seq(PieceType)
<1> DEFINE new == Append(log, e)
           parts == [a \in DOMAIN log |-> DeltaAt(log[a], i)]
           all == [a \in DOMAIN new |-> DeltaAt(new[a], i)]
<1>1. /\ Len(log) \in Nat /\ DOMAIN log = 1..Len(log)
      /\ DOMAIN new = 1..(Len(log) + 1) /\ new[Len(log) + 1] = e
      /\ \A a \in DOMAIN log : new[a] = log[a]
  BY AppendLog
<1>2. /\ \A a \in DOMAIN log : DeltaAt(log[a], i) \in Seq(PieceType)
      /\ DeltaAt(e, i) \in Seq(PieceType)
  BY DEF DeltaAt, IsLog, Fits
<1> HIDE DEF new
<1> DEFINE last == DeltaAt(e, i)
<1>3. parts \in Seq(Seq(PieceType)) /\ Len(parts) = Len(log)
  BY <1>1, <1>2
<1>4. all = Append(parts, last)
  <2>1. \A a \in 1..(Len(log) + 1) : all[a] = Append(parts, last)[a]
    <3> TAKE a \in 1..(Len(log) + 1)
    <3>1. CASE a = Len(log) + 1
      BY <1>1, <1>2, <1>3, <3>1
    <3>2. CASE a # Len(log) + 1
      BY <1>1, <1>2, <1>3, <3>2
    <3> QED BY <3>1, <3>2
  <2> QED BY <1>1, <1>2, <1>3, <2>1
<1>5. FlattenSeq(all) = FlattenSeq(parts) \o last /\ FlattenSeq(parts) \in Seq(PieceType)
  <2> HIDE DEF parts, all, last
  <2>1. last \in Seq(PieceType)
    BY <1>2 DEF last
  <2>2. FlattenSeq(Append(parts, last)) = FlattenSeq(parts) \o last
    BY <1>3, <2>1, FlattenAppend
  <2> QED BY <1>3, <1>4, <2>2, FlattenType
<1> QED BY <1>5, Zenon DEF DeltasAt, DeltaAt, new

-----------------------------------------------------------------------------
(* The life of an item, as its events tell it                              *)

\* The events of index i are of this kind, begin with item_added, are in order
\* and have come as far as rank r.
Grammar(log, i, kind, r) ==
    /\ \E a \in EventsAt(log, i) : log[a].type = "item_added"
    /\ \A a \in EventsAt(log, i) :
          log[a].kind = kind /\ log[a].type \in Types /\ Rank(log[a].type) <= r
    /\ \A a, b \in EventsAt(log, i) : a < b =>
          /\ Rank(log[a].type) <= Rank(log[b].type)
          /\ log[a].type = log[b].type => log[a].type = "delta"

LEMMA Ranks ==
    /\ Rank("item_added") = 1 /\ Rank("part_added") = 2 /\ Rank("delta") = 3
    /\ Rank("content_done") = 4 /\ Rank("part_done") = 5 /\ Rank("item_done") = 6
    /\ \A type \in Types : Rank(type) \in 1..6
BY DEF Rank, Types

\* new is log and events of index i.
LogStep(log, new, i) ==
    /\ IsLog(log) /\ IsLog(new) /\ Len(log) \in Nat /\ Len(new) \in Nat /\ Len(log) <= Len(new)
    /\ DOMAIN log = 1..Len(log) /\ DOMAIN new = 1..Len(new)
    /\ \A a \in DOMAIN log : new[a] = log[a]
    /\ \A a \in DOMAIN new : a \notin DOMAIN log => new[a].index = i
    /\ \A j : j # i => DeltasAt(new, j) = DeltasAt(log, j)

LEMMA AppendSteps ==
    ASSUME NEW log, IsLog(log), NEW e, Fits(e)
    PROVE  LogStep(log, Append(log, e), e.index)
<1>1. /\ IsLog(Append(log, e)) /\ Len(log) \in Nat /\ DOMAIN log = 1..Len(log)
      /\ DOMAIN Append(log, e) = 1..(Len(log) + 1)
      /\ Len(Append(log, e)) = Len(log) + 1
      /\ Append(log, e)[Len(log) + 1] = e
      /\ \A a \in DOMAIN log : Append(log, e)[a] = log[a]
  BY AppendLog
<1> DEFINE new == Append(log, e)
<1>2. ASSUME NEW j, j # e.index PROVE DeltasAt(new, j) = DeltasAt(log, j)
  <2>1. DeltaAt(e, j) = <<>>
    BY <1>2 DEF DeltaAt
  <2>2. DeltasAt(new, j) = DeltasAt(log, j) \o DeltaAt(e, j) /\ DeltasAt(log, j) \in Seq(PieceType)
    BY AppendDeltas
  <2> QED BY <2>1, <2>2
<1> HIDE DEF new
<1>3. \A a \in DOMAIN new : a \notin DOMAIN log => new[a].index = e.index
  BY <1>1 DEF new
<1> QED BY <1>1, <1>2, <1>3 DEF LogStep, new

LEMMA StepsCompose ==
    ASSUME NEW log, NEW mid, NEW new, NEW i, LogStep(log, mid, i), LogStep(mid, new, i)
    PROVE  LogStep(log, new, i)
<1>1. \A a \in DOMAIN log : a \in DOMAIN mid /\ new[a] = log[a]
  BY DEF LogStep
<1>2. \A a \in DOMAIN new : a \notin DOMAIN log => new[a].index = i
  BY DEF LogStep
<1>3. \A j : j # i => DeltasAt(new, j) = DeltasAt(log, j)
  BY DEF LogStep
<1> QED BY <1>1, <1>2, <1>3 DEF LogStep

\* The events of the other indexes are the same.
LEMMA StepElsewhere ==
    ASSUME NEW log, NEW new, NEW i, LogStep(log, new, i), NEW j, j # i
    PROVE  /\ EventsAt(new, j) = EventsAt(log, j)
           /\ \A a \in EventsAt(log, j) : new[a] = log[a]
           /\ DeltasAt(new, j) = DeltasAt(log, j)
           /\ \A kind, r : Grammar(log, j, kind, r) => Grammar(new, j, kind, r)
<1>1. EventsAt(new, j) = EventsAt(log, j) /\ \A a \in EventsAt(log, j) : new[a] = log[a]
  BY DEF LogStep, EventsAt
<1>2. \A kind, r : Grammar(log, j, kind, r) => Grammar(new, j, kind, r)
  BY <1>1 DEF Grammar
<1> QED BY <1>1, <1>2 DEF LogStep

\* The first event of an index.
LEMMA GrammarBegins ==
    ASSUME NEW log, IsLog(log), NEW e, Fits(e), EventsAt(log, e.index) = {}, e.type = "item_added"
    PROVE  Grammar(Append(log, e), e.index, e.kind, 1)
<1> DEFINE new == Append(log, e)
           n == Len(log) + 1
<1>1. /\ DOMAIN new = 1..n /\ new[n] = e /\ Len(log) \in Nat /\ DOMAIN log = 1..Len(log)
      /\ \A a \in DOMAIN log : new[a] = log[a]
  BY AppendLog
<1> HIDE DEF new
<1>2. EventsAt(new, e.index) = {n}
  BY <1>1 DEF EventsAt
<1>3. Grammar(new, e.index, e.kind, 1)
  BY <1>1, <1>2, Ranks DEF Grammar, Types
<1> QED BY <1>3 DEF new

\* One more event, later in order, or one more delta.
LEMMA GrammarGrows ==
    ASSUME NEW log, IsLog(log), NEW e, Fits(e), e.type \in Types, NEW r \in Nat,
           Grammar(log, e.index, e.kind, r),
           r < Rank(e.type) \/ (r = 3 /\ e.type = "delta")
    PROVE  Grammar(Append(log, e), e.index, e.kind, Rank(e.type))
<1> DEFINE new == Append(log, e)
           n == Len(log) + 1
           i == e.index
<1>1. /\ DOMAIN new = 1..n /\ new[n] = e /\ Len(log) \in Nat /\ DOMAIN log = 1..Len(log)
      /\ \A a \in DOMAIN log : new[a] = log[a]
  BY AppendLog
<1> HIDE DEF new
<1>2. /\ EventsAt(new, i) = EventsAt(log, i) \cup {n}
      /\ \A a \in EventsAt(log, i) : new[a] = log[a] /\ a < n /\ a \in Nat
  BY <1>1 DEF EventsAt
<1>3. \E a \in EventsAt(new, i) : new[a].type = "item_added"
  BY <1>2 DEF Grammar
<1>4. \A a \in EventsAt(log, i) :
         Rank(log[a].type) <= r /\ Rank(log[a].type) \in 1..6 /\ log[a].type \in Types
  BY Ranks DEF Grammar
<1>5. Rank(e.type) \in 1..6 /\ r <= Rank(e.type)
  BY Ranks
<1>6. \A a \in EventsAt(new, i) :
         new[a].kind = e.kind /\ new[a].type \in Types /\ Rank(new[a].type) <= Rank(e.type)
  <2> TAKE a \in EventsAt(new, i)
  <2>1. CASE a \in EventsAt(log, i)
    BY <1>2, <1>4, <1>5, <2>1 DEF Grammar
  <2>2. CASE a = n
    BY <1>1, <1>5, <2>2
  <2> QED BY <1>2, <2>1, <2>2
<1>7. ASSUME NEW a \in EventsAt(new, i), NEW b \in EventsAt(new, i), a < b
      PROVE  /\ Rank(new[a].type) <= Rank(new[b].type)
             /\ new[a].type = new[b].type => new[a].type = "delta"
  <2>1. a \in EventsAt(log, i) /\ new[a] = log[a]
    BY <1>1, <1>2, <1>7 DEF EventsAt
  <2>2. CASE b \in EventsAt(log, i)
    BY <1>2, <1>7, <2>1, <2>2 DEF Grammar
  <2>3. CASE b = n
    <3>1. Rank(new[a].type) <= r /\ Rank(new[a].type) \in 1..6
      BY <1>4, <2>1
    <3>2. new[b] = e
      BY <1>1, <2>3
    <3>3. new[a].type = e.type => new[a].type = "delta"
      BY <1>5, <3>1
    <3> QED BY <1>5, <3>1, <3>2, <3>3
  <2> QED BY <1>2, <2>2, <2>3
<1>8. Grammar(new, i, e.kind, Rank(e.type))
  BY <1>3, <1>6, <1>7 DEF Grammar
<1> QED BY <1>8 DEF new

-----------------------------------------------------------------------------
(* Emitting                                                                *)

Num(e, q) == [type |-> e.type, index |-> e.index, kind |-> e.kind, data |-> e.data, seq |-> q]

With(s, log, number) == [s EXCEPT !.log = log, !.next_sequence_number = number]

\* t is s with another log.
Grown(s, t) == t = With(s, t.log, t.next_sequence_number)

LEMMA WithTwice ==
    ASSUME NEW s, NEW l1, NEW n1, NEW l2, NEW n2
    PROVE  With(With(s, l1, n1), l2, n2) = With(s, l2, n2)
BY Zenon DEF With

LEMMA WithIs ==
    ASSUME NEW s \in AState, NEW log, NEW number
    PROVE  With(s, log, number).log = log /\ With(s, log, number).next_sequence_number = number
BY DEF With, AState

LEMMA GrownTwice ==
    ASSUME NEW s, NEW t, NEW u, Grown(s, t), Grown(t, u)
    PROVE  Grown(s, u)
<1> DEFINE l1 == t.log
           n1 == t.next_sequence_number
           l2 == u.log
           n2 == u.next_sequence_number
<1>1. t = With(s, l1, n1) /\ u = With(t, l2, n2)
  BY DEF Grown
<1> HIDE DEF l1, n1, l2, n2
<1>2. u = With(s, l2, n2)
  BY <1>1, WithTwice
<1> QED BY <1>2 DEF Grown, l2, n2

LEMMA EmitIs ==
    ASSUME NEW s \in AState, NEW e
    PROVE  Emit(s, e) = With(s, Append(s.log, Num(e, s.next_sequence_number)),
                             s.next_sequence_number + 1)
<1> DEFINE q == s.next_sequence_number
           one == [k \in DOMAIN <<e>> |->
                       [type |-> <<e>>[k].type, index |-> <<e>>[k].index,
                        kind |-> <<e>>[k].kind, data |-> <<e>>[k].data, seq  |-> q + k - 1]]
<1>1. one = <<Num(e, q)>>
  BY DEF Num, AState
<1>2. s.log \o <<Num(e, q)>> = Append(s.log, Num(e, q))
  BY DEF AState
<1>3. Emit(s, e) = [s EXCEPT !.log = @ \o one, !.next_sequence_number = @ + Len(<<e>>)]
  BY DEF Emit, EmitAll
<1> HIDE DEF one
<1>4. Len(<<e>>) = 1
  OBVIOUS
<1> QED BY <1>1, <1>2, <1>3, <1>4 DEF With

LEMMA EmitTyped ==
    ASSUME NEW s \in AState, NEW e \in Plain
    PROVE  /\ Emit(s, e) \in AState
           /\ Emit(s, e).log = Append(s.log, Num(e, s.next_sequence_number))
           /\ Emit(s, e).next_sequence_number = s.next_sequence_number + 1
<1> DEFINE L == Append(s.log, Num(e, s.next_sequence_number))
           q == s.next_sequence_number + 1
<1>1. Num(e, s.next_sequence_number) \in AnEvent
  BY DEF Num, Plain, AnEvent, AState
<1>2. L \in Seq(AnEvent)
  BY <1>1 DEF AState
<1>3. q \in Nat
  BY DEF AState
<1>4. Emit(s, e) = With(s, L, q)
  BY EmitIs
<1> HIDE DEF L, q
<1>5. With(s, L, q) \in AState
  BY <1>2, <1>3 DEF With, AState
<1>6. With(s, L, q).log = L /\ With(s, L, q).next_sequence_number = q
  BY WithIs
<1> QED BY <1>4, <1>5, <1>6 DEF L, q

LEMMA EmitTwo ==
    ASSUME NEW s \in AState, NEW d \in Plain, NEW e
    PROVE  EmitAll(s, <<d, e>>) = Emit(Emit(s, d), e)
<1> DEFINE q == s.next_sequence_number
           two == [k \in DOMAIN <<d, e>> |->
                       [type |-> <<d, e>>[k].type, index |-> <<d, e>>[k].index,
                        kind |-> <<d, e>>[k].kind, data |-> <<d, e>>[k].data,
                        seq  |-> q + k - 1]]
           x == Num(d, q)
           y == Num(e, q + 1)
<1>0. q \in Nat /\ s.log \in Seq(AnEvent)
  BY DEF AState
<1>1. two = <<x, y>>
  BY <1>0 DEF Num
<1>2. EmitAll(s, <<d, e>>) = [s EXCEPT !.log = @ \o two, !.next_sequence_number = @ + Len(<<d, e>>)]
  BY DEF EmitAll
<1>3. EmitAll(s, <<d, e>>) = With(s, s.log \o <<x, y>>, q + 2)
  <2>1. Len(<<d, e>>) = 2
    OBVIOUS
  <2> HIDE DEF two, x, y
  <2> QED BY <1>1, <1>2, <2>1 DEF With
<1> DEFINE s1 == Emit(s, d)
           L1 == Append(s.log, x)
           L2 == Append(L1, y)
<1>4. s1 = With(s, L1, q + 1) /\ s1 \in AState
  BY EmitIs, EmitTyped
<1>5. s1.log = L1 /\ s1.next_sequence_number = q + 1
  BY EmitTyped
<1>6. Emit(s1, e) = With(s1, L2, q + 1 + 1)
  BY <1>4, <1>5, EmitIs
<1>7. q + 1 + 1 = q + 2
  BY <1>0
<1>8. s.log \o <<x, y>> = Append(Append(s.log, x), y)
  <2> HIDE DEF x, y
  <2> DEFINE S == AnEvent \cup {x, y}
  <2>1. s.log \in Seq(S) /\ x \in S /\ y \in S
    BY <1>0
  <2> HIDE DEF S
  <2> QED BY <2>1
<1>9. With(With(s, L1, q + 1), L2, q + 2) = With(s, L2, q + 2)
  <2> HIDE DEF q, L1, L2
  <2> QED BY WithTwice
<1>10. Emit(s1, e) = With(s, L2, q + 2)
  <2> HIDE DEF x, y, q, L1, L2, s1
  <2> QED BY <1>4, <1>6, <1>7, <1>9
<1> QED BY <1>3, <1>8, <1>10

LEMMA EmitThree ==
    ASSUME NEW s \in AState, NEW c \in Plain, NEW d \in Plain, NEW e
    PROVE  EmitAll(s, <<c, d, e>>) = Emit(Emit(Emit(s, c), d), e)
<1> DEFINE q == s.next_sequence_number
           three == [k \in DOMAIN <<c, d, e>> |->
                       [type |-> <<c, d, e>>[k].type, index |-> <<c, d, e>>[k].index,
                        kind |-> <<c, d, e>>[k].kind, data |-> <<c, d, e>>[k].data,
                        seq  |-> q + k - 1]]
           x == Num(c, q)
           y == Num(d, q + 1)
           z == Num(e, q + 2)
           t == EmitAll(s, <<c, d>>)
<1>0. q \in Nat /\ s.log \in Seq(AnEvent)
  BY DEF AState
<1>1. three = <<x, y, z>>
  BY <1>0 DEF Num
<1>2. EmitAll(s, <<c, d, e>>)
        = [s EXCEPT !.log = @ \o three, !.next_sequence_number = @ + Len(<<c, d, e>>)]
  BY DEF EmitAll
<1>3. EmitAll(s, <<c, d, e>>) = With(s, s.log \o <<x, y, z>>, q + 3)
  <2>1. Len(<<c, d, e>>) = 3
    OBVIOUS
  <2> HIDE DEF three, x, y, z
  <2> QED BY <1>1, <1>2, <2>1 DEF With
<1> DEFINE s1 == Emit(s, c)
           s2 == Emit(s1, d)
           L1 == Append(s.log, x)
           L2 == Append(L1, y)
<1>4. s1 = With(s, L1, q + 1) /\ s1 \in AState /\ s1.log = L1 /\ s1.next_sequence_number = q + 1
  BY EmitIs, EmitTyped
<1>5. s2 = With(s1, L2, q + 1 + 1) /\ s2 \in AState /\ s2.log = L2
      /\ s2.next_sequence_number = q + 1 + 1
  BY <1>4, EmitIs, EmitTyped
<1>6. q + 1 + 1 = q + 2 /\ q + 1 + 1 + 1 = q + 3
  BY <1>0
<1>7. Emit(s2, e) = With(s2, Append(L2, z), q + 1 + 1 + 1)
  BY <1>5, <1>6, EmitIs
<1>8. s.log \o <<x, y, z>> = Append(L2, z)
  <2> HIDE DEF x, y, z
  <2> DEFINE S == AnEvent \cup {x, y, z}
  <2>1. s.log \in Seq(S) /\ x \in S /\ y \in S /\ z \in S
    BY <1>0
  <2> HIDE DEF S
  <2> QED BY <2>1
<1>9. With(With(With(s, L1, q + 1), L2, q + 2), Append(L2, z), q + 3) = With(s, Append(L2, z), q + 3)
  <2> HIDE DEF q, L1, L2, z
  <2> QED BY WithTwice
<1>10. Emit(s2, e) = With(s, Append(L2, z), q + 3)
  <2> HIDE DEF x, y, z, q, L1, L2, s1, s2
  <2> QED BY <1>4, <1>5, <1>6, <1>7, <1>9
<1> QED BY <1>3, <1>8, <1>10

-----------------------------------------------------------------------------
(* What every log keeps                                                    *)

\* The item at index i is closed.
Ended(log, i) == \E a \in EventsAt(log, i) : log[a].type = "item_done"

\* log goes on from base: its own events take the numbers from 0 to number - 1, n
\* items were announced, and none that base had closed was touched since.
Kept(base, log, number, n) ==
    /\ log \in Seq(AnEvent) /\ number \in Nat /\ n \in Nat
    /\ Len(log) = number + 2 /\ \A k \in 3..Len(log) : log[k].seq = k - 3
    /\ \A a \in DOMAIN base : a \in DOMAIN log /\ log[a] = base[a]
    /\ IsFiniteSet(Announced(log)) /\ Cardinality(Announced(log)) = n
    /\ \A a \in DOMAIN log : log[a].index \in Int /\ log[a].index < n
    /\ \A i \in Nat : /\ i >= n => DeltasAt(log, i) = <<>>
                      /\ IsPrefix(DeltasAt(base, i), DeltasAt(log, i))
                      /\ DeltasAt(base, i) \in Seq(PieceType)
                      /\ Ended(base, i) => DeltasAt(log, i) = DeltasAt(base, i)

LEMMA LogIs ==
    ASSUME NEW log \in Seq(AnEvent)
    PROVE  IsLog(log) /\ Len(log) \in Nat /\ DOMAIN log = 1..Len(log)
           /\ \A a \in DOMAIN log : log[a] \in AnEvent
<1>1. \A a \in DOMAIN log : log[a] \in AnEvent
  OBVIOUS
<1>2. \A a \in DOMAIN log : log[a].data \in Seq(PieceType)
  BY <1>1 DEF AnEvent
<1> QED BY <1>1, <1>2 DEF IsLog

LEMMA NumIs ==
    ASSUME NEW e \in Plain, NEW q \in Nat
    PROVE  /\ Num(e, q) \in AnEvent /\ Fits(Num(e, q))
           /\ Num(e, q).type = e.type /\ Num(e, q).index = e.index /\ Num(e, q).kind = e.kind
           /\ Num(e, q).data = e.data /\ Num(e, q).seq = q
           /\ \A i : DeltaAt(Num(e, q), i) = DeltaAt(e, i) /\ DeltaAt(e, i) \in Seq(PieceType)
BY DEF Num, Plain, AnEvent, Fits, DeltaAt

LEMMA KeptGrows ==
    ASSUME NEW base, NEW log, NEW q, NEW n, Kept(base, log, q, n),
           NEW e \in Plain, e.index \in Nat, e.type \in Types, ~Ended(log, e.index),
           NEW m, IF e.type = "item_added" THEN e.index = n /\ m = n + 1
                  ELSE e.index < n /\ m = n
    PROVE  Kept(base, Append(log, Num(e, q)), q + 1, m)
<1> DEFINE x == Num(e, q)
           new == Append(log, x)
<1>1. /\ log \in Seq(AnEvent) /\ q \in Nat /\ n \in Nat /\ Len(log) = q + 2
      /\ IsLog(log) /\ Len(log) \in Nat /\ DOMAIN log = 1..Len(log)
  BY LogIs DEF Kept
<1>2. /\ x \in AnEvent /\ Fits(x) /\ x.type = e.type /\ x.index = e.index /\ x.seq = q
      /\ \A i : DeltaAt(x, i) = DeltaAt(e, i) /\ DeltaAt(e, i) \in Seq(PieceType)
  BY <1>1, NumIs
<1> HIDE DEF x
<1>3. /\ DOMAIN new = 1..(Len(log) + 1) /\ Len(new) = Len(log) + 1 /\ new[Len(log) + 1] = x
      /\ \A a \in DOMAIN log : new[a] = log[a]
      /\ new \in Seq(AnEvent)
  BY <1>1, <1>2
<1>4. \A i : DeltasAt(new, i) = DeltasAt(log, i) \o DeltaAt(e, i) /\ DeltasAt(log, i) \in Seq(PieceType)
  BY <1>1, <1>2, AppendDeltas, SMTT(30)
<1> HIDE DEF new
<1>5. m \in Nat /\ n <= m /\ e.index < m
  BY <1>1
<1>6. \A k \in 3..Len(new) : new[k].seq = k - 3
  <2> TAKE k \in 3..Len(new)
  <2>1. CASE k \in 3..Len(log)
    <3>1. log[k].seq = k - 3
      BY <2>1, Zenon DEF Kept
    <3>2. new[k] = log[k]
      BY <1>1, <1>3, <2>1
    <3> QED BY <3>1, <3>2
  <2>2. CASE k = Len(log) + 1
    BY <1>1, <1>2, <1>3, <2>2
  <2> QED BY <1>1, <1>3, <2>1, <2>2
<1>7. \A a \in DOMAIN base : a \in DOMAIN new /\ new[a] = base[a]
  BY <1>1, <1>3 DEF Kept
<1>8. IsFiniteSet(Announced(new)) /\ Cardinality(Announced(new)) = m
  <2>1. IsFiniteSet(Announced(log)) /\ Cardinality(Announced(log)) = n
    BY DEF Kept
  <2>2. CASE e.type = "item_added"
    <3>1. Announced(new) = Announced(log) \cup {Len(log) + 1}
      BY <1>1, <1>2, <1>3, <2>2 DEF Announced
    <3>2. Len(log) + 1 \notin Announced(log)
      BY <1>1 DEF Announced
    <3> QED BY <2>1, <2>2, <3>1, <3>2, FS_AddElement
  <2>3. CASE e.type # "item_added"
    <3>1. Announced(new) = Announced(log)
      BY <1>1, <1>2, <1>3, <2>3 DEF Announced
    <3> QED BY <2>1, <2>3, <3>1
  <2> QED BY <2>2, <2>3
<1>9. \A a \in DOMAIN new : new[a].index \in Int /\ new[a].index < m
  <2> TAKE a \in DOMAIN new
  <2>1. CASE a \in DOMAIN log
    <3>1. log[a].index \in Int /\ log[a].index < n
      BY <2>1, Zenon DEF Kept
    <3> QED BY <1>1, <1>3, <1>5, <2>1, <3>1
  <2>2. CASE a = Len(log) + 1
    BY <1>2, <1>3, <1>5, <2>2
  <2> QED BY <1>1, <1>3, <2>1, <2>2
<1>10. ASSUME NEW i \in Nat
       PROVE  /\ i >= m => DeltasAt(new, i) = <<>>
              /\ IsPrefix(DeltasAt(base, i), DeltasAt(new, i))
              /\ DeltasAt(base, i) \in Seq(PieceType)
              /\ Ended(base, i) => DeltasAt(new, i) = DeltasAt(base, i)
  <2>0. /\ i >= n => DeltasAt(log, i) = <<>>
        /\ IsPrefix(DeltasAt(base, i), DeltasAt(log, i))
        /\ DeltasAt(base, i) \in Seq(PieceType)
        /\ Ended(base, i) => DeltasAt(log, i) = DeltasAt(base, i)
    BY DEF Kept
  <2>1. /\ DeltasAt(new, i) = DeltasAt(log, i) \o DeltaAt(e, i)
        /\ DeltasAt(log, i) \in Seq(PieceType) /\ DeltaAt(e, i) \in Seq(PieceType)
    BY <1>2, <1>4
  <2>2. IsPrefix(DeltasAt(base, i), DeltasAt(new, i))
    <3>1. IsPrefix(DeltasAt(log, i), DeltasAt(new, i)) /\ DeltasAt(new, i) \in Seq(PieceType)
      BY <2>1, PrefixIsConcat
    <3> QED BY <2>0, <2>1, <3>1, PrefixTransitive
  <2>3. CASE i # e.index
    <3>1. DeltasAt(new, i) = DeltasAt(log, i)
      <4>1. DeltaAt(e, i) = <<>>
        BY <2>3 DEF DeltaAt
      <4> QED BY <2>1, <4>1
    <3> QED BY <1>1, <1>5, <2>0, <2>2, <3>1
  <2>4. CASE i = e.index
    <3>1. ~Ended(base, i)
      <4>1. \A a \in EventsAt(base, i) : a \in EventsAt(log, i) /\ log[a] = base[a]
        BY DEF Kept, EventsAt
      <4> QED BY <2>4, <4>1 DEF Ended
    <3>2. ~ (i >= m)
      BY <1>5, <2>4
    <3> QED BY <2>0, <2>2, <3>1, <3>2
  <2> QED BY <2>3, <2>4
<1>11. Len(new) = q + 1 + 2 /\ q + 1 \in Nat
  BY <1>1, <1>3
<1>12. Kept(base, new, q + 1, m)
  BY <1>3, <1>5, <1>6, <1>7, <1>8, <1>9, <1>10, <1>11 DEF Kept
<1> QED BY <1>12 DEF new, x

-----------------------------------------------------------------------------
(* A part of an item's life                                                *)

\* From the log before to the log after come events of index i, whose item is then
\* at rank r with these deltas.
Life(before, log, i, kind, r, data) ==
    /\ LogStep(before, log, i)
    /\ Grammar(log, i, kind, r)
    /\ DeltasAt(log, i) = data /\ data \in Seq(PieceType)

LEMMA NotEnded ==
    ASSUME NEW log, NEW i, NEW kind, NEW r \in Nat, Grammar(log, i, kind, r), r < 6
    PROVE  ~Ended(log, i)
<1>1. \A a \in EventsAt(log, i) : Rank(log[a].type) <= r
  BY DEF Grammar
<1> QED BY <1>1, Ranks DEF Ended

LEMMA Unannounced ==
    ASSUME NEW base, NEW log, NEW q, NEW n, Kept(base, log, q, n)
    PROVE  EventsAt(log, n) = {} /\ ~Ended(log, n)
<1>1. \A a \in DOMAIN log : log[a].index < n /\ log[a].index \in Int /\ n \in Nat
  BY DEF Kept
<1>2. \A a \in DOMAIN log : log[a].index # n
  BY <1>1
<1> QED BY <1>2 DEF EventsAt, Ended

LEMMA LifeRests ==
    ASSUME NEW log \in Seq(AnEvent), NEW i, NEW kind, NEW r, NEW data,
           Grammar(log, i, kind, r), DeltasAt(log, i) = data
    PROVE  Life(log, log, i, kind, r, data)
<1>1. IsLog(log) /\ Len(log) \in Nat /\ DOMAIN log = 1..Len(log)
  BY LogIs
<1>2. <<>> \in Seq(PieceType) /\ Fits([type |-> "x"])
  BY DEF Fits
<1>3. DeltasAt(log, i) \in Seq(PieceType)
  BY <1>1, <1>2, AppendDeltas
<1>4. LogStep(log, log, i)
  BY <1>1 DEF LogStep
<1> QED BY <1>3, <1>4 DEF Life

LEMMA LifeBegins ==
    ASSUME NEW base, NEW log, NEW q, NEW n, Kept(base, log, q, n),
           NEW e \in Plain, e.index = n, e.type = "item_added"
    PROVE  /\ Life(log, Append(log, Num(e, q)), n, e.kind, 1, <<>>)
           /\ Kept(base, Append(log, Num(e, q)), q + 1, n + 1)
<1>1. log \in Seq(AnEvent) /\ IsLog(log) /\ q \in Nat /\ n \in Nat
  BY LogIs DEF Kept
<1>2. /\ Fits(Num(e, q)) /\ Num(e, q).type = "item_added" /\ Num(e, q).index = n
      /\ Num(e, q).kind = e.kind /\ DeltaAt(Num(e, q), n) = DeltaAt(e, n)
  BY <1>1, NumIs
<1>3. EventsAt(log, n) = {} /\ ~Ended(log, n)
  BY Unannounced
<1>4. LogStep(log, Append(log, Num(e, q)), n)
  BY <1>1, <1>2, AppendSteps
<1>5. Grammar(Append(log, Num(e, q)), n, e.kind, 1)
  BY <1>1, <1>2, <1>3, GrammarBegins
<1>6. DeltasAt(Append(log, Num(e, q)), n) = <<>> /\ <<>> \in Seq(PieceType)
  <2>1. DeltasAt(log, n) = <<>>
    BY <1>1 DEF Kept
  <2>2. DeltaAt(e, n) = <<>>
    BY DEF DeltaAt
  <2>3. DeltasAt(Append(log, Num(e, q)), n) = DeltasAt(log, n) \o DeltaAt(Num(e, q), n)
    <3> DEFINE x == Num(e, q)
    <3>1. Fits(x)
      BY <1>2
    <3> HIDE DEF x
    <3>2. DeltasAt(Append(log, x), n) = DeltasAt(log, n) \o DeltaAt(x, n)
      BY <1>1, <3>1, AppendDeltas
    <3> QED BY <3>2 DEF x
  <2>4. <<>> \o <<>> = <<>> /\ <<>> \in Seq(PieceType)
    OBVIOUS
  <2> QED BY <1>2, <2>1, <2>2, <2>3, <2>4
<1>7. Kept(base, Append(log, Num(e, q)), q + 1, n + 1)
  <2>1. e.type \in Types
    BY DEF Types
  <2> QED BY <1>1, <1>3, <2>1, KeptGrows
<1> QED BY <1>4, <1>5, <1>6, <1>7 DEF Life

LEMMA LifeGoesOn ==
    ASSUME NEW base, NEW log, NEW q, NEW n, Kept(base, log, q, n),
           NEW before, NEW e \in Plain, NEW r \in Nat, NEW data,
           Life(before, log, e.index, e.kind, r, data), e.index \in Nat, e.index < n,
           e.type \in Types \ {"item_added"}, r < 6, r < Rank(e.type) \/ (r = 3 /\ e.type = "delta")
    PROVE  /\ Life(before, Append(log, Num(e, q)), e.index, e.kind, Rank(e.type),
                   IF e.type = "delta" THEN data \o e.data ELSE data)
           /\ Kept(base, Append(log, Num(e, q)), q + 1, n)
<1> DEFINE i == e.index
           x == Num(e, q)
           new == Append(log, x)
           after == IF e.type = "delta" THEN data \o e.data ELSE data
<1>1. log \in Seq(AnEvent) /\ IsLog(log) /\ q \in Nat /\ n \in Nat
  BY LogIs DEF Kept
<1>2. /\ Fits(x) /\ x.type = e.type /\ x.index = i /\ x.kind = e.kind
      /\ DeltaAt(x, i) = DeltaAt(e, i) /\ DeltaAt(e, i) \in Seq(PieceType)
  BY <1>1, NumIs
<1> HIDE DEF x
<1>3. LogStep(before, log, i) /\ Grammar(log, i, e.kind, r)
      /\ DeltasAt(log, i) = data /\ data \in Seq(PieceType)
  BY DEF Life
<1>4. LogStep(before, new, i)
  <2>1. LogStep(log, new, i)
    BY <1>1, <1>2, AppendSteps
  <2> HIDE DEF new
  <2> QED BY <1>3, <2>1, StepsCompose
<1>5. Grammar(new, i, e.kind, Rank(e.type))
  <2>1. Grammar(log, x.index, x.kind, r) /\ x.type \in Types
    BY <1>2, <1>3
  <2>2. r < Rank(x.type) \/ (r = 3 /\ x.type = "delta")
    BY <1>2
  <2>3. Grammar(new, x.index, x.kind, Rank(x.type))
    BY <1>1, <1>2, <2>1, <2>2, GrammarGrows
  <2> HIDE DEF new
  <2> QED BY <1>2, <2>3
<1>6. DeltasAt(new, i) = after /\ after \in Seq(PieceType)
  <2>0. DeltasAt(new, i) = DeltasAt(log, i) \o DeltaAt(x, i)
    BY <1>1, <1>2, AppendDeltas
  <2>1. DeltasAt(new, i) = data \o DeltaAt(e, i)
    BY <1>2, <1>3, <2>0
  <2>2. CASE e.type = "delta"
    BY <1>2, <1>3, <2>1, <2>2 DEF DeltaAt
  <2>3. CASE e.type # "delta"
    <3>1. DeltaAt(e, i) = <<>>
      BY <2>3 DEF DeltaAt
    <3> QED BY <1>3, <2>1, <2>3, <3>1
  <2> QED BY <2>2, <2>3
<1>7. Kept(base, new, q + 1, n)
  <2>1. ~Ended(log, i)
    BY <1>3, NotEnded
  <2>2. e.type \in Types /\ e.type # "item_added"
    OBVIOUS
  <2>3. Kept(base, Append(log, Num(e, q)), q + 1, n)
    BY <2>1, <2>2, KeptGrows
  <2> QED BY <2>3 DEF x
<1>8. Life(before, new, i, e.kind, Rank(e.type), after)
  BY <1>4, <1>5, <1>6 DEF Life
<1> QED BY <1>7, <1>8 DEF x

-----------------------------------------------------------------------------
(* Who has an item open                                                    *)

\* The accumulators: -2 has the reasoning, -1 the message, the others a tool call.
Names == (-2)..(SlotCount - 1)

\* Whether an accumulator has an item open, at which index, and what the client has
\* been told of it.
Hand(s, x) ==
    IF x = -2 THEN [open |-> s.reasoning_content # <<>>, at |-> s.reasoning_output_index,
                    kind |-> "reasoning", data |-> s.reasoning_content]
    ELSE IF x = -1 THEN [open |-> s.accumulated_text # <<>>, at |-> s.msg_output_index,
                         kind |-> "message", data |-> s.accumulated_text]
    ELSE [open |-> s.tool_calls[x].id # "", at |-> s.tool_calls[x].output_index,
          kind |-> ToolKind(s.tool_calls[x].is_custom),
          data |-> IF s.tool_calls[x].is_custom THEN <<>> ELSE s.tool_calls[x].arguments]

OpenAt(log, i, kind, data) ==
    /\ Grammar(log, i, kind, 3)
    /\ Contract => DeltasAt(log, i) = data

ClosedAt(log, i) ==
    /\ \E kind : Grammar(log, i, kind, 6)
    /\ Ended(log, i)
    /\ Contract => \A a \in EventsAt(log, i) :
                      log[a].type = "item_done" => log[a].data = DeltasAt(log, i)

\* Nobody has the item open: it is closed, or the upstream made the program forget it.
Rests(log, i) ==
    \/ ClosedAt(log, i)
    \/ ~Contract /\ \E kind : Grammar(log, i, kind, 3)

\* X are the accumulators whose items were closed and which were not cleared.
Owned(X, s, x) == x \notin X /\ Hand(s, x).open

\* Each item is at rest, or one accumulator has it open.
Items(X, s) ==
    /\ \A x \in Names : Owned(X, s, x) =>
          /\ Hand(s, x).at \in Nat /\ Hand(s, x).at < s.next_output_index
          /\ OpenAt(s.log, Hand(s, x).at, Hand(s, x).kind, Hand(s, x).data)
    /\ \A x, y \in Names : x # y /\ Owned(X, s, x) /\ Owned(X, s, y) =>
          Hand(s, x).at # Hand(s, y).at
    /\ \A i \in Nat : i < s.next_output_index =>
          Rests(s.log, i) \/ \E x \in Names : Owned(X, s, x) /\ Hand(s, x).at = i

LEMMA RestsElsewhere ==
    ASSUME NEW log, NEW new, NEW i, LogStep(log, new, i), NEW j, j # i
    PROVE  /\ Rests(log, j) => Rests(new, j)
           /\ \A kind, data : OpenAt(log, j, kind, data) => OpenAt(new, j, kind, data)
<1>1. /\ EventsAt(new, j) = EventsAt(log, j)
      /\ \A a \in EventsAt(log, j) : new[a] = log[a]
      /\ DeltasAt(new, j) = DeltasAt(log, j)
      /\ \A kind, r : Grammar(log, j, kind, r) => Grammar(new, j, kind, r)
  BY StepElsewhere
<1>2. Ended(log, j) => Ended(new, j)
  BY <1>1 DEF Ended
<1>3. Rests(log, j) => Rests(new, j)
  <2>1. CASE ClosedAt(log, j)
    BY <1>1, <1>2, <2>1 DEF ClosedAt, Rests
  <2>2. CASE ~Contract /\ \E kind : Grammar(log, j, kind, 3)
    BY <1>1, <2>2 DEF Rests
  <2> QED BY <2>1, <2>2 DEF Rests
<1>4. ASSUME NEW kind, NEW data, OpenAt(log, j, kind, data) PROVE OpenAt(new, j, kind, data)
  BY <1>1, <1>4 DEF OpenAt
<1> QED BY <1>3, <1>4

\* Accumulator x goes on with its item at index i, opens it or lets go of it.
Moves(X, s, Y, t, x, i) ==
    /\ x \in Names /\ i \in Nat /\ s.next_output_index \in Nat
    /\ LogStep(s.log, t.log, i)
    /\ IF Owned(X, s, x)
       THEN Hand(s, x).at = i /\ t.next_output_index = s.next_output_index
       ELSE s.next_output_index = i /\ t.next_output_index = i + 1
    /\ \A y \in Names : y # x => /\ Owned(Y, t, y) <=> Owned(X, s, y)
                                 /\ Hand(t, y) = Hand(s, y)
    /\ IF Owned(Y, t, x)
       THEN Hand(t, x).at = i /\ OpenAt(t.log, i, Hand(t, x).kind, Hand(t, x).data)
       ELSE Rests(t.log, i)

LEMMA ItemsMove ==
    ASSUME NEW X, NEW s, NEW Y, NEW t, NEW x, NEW i, Items(X, s), Moves(X, s, Y, t, x, i)
    PROVE  Items(Y, t)
<1>1. /\ x \in Names /\ i \in Nat /\ s.next_output_index \in Nat
      /\ t.next_output_index \in Nat /\ s.next_output_index <= t.next_output_index
      /\ i < t.next_output_index
      /\ \A j \in Nat : j < t.next_output_index => j = i \/ j < s.next_output_index
  BY DEF Moves, Items
<1>2. \A y \in Names : y # x => /\ Owned(Y, t, y) <=> Owned(X, s, y)
                                /\ Hand(t, y) = Hand(s, y)
  BY DEF Moves
<1>3. Owned(Y, t, x) => Hand(t, x).at = i /\ OpenAt(t.log, i, Hand(t, x).kind, Hand(t, x).data)
  BY DEF Moves
<1>4. ~Owned(Y, t, x) => Rests(t.log, i)
  BY DEF Moves
<1>5. \A j : j # i => /\ Rests(s.log, j) => Rests(t.log, j)
                      /\ \A kind, data : OpenAt(s.log, j, kind, data) => OpenAt(t.log, j, kind, data)
  <2>1. LogStep(s.log, t.log, i)
    BY DEF Moves
  <2> QED BY <2>1, RestsElsewhere
\* What the others have is elsewhere.
<1>6. ASSUME NEW y \in Names, y # x, Owned(X, s, y)
      PROVE  /\ Hand(s, y).at \in Nat /\ Hand(s, y).at < s.next_output_index
             /\ OpenAt(s.log, Hand(s, y).at, Hand(s, y).kind, Hand(s, y).data)
             /\ Hand(s, y).at # i
  <2>1. /\ Hand(s, y).at \in Nat /\ Hand(s, y).at < s.next_output_index
        /\ OpenAt(s.log, Hand(s, y).at, Hand(s, y).kind, Hand(s, y).data)
    BY <1>6 DEF Items
  <2>2. CASE Owned(X, s, x)
    <3>1. Hand(s, x).at = i
      BY <2>2 DEF Moves
    <3>2. Hand(s, x).at # Hand(s, y).at
      BY <1>1, <1>6, <2>2 DEF Items
    <3> QED BY <2>1, <3>1, <3>2
  <2>3. CASE ~Owned(X, s, x)
    <3>1. s.next_output_index = i
      BY <2>3 DEF Moves
    <3> QED BY <2>1, <3>1, <1>1
  <2> QED BY <2>2, <2>3
<1>7. ASSUME NEW y \in Names, Owned(Y, t, y)
      PROVE  /\ Hand(t, y).at \in Nat /\ Hand(t, y).at < t.next_output_index
             /\ OpenAt(t.log, Hand(t, y).at, Hand(t, y).kind, Hand(t, y).data)
             /\ y # x => Hand(t, y).at # i
  <2>1. CASE y = x
    BY <1>1, <1>3, <1>7, <2>1
  <2>2. CASE y # x
    <3>1. Owned(X, s, y) /\ Hand(t, y) = Hand(s, y)
      BY <1>2, <1>7, <2>2
    <3>2. /\ Hand(s, y).at \in Nat /\ Hand(s, y).at < s.next_output_index
          /\ OpenAt(s.log, Hand(s, y).at, Hand(s, y).kind, Hand(s, y).data)
          /\ Hand(s, y).at # i
      BY <1>6, <2>2, <3>1
    <3>3. OpenAt(t.log, Hand(s, y).at, Hand(s, y).kind, Hand(s, y).data)
      BY <1>5, <3>2
    <3>4. Hand(s, y).at < t.next_output_index
      BY <1>1, <3>2
    <3> QED BY <3>1, <3>2, <3>3, <3>4
  <2> QED BY <2>1, <2>2
<1>8. ASSUME NEW y \in Names, NEW z \in Names, y # z, Owned(Y, t, y), Owned(Y, t, z)
      PROVE  Hand(t, y).at # Hand(t, z).at
  <2>1. CASE y = x
    BY <1>3, <1>7, <1>8, <2>1
  <2>2. CASE z = x
    BY <1>3, <1>7, <1>8, <2>2
  <2>3. CASE y # x /\ z # x
    <3>1. Owned(X, s, y) /\ Owned(X, s, z) /\ Hand(t, y) = Hand(s, y) /\ Hand(t, z) = Hand(s, z)
      BY <1>2, <1>8, <2>3
    <3>2. Hand(s, y).at # Hand(s, z).at
      BY <1>8, <3>1 DEF Items
    <3> QED BY <3>1, <3>2
  <2> QED BY <2>1, <2>2, <2>3
<1>9. ASSUME NEW j \in Nat, j < t.next_output_index
      PROVE  Rests(t.log, j) \/ \E y \in Names : Owned(Y, t, y) /\ Hand(t, y).at = j
  <2>1. CASE j = i
    BY <1>1, <1>3, <1>4, <2>1
  <2>2. CASE j # i
    <3>1. j < s.next_output_index
      BY <1>1, <1>9, <2>2
    <3>2. CASE Rests(s.log, j)
      BY <1>5, <2>2, <3>2
    <3>3. CASE \E y \in Names : Owned(X, s, y) /\ Hand(s, y).at = j
      <4>1. PICK y \in Names : Owned(X, s, y) /\ Hand(s, y).at = j
        BY <3>3
      <4>2. y # x
        <5>1. CASE Owned(X, s, x)
          BY <2>2, <4>1, <5>1 DEF Moves
        <5>2. CASE ~Owned(X, s, x)
          BY <4>1, <5>2
        <5> QED BY <5>1, <5>2
      <4> QED BY <1>2, <4>1, <4>2
    <3> QED BY <3>1, <3>2, <3>3 DEF Items
  <2> QED BY <2>1, <2>2
<1> QED BY <1>7, <1>8, <1>9 DEF Items

-----------------------------------------------------------------------------
(* Closing an item                                                         *)

LEMMA LifeEnds ==
    ASSUME NEW base, NEW log, NEW q, NEW n, Kept(base, log, q, n),
           NEW before, NEW e \in Plain, NEW r \in Nat, NEW data,
           Life(before, log, e.index, e.kind, r, data), e.index \in Nat, e.index < n,
           e.type = "item_done", r < 6, Contract => e.data = data
    PROVE  /\ LogStep(before, Append(log, Num(e, q)), e.index)
           /\ Kept(base, Append(log, Num(e, q)), q + 1, n)
           /\ ClosedAt(Append(log, Num(e, q)), e.index)
<1> DEFINE i == e.index
           x == Num(e, q)
           new == Append(log, x)
<1>1. e.type \in Types \ {"item_added"} /\ Rank(e.type) = 6 /\ e.type # "delta"
  BY Ranks DEF Types
<1>2. /\ Life(before, new, i, e.kind, 6, data) /\ Kept(base, new, q + 1, n)
  <2>1. /\ Life(before, Append(log, Num(e, q)), e.index, e.kind, Rank(e.type),
                IF e.type = "delta" THEN data \o e.data ELSE data)
        /\ Kept(base, Append(log, Num(e, q)), q + 1, n)
    BY <1>1, LifeGoesOn
  <2> QED BY <1>1, <2>1
<1>3. log \in Seq(AnEvent) /\ IsLog(log) /\ q \in Nat
  BY LogIs DEF Kept
<1>4. x.type = "item_done" /\ x.index = i /\ x.data = e.data /\ Fits(x)
  BY <1>3, NumIs
<1> HIDE DEF x
<1>5. /\ Len(log) \in Nat /\ DOMAIN log = 1..Len(log) /\ DOMAIN new = 1..(Len(log) + 1)
      /\ new[Len(log) + 1] = x
  BY <1>3, <1>4, AppendLog
<1> HIDE DEF new
<1>6. LogStep(before, new, i) /\ Grammar(new, i, e.kind, 6) /\ DeltasAt(new, i) = data
  BY <1>2 DEF Life
<1>7. Len(log) + 1 \in EventsAt(new, i)
  BY <1>4, <1>5 DEF EventsAt
<1>8. Ended(new, i)
  BY <1>4, <1>5, <1>7 DEF Ended
<1>9. ASSUME NEW a \in EventsAt(new, i), new[a].type = "item_done", Contract
      PROVE  new[a].data = DeltasAt(new, i)
  <2>1. a \in 1..(Len(log) + 1)
    BY <1>5 DEF EventsAt
  <2>2. a = Len(log) + 1
    <3> SUFFICES ASSUME a # Len(log) + 1 PROVE FALSE
      OBVIOUS
    <3>1. a < Len(log) + 1
      BY <1>5, <2>1
    <3>2. new[a].type = "delta"
      BY <1>4, <1>5, <1>6, <1>7, <1>9, <3>1 DEF Grammar
    <3> QED BY <1>9, <3>2
  <2> QED BY <1>4, <1>5, <1>6, <1>9, <2>2
<1>10. ClosedAt(new, i)
  BY <1>6, <1>8, <1>9 DEF ClosedAt
<1> QED BY <1>2, <1>6, <1>10 DEF new, x

LEMMA EventIs ==
    ASSUME NEW type \in Types, NEW i \in Nat, NEW kind \in Kinds, NEW data \in Seq(PieceType)
    PROVE  /\ Event(type, i, kind, data) \in Plain
           /\ Event(type, i, kind, data).type = type /\ Event(type, i, kind, data).index = i
           /\ Event(type, i, kind, data).kind = kind /\ Event(type, i, kind, data).data = data
BY DEF Event, Plain

\* An event of this type may come when the item is at rank r.
May(r, type) ==
    /\ r \in Nat /\ r < 6 /\ type \in Types \ {"item_added"}
    /\ r < Rank(type) \/ (r = 3 /\ type = "delta")

LEMMA Orders ==
    /\ May(3, "content_done") /\ May(4, "part_done") /\ May(4, "item_done") /\ May(5, "item_done")
    /\ May(1, "part_added") /\ May(1, "delta") /\ May(2, "delta") /\ May(3, "delta")
BY Ranks DEF May, Types

\* s is a state on the way, with n items announced.
Going(base, before, s, n, i, kind, r, data) ==
    /\ s \in AState /\ Kept(base, s.log, s.next_sequence_number, n)
    /\ Life(before, s.log, i, kind, r, data)
    /\ i \in Nat /\ i < n /\ kind \in Kinds

LEMMA EmitStep ==
    ASSUME NEW s \in AState, NEW e \in Plain
    PROVE  /\ Emit(s, e) \in AState
           /\ Emit(s, e).log = Append(s.log, Num(e, s.next_sequence_number))
           /\ Emit(s, e).next_sequence_number = s.next_sequence_number + 1
           /\ Grown(s, Emit(s, e))
<1> DEFINE t == Emit(s, e)
           L == Append(s.log, Num(e, s.next_sequence_number))
           q == s.next_sequence_number + 1
<1>1. t \in AState /\ t.log = L /\ t.next_sequence_number = q /\ t = With(s, L, q)
  BY EmitTyped, EmitIs
<1> HIDE DEF t, L, q
<1>2. Grown(s, t)
  BY <1>1 DEF Grown
<1> QED BY <1>1, <1>2 DEF t, L, q

LEMMA GoesOn ==
    ASSUME NEW base, NEW before, NEW s, NEW n, NEW i, NEW kind, NEW r, NEW data,
           Going(base, before, s, n, i, kind, r, data),
           NEW type, NEW d \in Seq(PieceType), May(r, type)
    PROVE  /\ Going(base, before, Emit(s, Event(type, i, kind, d)), n, i, kind, Rank(type),
                    IF type = "delta" THEN data \o d ELSE data)
           /\ Grown(s, Emit(s, Event(type, i, kind, d)))
<1> DEFINE e == Event(type, i, kind, d)
           q == s.next_sequence_number
           t == Emit(s, e)
<1>1. /\ s \in AState /\ Kept(base, s.log, q, n) /\ Life(before, s.log, i, kind, r, data)
      /\ i \in Nat /\ i < n /\ kind \in Kinds
  BY DEF Going
<1>2. /\ r \in Nat /\ r < 6 /\ type \in Types \ {"item_added"}
      /\ r < Rank(type) \/ (r = 3 /\ type = "delta")
  BY DEF May
<1>3. e \in Plain /\ e.type = type /\ e.index = i /\ e.kind = kind /\ e.data = d
  BY <1>1, <1>2, EventIs
<1> HIDE DEF e
<1>4. /\ t \in AState /\ t.log = Append(s.log, Num(e, q)) /\ t.next_sequence_number = q + 1
      /\ Grown(s, t)
  BY <1>1, <1>3, EmitStep
<1> HIDE DEF t, q
<1>5. /\ Life(before, s.log, e.index, e.kind, r, data) /\ e.index \in Nat /\ e.index < n
      /\ e.type \in Types \ {"item_added"}
      /\ r < Rank(e.type) \/ (r = 3 /\ e.type = "delta")
  BY <1>1, <1>2, <1>3
<1>6. /\ Life(before, Append(s.log, Num(e, q)), e.index, e.kind, Rank(e.type),
              IF e.type = "delta" THEN data \o e.data ELSE data)
      /\ Kept(base, Append(s.log, Num(e, q)), q + 1, n)
  BY <1>1, <1>2, <1>3, <1>5, LifeGoesOn
<1>7. Going(base, before, t, n, i, kind, Rank(type), IF type = "delta" THEN data \o d ELSE data)
  BY <1>1, <1>3, <1>4, <1>6 DEF Going
<1> QED BY <1>4, <1>7 DEF e, t

\* The end of an item's life.
Gone(base, before, s, n, i) ==
    /\ s \in AState /\ Kept(base, s.log, s.next_sequence_number, n)
    /\ LogStep(before, s.log, i) /\ ClosedAt(s.log, i)

LEMMA Ends ==
    ASSUME NEW base, NEW before, NEW s, NEW n, NEW i, NEW kind, NEW r, NEW data,
           Going(base, before, s, n, i, kind, r, data),
           NEW d \in Seq(PieceType), May(r, "item_done"), Contract => d = data
    PROVE  /\ Gone(base, before, Emit(s, Event("item_done", i, kind, d)), n, i)
           /\ Grown(s, Emit(s, Event("item_done", i, kind, d)))
<1> DEFINE e == Event("item_done", i, kind, d)
           q == s.next_sequence_number
           t == Emit(s, e)
<1>1. /\ s \in AState /\ Kept(base, s.log, q, n) /\ Life(before, s.log, i, kind, r, data)
      /\ i \in Nat /\ i < n /\ kind \in Kinds
  BY DEF Going
<1>2. r \in Nat /\ r < 6
  BY DEF May
<1>3. e \in Plain /\ e.type = "item_done" /\ e.index = i /\ e.kind = kind /\ e.data = d
  BY <1>1, EventIs DEF Types
<1> HIDE DEF e
<1>4. /\ t \in AState /\ t.log = Append(s.log, Num(e, q)) /\ t.next_sequence_number = q + 1
      /\ Grown(s, t)
  BY <1>1, <1>3, EmitStep
<1> HIDE DEF t, q
<1>5. /\ Life(before, s.log, e.index, e.kind, r, data) /\ e.index \in Nat /\ e.index < n
      /\ Contract => e.data = data
  BY <1>1, <1>3
<1>6. /\ LogStep(before, Append(s.log, Num(e, q)), e.index)
      /\ Kept(base, Append(s.log, Num(e, q)), q + 1, n)
      /\ ClosedAt(Append(s.log, Num(e, q)), e.index)
  BY <1>1, <1>2, <1>3, <1>5, LifeEnds
<1>7. Gone(base, before, t, n, i)
  BY <1>3, <1>4, <1>6 DEF Gone
<1> QED BY <1>4, <1>7 DEF e, t

\* The three ways to end an item.
DoneParts(s, i, kind, data) == EmitAll(s, <<Event("content_done", i, kind, data),
                                            Event("part_done", i, kind, data),
                                            Event("item_done", i, kind, data)>>)

DoneCall(s, i, kind, data) == EmitAll(s, <<Event("content_done", i, kind, data),
                                           Event("item_done", i, kind, data)>>)

DoneCustom(s, i, kind, data) == EmitAll(s, <<Event("delta", i, kind, data),
                                             Event("content_done", i, kind, data),
                                             Event("item_done", i, kind, data)>>)

\* Reasoning and messages.
LEMMA CloseParts ==
    ASSUME NEW base, NEW s, NEW n, NEW i, NEW kind, NEW said, NEW data \in Seq(PieceType),
           Going(base, s.log, s, n, i, kind, 3, said), Contract => data = said,
           NEW t, t = DoneParts(s, i, kind, data)
    PROVE  Gone(base, s.log, t, n, i) /\ Grown(s, t)
<1> DEFINE c == Event("content_done", i, kind, data)
           d == Event("part_done", i, kind, data)
           e == Event("item_done", i, kind, data)
           s1 == Emit(s, c)
           s2 == Emit(s1, d)
<1>1. Going(base, s.log, s1, n, i, kind, 4, said) /\ Grown(s, s1)
  BY Orders, Ranks, GoesOn
<1>2. Going(base, s.log, s2, n, i, kind, 5, said) /\ Grown(s1, s2)
  <2> HIDE DEF s1
  <2> QED BY <1>1, Orders, Ranks, GoesOn
<1>3. /\ Gone(base, s.log, Emit(s2, e), n, i)
      /\ Grown(s2, Emit(s2, e))
  <2> HIDE DEF s2
  <2> QED BY <1>2, Orders, Ends
<1>4. t = Emit(s2, e)
  <2>1. s \in AState /\ i \in Nat /\ kind \in Kinds
    BY DEF Going
  <2>2. c \in Plain /\ d \in Plain
    BY <2>1, EventIs DEF Types
  <2>3. t = EmitAll(s, <<c, d, e>>)
    BY DEF DoneParts
  <2> HIDE DEF c, d, e
  <2> QED BY <2>1, <2>2, <2>3, EmitThree
<1> HIDE DEF e, s1, s2
<1>5. Grown(s, t)
  BY <1>1, <1>2, <1>3, <1>4, GrownTwice
<1> QED BY <1>3, <1>4, <1>5

\* Function calls.
LEMMA CloseCall ==
    ASSUME NEW base, NEW s, NEW n, NEW i, NEW kind, NEW said, NEW data \in Seq(PieceType),
           Going(base, s.log, s, n, i, kind, 3, said), Contract => data = said,
           NEW t, t = DoneCall(s, i, kind, data)
    PROVE  Gone(base, s.log, t, n, i) /\ Grown(s, t)
<1> DEFINE c == Event("content_done", i, kind, data)
           e == Event("item_done", i, kind, data)
           s1 == Emit(s, c)
<1>1. Going(base, s.log, s1, n, i, kind, 4, said) /\ Grown(s, s1)
  BY Orders, Ranks, GoesOn
<1>3. /\ Gone(base, s.log, Emit(s1, e), n, i)
      /\ Grown(s1, Emit(s1, e))
  <2> HIDE DEF s1
  <2> QED BY <1>1, Orders, Ends
<1>4. t = Emit(s1, e)
  <2>1. s \in AState /\ i \in Nat /\ kind \in Kinds
    BY DEF Going
  <2>2. c \in Plain
    BY <2>1, EventIs DEF Types
  <2>3. t = EmitAll(s, <<c, e>>)
    BY DEF DoneCall
  <2> HIDE DEF c, e
  <2> QED BY <2>1, <2>2, <2>3, EmitTwo
<1> HIDE DEF e, s1
<1>5. Grown(s, t)
  BY <1>1, <1>3, <1>4, GrownTwice
<1> QED BY <1>3, <1>4, <1>5

\* Custom calls, of whose input the client has been told nothing.
LEMMA CloseCustom ==
    ASSUME NEW base, NEW s, NEW n, NEW i, NEW kind, NEW said, NEW data \in Seq(PieceType),
           Going(base, s.log, s, n, i, kind, 3, said), Contract => said = <<>>,
           NEW t, t = DoneCustom(s, i, kind, data)
    PROVE  Gone(base, s.log, t, n, i) /\ Grown(s, t)
<1> DEFINE c == Event("delta", i, kind, data)
           d == Event("content_done", i, kind, data)
           e == Event("item_done", i, kind, data)
           s1 == Emit(s, c)
           s2 == Emit(s1, d)
           all == said \o data
<1>1. Going(base, s.log, s1, n, i, kind, 3, all) /\ Grown(s, s1)
  BY Orders, Ranks, GoesOn
<1>2. Going(base, s.log, s2, n, i, kind, 4, all) /\ Grown(s1, s2)
  <2> HIDE DEF s1, all
  <2> QED BY <1>1, Orders, Ranks, GoesOn
<1>3. /\ Gone(base, s.log, Emit(s2, e), n, i)
      /\ Grown(s2, Emit(s2, e))
  <2>1. Contract => data = all
    OBVIOUS
  <2> HIDE DEF s2, all
  <2> QED BY <1>2, <2>1, Orders, Ends
<1>4. t = Emit(s2, e)
  <2>1. s \in AState /\ i \in Nat /\ kind \in Kinds
    BY DEF Going
  <2>2. c \in Plain /\ d \in Plain
    BY <2>1, EventIs DEF Types
  <2>3. t = EmitAll(s, <<c, d, e>>)
    BY DEF DoneCustom
  <2> HIDE DEF c, d, e
  <2> QED BY <2>1, <2>2, <2>3, EmitThree
<1> HIDE DEF e, s1, s2
<1>5. Grown(s, t)
  BY <1>1, <1>2, <1>3, <1>4, GrownTwice
<1> QED BY <1>3, <1>4, <1>5

-----------------------------------------------------------------------------
(* Sound states                                                            *)

\* A slot is custom only where the tool is, and a call that is open knows it.
SlotsFit(s) ==
    \A k \in Slots :
        /\ s.tool_calls[k].is_custom => k \in CustomSlots
        /\ s.tool_calls[k].id # "" /\ k \in CustomSlots => s.tool_calls[k].is_custom
        /\ Contract /\ s.tool_calls[k].id = "" => s.tool_calls[k].arguments = <<>>

Sound(base, X, s) ==
    /\ s \in AState /\ s.has_started
    /\ Kept(base, s.log, s.next_sequence_number, s.next_output_index)
    /\ SlotsFit(s)
    /\ Items(X, s)

LEMMA NamesAre ==
    /\ Slots \subseteq Names /\ -2 \in Names /\ -1 \in Names /\ Slots \subseteq Nat
    /\ \A x \in Names : x = -2 \/ x = -1 \/ x \in Slots
BY DEF Names, Slots

\* What only changes what nobody has open keeps a state sound.
LEMMA Settles ==
    ASSUME NEW base, NEW X, NEW s, Sound(base, X, s), NEW Y, NEW t \in AState,
           t.log = s.log, t.next_sequence_number = s.next_sequence_number,
           t.next_output_index = s.next_output_index, t.has_started = s.has_started,
           SlotsFit(t),
           \A x \in Names : /\ Owned(Y, t, x) <=> Owned(X, s, x)
                            /\ Owned(X, s, x) => Hand(t, x) = Hand(s, x)
    PROVE  Sound(base, Y, t)
<1>1. Items(X, s)
  BY DEF Sound
<1>2. \A x \in Names : Owned(Y, t, x) =>
         /\ Hand(t, x).at \in Nat /\ Hand(t, x).at < t.next_output_index
         /\ OpenAt(t.log, Hand(t, x).at, Hand(t, x).kind, Hand(t, x).data)
  BY <1>1 DEF Items
<1>3. \A x, y \in Names : x # y /\ Owned(Y, t, x) /\ Owned(Y, t, y) => Hand(t, x).at # Hand(t, y).at
  BY <1>1 DEF Items
<1>4. \A i \in Nat : i < t.next_output_index =>
         Rests(t.log, i) \/ \E x \in Names : Owned(Y, t, x) /\ Hand(t, x).at = i
  BY <1>1 DEF Items
<1> QED BY <1>2, <1>3, <1>4 DEF Sound, Items

\* The hand depends on what is accumulated.
LEMMA SameHand ==
    ASSUME NEW s, NEW t, t.reasoning_content = s.reasoning_content,
           t.reasoning_output_index = s.reasoning_output_index,
           t.accumulated_text = s.accumulated_text, t.msg_output_index = s.msg_output_index,
           t.tool_calls = s.tool_calls
    PROVE  \A x : Hand(t, x) = Hand(s, x)
BY DEF Hand

LEMMA HandOf ==
    ASSUME NEW s
    PROVE  /\ Hand(s, -2).open = (s.reasoning_content # <<>>)
           /\ Hand(s, -2).at = s.reasoning_output_index
           /\ Hand(s, -2).kind = "reasoning" /\ Hand(s, -2).data = s.reasoning_content
           /\ Hand(s, -1).open = (s.accumulated_text # <<>>)
           /\ Hand(s, -1).at = s.msg_output_index
           /\ Hand(s, -1).kind = "message" /\ Hand(s, -1).data = s.accumulated_text
BY DEF Hand

LEMMA SlotHand ==
    ASSUME NEW s, NEW k \in Slots
    PROVE  /\ Hand(s, k).open = (s.tool_calls[k].id # "")
           /\ Hand(s, k).at = s.tool_calls[k].output_index
           /\ Hand(s, k).kind = ToolKind(s.tool_calls[k].is_custom)
           /\ Hand(s, k).data = IF s.tool_calls[k].is_custom THEN <<>>
                                ELSE s.tool_calls[k].arguments
<1>1. k # -2 /\ k # -1
  BY NamesAre
<1> HIDE DEF Slots
<1>2. Hand(s, k).open = (s.tool_calls[k].id # "")
  BY <1>1 DEF Hand
<1>3. Hand(s, k).at = s.tool_calls[k].output_index
  BY <1>1 DEF Hand
<1>4. Hand(s, k).kind = ToolKind(s.tool_calls[k].is_custom)
  BY <1>1 DEF Hand
<1>5. Hand(s, k).data = IF s.tool_calls[k].is_custom THEN <<>> ELSE s.tool_calls[k].arguments
  BY <1>1 DEF Hand
<1> QED BY <1>2, <1>3, <1>4, <1>5

LEMMA HandIs ==
    ASSUME NEW s \in AState, NEW x \in Names
    PROVE  /\ Hand(s, x).open \in BOOLEAN /\ Hand(s, x).at \in Nat /\ Hand(s, x).kind \in Kinds
           /\ Hand(s, x).data \in Seq(PieceType)
<1>1. CASE x = -2
  BY <1>1 DEF Hand, AState, Kinds
<1>2. CASE x = -1
  BY <1>2 DEF Hand, AState, Kinds
<1>3. CASE x \in Slots
  <2> DEFINE slot == s.tool_calls[x]
             hand == Hand(s, x)
  <2>1. slot \in ASlot
    BY <1>3 DEF AState
  <2>2. /\ hand.open = (slot.id # "") /\ hand.at = slot.output_index
        /\ hand.kind = ToolKind(slot.is_custom)
        /\ hand.data = IF slot.is_custom THEN <<>> ELSE slot.arguments
    BY <1>3, SlotHand
  <2> HIDE DEF hand, slot
  <2>3. /\ slot.output_index \in Nat /\ slot.arguments \in Seq(PieceType)
        /\ ToolKind(slot.is_custom) \in Kinds /\ <<>> \in Seq(PieceType)
    <3>1. slot.output_index \in Nat /\ slot.arguments \in Seq(PieceType)
      BY <2>1 DEF ASlot
    <3>2. ToolKind(slot.is_custom) \in Kinds
      BY DEF Kinds, ToolKind
    <3> QED BY <3>1, <3>2
  <2>4. hand.open \in BOOLEAN
    BY <2>2
  <2>5. hand.data \in Seq(PieceType)
    BY <2>2, <2>3
  <2> QED BY <2>2, <2>3, <2>4, <2>5 DEF hand
<1> QED BY <1>1, <1>2, <1>3, NamesAre

\* x has this item open.
Has(X, s, x, i, kind, data) ==
    /\ x \in Names /\ Owned(X, s, x)
    /\ Hand(s, x).at = i /\ Hand(s, x).kind = kind /\ Hand(s, x).data = data

LEMMA Holding ==
    ASSUME NEW base, NEW X, NEW s, NEW x, NEW i, NEW kind, NEW data,
           Sound(base, X, s), Has(X, s, x, i, kind, data)
    PROVE  /\ Going(base, s.log, s, s.next_output_index, i, kind, 3, DeltasAt(s.log, i))
           /\ Contract => DeltasAt(s.log, i) = data
<1>0. /\ x \in Names /\ Owned(X, s, x)
      /\ Hand(s, x).at = i /\ Hand(s, x).kind = kind /\ Hand(s, x).data = data
  BY DEF Has
<1>1. /\ i \in Nat /\ i < s.next_output_index
      /\ OpenAt(s.log, i, kind, data)
  BY <1>0 DEF Sound, Items
<1>2. s \in AState /\ s.log \in Seq(AnEvent) /\ s.next_output_index \in Nat
  BY DEF Sound, AState
<1>3. kind \in Kinds
  BY <1>0, <1>2, HandIs
<1>4. Grammar(s.log, i, kind, 3) /\ (Contract => DeltasAt(s.log, i) = data)
  BY <1>1 DEF OpenAt
<1>5. Life(s.log, s.log, i, kind, 3, DeltasAt(s.log, i))
  BY <1>2, <1>4, LifeRests
<1> QED BY <1>1, <1>2, <1>3, <1>4, <1>5 DEF Going, Sound

SameTools(s, t) == t.tool_calls = s.tool_calls

\* t has the same accumulators as s and as many items announced.
Stays(s, t) ==
    /\ t.reasoning_content = s.reasoning_content
    /\ t.reasoning_output_index = s.reasoning_output_index
    /\ t.accumulated_text = s.accumulated_text /\ t.msg_output_index = s.msg_output_index
    /\ t.tool_calls = s.tool_calls /\ t.next_output_index = s.next_output_index

Keeping(t, kept) == [t EXCEPT !.completed_items = kept]

\* The accumulator whose item was closed and kept has nothing open.
LEMMA Releases ==
    ASSUME NEW base, NEW X, NEW s, NEW x, NEW i, NEW kind, NEW data,
           Sound(base, X, s), Has(X, s, x, i, kind, data),
           NEW t, Gone(base, s.log, t, s.next_output_index, i),
           Grown(s, t), NEW kept \in Seq(AnItem),
           NEW u, u = Keeping(t, kept)
    PROVE  Sound(base, X \cup {x}, u) /\ SameTools(s, u) /\ Stays(s, u)
<1> DEFINE Y == X \cup {x}
<1>0. x \in Names /\ Owned(X, s, x) /\ Hand(s, x).at = i
  BY DEF Has
<1>1. /\ s \in AState /\ s.has_started /\ SlotsFit(s) /\ Items(X, s) /\ s.next_output_index \in Nat
      /\ i \in Nat
  BY <1>0, HandIs DEF Sound, AState
<1>2. /\ t \in AState /\ Kept(base, t.log, t.next_sequence_number, s.next_output_index)
      /\ LogStep(s.log, t.log, i) /\ ClosedAt(t.log, i)
  BY DEF Gone
<1>3. /\ t.reasoning_content = s.reasoning_content
      /\ t.reasoning_output_index = s.reasoning_output_index
      /\ t.accumulated_text = s.accumulated_text /\ t.msg_output_index = s.msg_output_index
      /\ t.tool_calls = s.tool_calls /\ t.has_started = s.has_started
      /\ t.next_output_index = s.next_output_index
  BY <1>1 DEF Grown, With, AState
<1>4. /\ u \in AState /\ u.log = t.log /\ u.next_sequence_number = t.next_sequence_number
      /\ u.reasoning_content = s.reasoning_content
      /\ u.reasoning_output_index = s.reasoning_output_index
      /\ u.accumulated_text = s.accumulated_text /\ u.msg_output_index = s.msg_output_index
      /\ u.tool_calls = s.tool_calls /\ u.has_started = s.has_started
      /\ u.next_output_index = s.next_output_index
  BY <1>2, <1>3 DEF AState, Keeping
<1>5. \A y : Hand(u, y) = Hand(s, y)
  BY <1>4, SameHand
<1>6. Moves(X, s, Y, u, x, i)
  <2>1. \A y \in Names : y # x => /\ Owned(Y, u, y) <=> Owned(X, s, y)
                                  /\ Hand(u, y) = Hand(s, y)
    BY <1>5 DEF Owned
  <2>2. ~Owned(Y, u, x) /\ Rests(u.log, i)
    BY <1>2, <1>4 DEF Owned, Rests
  <2> HIDE DEF Y
  <2> QED BY <1>0, <1>1, <1>2, <1>4, <2>1, <2>2 DEF Moves
<1>7. Items(Y, u)
  <2> HIDE DEF Y
  <2> QED BY <1>1, <1>6, ItemsMove
<1>8. SlotsFit(u)
  BY <1>1, <1>4 DEF SlotsFit
<1>9. Sound(base, Y, u)
  <2> HIDE DEF Y
  <2> QED BY <1>1, <1>2, <1>4, <1>7, <1>8 DEF Sound
<1> QED BY <1>4, <1>9 DEF SameTools, Stays

-----------------------------------------------------------------------------
(* The closing operations                                                  *)

LEMMA ReasoningCloses ==
    ASSUME NEW base, NEW X, NEW s, Sound(base, X, s), -2 \notin X, s.reasoning_content # <<>>
    PROVE  /\ Sound(base, X \cup {-2}, close_reasoning_item(s))
           /\ SameTools(s, close_reasoning_item(s))
           /\ Stays(s, close_reasoning_item(s))
<1> DEFINE i == s.reasoning_output_index
           text == s.reasoning_content
           t == EmitAll(s, <<Event("content_done", i, "reasoning", text),
                             Event("part_done", i, "reasoning", text),
                             Event("item_done", i, "reasoning", text)>>)
           item == Item("reasoning", i, -1, text)
<1>1. s \in AState /\ text \in Seq(PieceType) /\ s.completed_items \in Seq(AnItem) /\ i \in Nat
  BY DEF Sound, AState
<1>2. Has(X, s, -2, i, "reasoning", text)
  BY HandOf, NamesAre DEF Owned, Has
<1>3. /\ Going(base, s.log, s, s.next_output_index, i, "reasoning", 3, DeltasAt(s.log, i))
      /\ Contract => text = DeltasAt(s.log, i)
  BY <1>2, Holding
<1>4. /\ Gone(base, s.log, t, s.next_output_index, i)
      /\ Grown(s, t)
  <2>1. t = DoneParts(s, i, "reasoning", text)
    BY DEF DoneParts
  <2> HIDE DEF t, i, text
  <2> QED BY <1>1, <1>3, <2>1, CloseParts
<1>5. item \in AnItem
  BY <1>1 DEF Item, AnItem, Kinds
<1>6. t.completed_items = s.completed_items /\ t \in AState
  BY <1>1, <1>4 DEF Grown, With, AState, Gone
<1>7. close_reasoning_item(s) = Keeping(t, Append(s.completed_items, item))
  <2>1. close_reasoning_item(s) = [t EXCEPT !.completed_items = Append(@, item)]
    BY DEF close_reasoning_item
  <2> HIDE DEF t, item
  <2> QED BY <1>6, <2>1 DEF Keeping
<1> HIDE DEF t, item, i, text
<1>8. Append(s.completed_items, item) \in Seq(AnItem)
  BY <1>1, <1>5
<1> QED BY <1>2, <1>4, <1>7, <1>8, Releases

LEMMA MessageCloses ==
    ASSUME NEW base, NEW X, NEW s, Sound(base, X, s), -1 \notin X, s.accumulated_text # <<>>
    PROVE  /\ Sound(base, X \cup {-1}, close_message_item(s))
           /\ SameTools(s, close_message_item(s))
           /\ Stays(s, close_message_item(s))
<1> DEFINE i == s.msg_output_index
           text == s.accumulated_text
           t == EmitAll(s, <<Event("content_done", i, "message", text),
                             Event("part_done", i, "message", text),
                             Event("item_done", i, "message", text)>>)
           item == MessageItem(s)
<1>1. s \in AState /\ text \in Seq(PieceType) /\ s.completed_items \in Seq(AnItem) /\ i \in Nat
  BY DEF Sound, AState
<1>2. Has(X, s, -1, i, "message", text)
  BY HandOf, NamesAre DEF Owned, Has
<1>3. /\ Going(base, s.log, s, s.next_output_index, i, "message", 3, DeltasAt(s.log, i))
      /\ Contract => text = DeltasAt(s.log, i)
  BY <1>2, Holding
<1>4. /\ Gone(base, s.log, t, s.next_output_index, i)
      /\ Grown(s, t)
  <2>1. t = DoneParts(s, i, "message", text)
    BY DEF DoneParts
  <2> HIDE DEF t, i, text
  <2> QED BY <1>1, <1>3, <2>1, CloseParts
<1>5. item \in AnItem
  <2>1. /\ s.has_refusal \in BOOLEAN /\ s.text_logprobs \in Seq(PieceType)
        /\ <<>> \in Seq(PieceType)
    BY <1>1 DEF AState
  <2> DEFINE plain == Item("message", i, -1, text)
             logprobs == IF s.has_refusal THEN <<>> ELSE s.text_logprobs
             refused == s.has_refusal
  <2>2. plain \in AnItem
    BY <1>1, <2>1 DEF Item, AnItem, Kinds
  <2>3. logprobs \in Seq(PieceType) /\ refused \in BOOLEAN
    BY <2>1
  <2>4. item = [plain EXCEPT !.refused = refused, !.logprobs = logprobs]
    BY DEF MessageItem
  <2> HIDE DEF plain, logprobs, refused, item
  <2> QED BY <2>2, <2>3, <2>4 DEF AnItem
<1>6. t.completed_items = s.completed_items /\ t \in AState
  BY <1>1, <1>4 DEF Grown, With, AState, Gone
<1>7. close_message_item(s) = Keeping(t, Append(s.completed_items, item))
  <2>1. close_message_item(s) = [t EXCEPT !.completed_items = Append(@, item)]
    BY DEF close_message_item
  <2> HIDE DEF t, item
  <2> QED BY <1>6, <2>1 DEF Keeping
<1> HIDE DEF t, item, i, text
<1>8. Append(s.completed_items, item) \in Seq(AnItem)
  BY <1>1, <1>5
<1> QED BY <1>2, <1>4, <1>7, <1>8, Releases

LEMMA UnwrapType ==
    ASSUME NEW args \in Seq(PieceType)
    PROVE  unwrap_custom_input(args) \in Seq(PieceType)
<1> DEFINE new == [k \in DOMAIN args |-> [args[k] EXCEPT !.kind = "input"]]
<1>1. \A k \in DOMAIN args : [args[k] EXCEPT !.kind = "input"] \in PieceType
  <2> TAKE k \in DOMAIN args
  <2>1. args[k] \in PieceType
    OBVIOUS
  <2> QED BY <2>1 DEF PieceType
<1>2. new \in Seq(PieceType)
  BY <1>1
<1> QED BY <1>2 DEF unwrap_custom_input

LEMMA ItemIs ==
    ASSUME NEW kind \in Kinds, NEW i \in Nat, NEW k \in Int, NEW data \in Seq(PieceType)
    PROVE  Item(kind, i, k, data) \in AnItem
<1>1. <<>> \in Seq(PieceType)
  OBVIOUS
<1> QED BY <1>1 DEF Item, AnItem

LEMMA CallItemIs ==
    ASSUME NEW k \in Slots, NEW i \in Nat, NEW data \in Seq(PieceType)
    PROVE  Item("function_call", i, k, data) \in AnItem
<1>1. \A n \in Slots : n \in Int
  BY DEF Slots
<1>2. "function_call" \in Kinds
  BY DEF Kinds
<1> QED BY <1>1, <1>2, ItemIs

LEMMA KeepsItem ==
    ASSUME NEW kept \in Seq(AnItem), NEW item \in AnItem
    PROVE  Append(kept, item) \in Seq(AnItem)
OBVIOUS

LEMMA CallCloses ==
    ASSUME NEW base, NEW X, NEW s, Sound(base, X, s), NEW k \in Slots, k \notin X,
           s.tool_calls[k].id # ""
    PROVE  /\ Sound(base, X \cup {k}, close_tool_call_item(s, k))
           /\ SameTools(s, close_tool_call_item(s, k))
           /\ Stays(s, close_tool_call_item(s, k))
<1> DEFINE slot == s.tool_calls[k]
           i == slot.output_index
           kind == ToolKind(slot.is_custom)
           args == slot.arguments
           input == unwrap_custom_input(args)
           events == IF slot.is_custom
                     THEN <<Event("delta", i, "custom_tool_call", input),
                            Event("content_done", i, "custom_tool_call", input),
                            Event("item_done", i, "custom_tool_call", input)>>
                     ELSE <<Event("content_done", i, "function_call", args),
                            Event("item_done", i, "function_call", args)>>
           t == EmitAll(s, events)
           item == Item("function_call", i, k, args)
<1>1. s \in AState /\ slot \in ASlot /\ s.completed_items \in Seq(AnItem)
  BY DEF Sound, AState
<1>2. args \in Seq(PieceType) /\ input \in Seq(PieceType) /\ i \in Nat /\ slot.is_custom \in BOOLEAN
  BY <1>1, UnwrapType DEF ASlot
<1>3. Has(X, s, k, i, kind, IF slot.is_custom THEN <<>> ELSE args)
  <2>1. /\ Hand(s, k).open /\ Hand(s, k).at = i /\ Hand(s, k).kind = kind
        /\ Hand(s, k).data = IF slot.is_custom THEN <<>> ELSE args
    BY SlotHand
  <2>2. k \in Names
    BY NamesAre
  <2> HIDE DEF i, kind, args, slot
  <2> QED BY <2>1, <2>2 DEF Owned, Has
<1> HIDE DEF slot
<1>4. /\ Going(base, s.log, s, s.next_output_index, i, kind, 3, DeltasAt(s.log, i))
      /\ Contract => DeltasAt(s.log, i) = IF slot.is_custom THEN <<>> ELSE args
  <2> DEFINE told == IF slot.is_custom THEN <<>> ELSE args
  <2>1. Has(X, s, k, i, kind, told)
    BY <1>3
  <2> HIDE DEF i, kind, args, told
  <2>2. /\ Going(base, s.log, s, s.next_output_index, i, kind, 3, DeltasAt(s.log, i))
        /\ Contract => DeltasAt(s.log, i) = told
    BY <2>1, Holding
  <2> QED BY <2>2 DEF told
<1>5. /\ Gone(base, s.log, t, s.next_output_index, i)
      /\ Grown(s, t)
  <2>1. CASE slot.is_custom
    <3>1. kind = "custom_tool_call"
      BY <2>1 DEF ToolKind
    <3>2. Contract => DeltasAt(s.log, i) = <<>>
      BY <1>4, <2>1
    <3>3. t = DoneCustom(s, i, kind, input)
      BY <2>1, <3>1 DEF DoneCustom
    <3> HIDE DEF t, input, kind
    <3> QED BY <1>2, <1>4, <3>2, <3>3, CloseCustom
  <2>2. CASE ~slot.is_custom
    <3>1. kind = "function_call"
      BY <2>2 DEF ToolKind
    <3>2. Contract => args = DeltasAt(s.log, i)
      BY <1>4, <2>2
    <3>3. t = DoneCall(s, i, kind, args)
      BY <2>2, <3>1 DEF DoneCall
    <3> HIDE DEF t, input, kind
    <3> QED BY <1>2, <1>4, <3>2, <3>3, CloseCall
  <2> QED BY <2>1, <2>2
<1>6. item \in AnItem
  <2> HIDE DEF i, args, t, events, input, kind
  <2> QED BY <1>2, CallItemIs
<1>7. t.completed_items = s.completed_items /\ t \in AState
  BY <1>1, <1>5 DEF Grown, With, AState, Gone
<1>8. close_tool_call_item(s, k) = Keeping(t, Append(s.completed_items, item))
  <2>1. close_tool_call_item(s, k) = [t EXCEPT !.completed_items = Append(@, item)]
    BY DEF close_tool_call_item, slot
  <2> HIDE DEF t, item
  <2> QED BY <1>7, <2>1 DEF Keeping
<1> HIDE DEF t, item, i, args, kind
<1>9. Append(s.completed_items, item) \in Seq(AnItem)
  BY <1>1, <1>6, KeepsItem
<1> QED BY <1>3, <1>5, <1>8, <1>9, Releases

\* What is not held may as well count as closed.
LEMMA NotHeld ==
    ASSUME NEW base, NEW X, NEW s, Sound(base, X, s), NEW x, ~Owned(X, s, x)
    PROVE  Sound(base, X \cup {x}, s)
<1> DEFINE Y == X \cup {x}
<1>1. \A y : Owned(Y, s, y) <=> Owned(X, s, y)
  BY DEF Owned
<1> HIDE DEF Y
<1>2. Items(X, s)
  BY DEF Sound
<1>3. Items(Y, s)
  BY <1>1, <1>2 DEF Items
<1> QED BY <1>3 DEF Sound, Y

\* Nobody else's hand changes when x lets go.
Lets(X, s, t, x) ==
    /\ t \in AState /\ t.log = s.log /\ t.next_sequence_number = s.next_sequence_number
    /\ t.next_output_index = s.next_output_index /\ t.has_started = s.has_started
    /\ SlotsFit(t)
    /\ ~Hand(t, x).open
    /\ \A y \in Names : y # x => Hand(t, y) = Hand(s, y)

\* An accumulator that is cleared need not count as closed any more.
LEMMA Clears ==
    ASSUME NEW base, NEW X, NEW s, NEW x, x \notin X, Sound(base, X \cup {x}, s),
           NEW t, Lets(X, s, t, x)
    PROVE  Sound(base, X, t)
<1> DEFINE Y == X \cup {x}
<1>1. ASSUME NEW y \in Names
      PROVE  /\ Owned(X, t, y) <=> Owned(Y, s, y)
             /\ Owned(Y, s, y) => Hand(t, y) = Hand(s, y)
  <2>1. CASE y = x
    BY <2>1 DEF Owned, Lets
  <2>2. CASE y # x
    BY <2>2 DEF Owned, Lets
  <2> QED BY <2>1, <2>2
<1>2. Sound(base, Y, s)
  OBVIOUS
<1> HIDE DEF Y
<1>3. /\ t \in AState /\ t.log = s.log /\ t.next_sequence_number = s.next_sequence_number
      /\ t.next_output_index = s.next_output_index /\ t.has_started = s.has_started
      /\ SlotsFit(t)
  BY DEF Lets
<1> QED BY <1>1, <1>2, <1>3, Settles

\* The step from i - 1 to i of a walk that stays in P.
LEMMA WalkStays ==
    ASSUME NEW n \in Nat, NEW P, NEW g, g[0] \in P[0],
           \A i \in 1..n : g[i - 1] \in P[i - 1] => g[i] \in P[i]
    PROVE  \A i \in 0..n : g[i] \in P[i]
<1> DEFINE G == {i \in Nat : i <= n => g[i] \in P[i]}
<1>1. 0 \in G
  OBVIOUS
<1>2. ASSUME NEW i \in Nat, i \in G PROVE i + 1 \in G
  <2> SUFFICES ASSUME i + 1 <= n PROVE g[i + 1] \in P[i + 1]
    OBVIOUS
  <2>1. g[i] \in P[i] /\ i + 1 \in 1..n /\ (i + 1) - 1 = i
    BY <1>2
  <2> QED BY <2>1
<1> HIDE DEF G
<1>3. G = Nat
  BY <1>1, <1>2, Inductive DEF G
<1> QED BY <1>3 DEF G

\* st leads from P to P.
Leads(n, D, c, st, P) ==
    /\ n \in Nat /\ c \in P[0]
    /\ \A i \in 0..n : P[i] \subseteq D
    /\ \A i \in 1..n : \A s \in P[i - 1] : st[<<i, s>>] \in P[i]

LEMMA WalkExists ==
    ASSUME NEW n, NEW D, NEW c, NEW st, NEW P, Leads(n, D, c, st, P)
    PROVE  \E f : /\ f = [i \in 0..n |-> f[i]] /\ f[0] = c
                  /\ \A i \in 1..n : f[i] = st[<<i, f[i - 1]>>] /\ f[i - 1] \in D
<1>0. n \in Nat
  BY DEF Leads
<1> DEFINE go == [p \in (1..n) \X D |-> IF st[p] \in D THEN st[p] ELSE p[2]]
<1>1. c \in D
  BY <1>0 DEF Leads
<1>2. go \in [(1..n) \X D -> D]
  OBVIOUS
<1>3. \A i \in 1..n : \A s \in P[i - 1] : go[<<i, s>>] = st[<<i, s>>]
  <2> TAKE i \in 1..n
  <2> TAKE s \in P[i - 1]
  <2>1. i - 1 \in 0..n /\ i \in 0..n
    BY <1>0
  <2>2. s \in D /\ st[<<i, s>>] \in D
    BY <2>1 DEF Leads
  <2> QED BY <2>2
<1> HIDE DEF go
<1>4. \E f : Recurses(f, n, D, c, go)
  BY <1>0, <1>1, <1>2, RecursionExists
<1>5. PICK f : f \in [0..n -> D] /\ f[0] = c /\ \A i \in 1..n : f[i] = go[<<i, f[i - 1]>>]
  BY <1>4 DEF Recurses
<1>6. \A i \in 0..n : f[i] \in P[i]
  <2>1. f[0] \in P[0]
    BY <1>5 DEF Leads
  <2>2. \A i \in 1..n : f[i - 1] \in P[i - 1] => f[i] \in P[i]
    BY <1>3, <1>5 DEF Leads
  <2> QED BY <1>0, <2>1, <2>2, WalkStays
<1>7. \A i \in 1..n : f[i] = st[<<i, f[i - 1]>>] /\ f[i - 1] \in D
  <2> TAKE i \in 1..n
  <2>1. i - 1 \in 0..n
    BY <1>0
  <2> QED BY <1>3, <1>5, <1>6, <2>1
<1>8. f = [i \in 0..n |-> f[i]]
  BY <1>5
<1> QED BY <1>5, <1>7, <1>8

\* A walk over the slots that stays in P ends in it: the close,
LEMMA CloseWalk ==
    ASSUME NEW s, NEW P, s \in P[0], \A i \in 0..SlotCount : P[i] \subseteq AState,
           \A i \in 1..SlotCount : \A t \in P[i - 1] : CloseOpenSlot(t, i - 1) \in P[i]
    PROVE  CloseOpenSlots(s) \in P[SlotCount]
<1> DEFINE n == SlotCount
           step(t, i) == CloseOpenSlot(t, i - 1)
           Solves(f) == f = [k \in 0..n |-> IF k = 0 THEN s ELSE CloseOpenSlot(f[k - 1], k - 1)]
           after == CHOOSE f : Solves(f)
<1>1. n \in Nat /\ \A i \in 1..n : i - 1 \in 0..n /\ i \in 0..n
  OBVIOUS
<1>2. \A i \in 1..n : \A t \in P[i - 1] : step(t, i) \in P[i]
  OBVIOUS
<1>3. \A i \in 0..n : P[i] \subseteq AState
  OBVIOUS
<1>4. CloseOpenSlots(s) = after[n]
  BY DEF CloseOpenSlots
<1> HIDE DEF n, step
<1>5. \E f : Solves(f)
  <2> DEFINE D == AState
             st == [p \in (1..n) \X D |-> step(p[2], p[1])]
  <2>1. \A i \in 1..n : \A t \in D : st[<<i, t>>] = step(t, i)
    OBVIOUS
  <2>2. \A i \in 0..n : P[i] \subseteq D
    BY <1>3
  <2> HIDE DEF D, st
  <2>3. Leads(n, D, s, st, P)
    <3>1. \A i \in 1..n : \A t \in P[i - 1] : st[<<i, t>>] \in P[i]
      <4> TAKE i \in 1..n
      <4> TAKE t \in P[i - 1]
      <4>1. t \in D
        BY <1>1, <2>2
      <4> QED BY <1>2, <2>1, <4>1
    <3> QED BY <1>1, <2>2, <3>1 DEF Leads
  <2>4. PICK f : /\ f = [i \in 0..n |-> f[i]] /\ f[0] = s
                 /\ \A i \in 1..n : f[i] = st[<<i, f[i - 1]>>] /\ f[i - 1] \in D
    BY <2>3, WalkExists
  <2>5. \A i \in 0..n : f[i] = IF i = 0 THEN s ELSE step(f[i - 1], i)
    <3>1. \A i \in 1..n : f[i] = step(f[i - 1], i)
      BY <2>1, <2>4
    <3>2. \A i \in 0..n : i = 0 \/ i \in 1..n
      BY <1>1
    <3>3. \A i \in 1..n : i # 0
      OBVIOUS
    <3> QED BY <2>4, <3>1, <3>2, <3>3
  <2> DEFINE g == [k \in 0..n |-> IF k = 0 THEN s ELSE CloseOpenSlot(f[k - 1], k - 1)]
  <2>6. f = g
    BY <2>4, <2>5, Zenon DEF step
  <2> QED BY <2>6, Zenon
<1>6. Solves(after)
  BY <1>5, Zenon
<1>7. \A i \in 0..n : after[i] = IF i = 0 THEN s ELSE step(after[i - 1], i)
  <2> DEFINE g == [k \in 0..n |-> IF k = 0 THEN s ELSE CloseOpenSlot(after[k - 1], k - 1)]
  <2> TAKE i \in 0..n
  <2>1. after = g
    BY <1>6, Zenon
  <2>2. g[i] = IF i = 0 THEN s ELSE step(after[i - 1], i)
    BY Zenon DEF step
  <2> HIDE DEF g
  <2> QED BY <2>1, <2>2, Zenon
<1> HIDE DEF after, Solves
<1>8. after[n] \in P[n]
  <2>1. after[0] \in P[0]
    BY <1>1, <1>7
  <2>2. \A i \in 1..n : after[i - 1] \in P[i - 1] => after[i] \in P[i]
    BY <1>1, <1>2, <1>7
  <2>3. \A i \in 0..n : after[i] \in P[i]
    BY <1>1, <2>1, <2>2, WalkStays
  <2> QED BY <1>1, <2>3
<1> QED BY <1>4, <1>8 DEF n

\* the close that clears,
LEMMA ClearWalk ==
    ASSUME NEW s, NEW P, s \in P[0], \A i \in 0..SlotCount : P[i] \subseteq AState,
           \A i \in 1..SlotCount : \A t \in P[i - 1] : CloseAndClearSlot(t, i - 1) \in P[i]
    PROVE  CloseAndClearSlots(s) \in P[SlotCount]
<1> DEFINE n == SlotCount
           step(t, i) == CloseAndClearSlot(t, i - 1)
           Solves(f) == f = [k \in 0..n |-> IF k = 0 THEN s ELSE CloseAndClearSlot(f[k - 1], k - 1)]
           after == CHOOSE f : Solves(f)
<1>1. n \in Nat /\ \A i \in 1..n : i - 1 \in 0..n /\ i \in 0..n
  OBVIOUS
<1>2. \A i \in 1..n : \A t \in P[i - 1] : step(t, i) \in P[i]
  OBVIOUS
<1>3. \A i \in 0..n : P[i] \subseteq AState
  OBVIOUS
<1>4. CloseAndClearSlots(s) = after[n]
  BY DEF CloseAndClearSlots
<1> HIDE DEF n, step
<1>5. \E f : Solves(f)
  <2> DEFINE D == AState
             st == [p \in (1..n) \X D |-> step(p[2], p[1])]
  <2>1. \A i \in 1..n : \A t \in D : st[<<i, t>>] = step(t, i)
    OBVIOUS
  <2>2. \A i \in 0..n : P[i] \subseteq D
    BY <1>3
  <2> HIDE DEF D, st
  <2>3. Leads(n, D, s, st, P)
    <3>1. \A i \in 1..n : \A t \in P[i - 1] : st[<<i, t>>] \in P[i]
      <4> TAKE i \in 1..n
      <4> TAKE t \in P[i - 1]
      <4>1. t \in D
        BY <1>1, <2>2
      <4> QED BY <1>2, <2>1, <4>1
    <3> QED BY <1>1, <2>2, <3>1 DEF Leads
  <2>4. PICK f : /\ f = [i \in 0..n |-> f[i]] /\ f[0] = s
                 /\ \A i \in 1..n : f[i] = st[<<i, f[i - 1]>>] /\ f[i - 1] \in D
    BY <2>3, WalkExists
  <2>5. \A i \in 0..n : f[i] = IF i = 0 THEN s ELSE step(f[i - 1], i)
    <3>1. \A i \in 1..n : f[i] = step(f[i - 1], i)
      BY <2>1, <2>4
    <3>2. \A i \in 0..n : i = 0 \/ i \in 1..n
      BY <1>1
    <3>3. \A i \in 1..n : i # 0
      OBVIOUS
    <3> QED BY <2>4, <3>1, <3>2, <3>3
  <2> DEFINE g == [k \in 0..n |-> IF k = 0 THEN s ELSE CloseAndClearSlot(f[k - 1], k - 1)]
  <2>6. f = g
    BY <2>4, <2>5, Zenon DEF step
  <2> QED BY <2>6, Zenon
<1>6. Solves(after)
  BY <1>5, Zenon
<1>7. \A i \in 0..n : after[i] = IF i = 0 THEN s ELSE step(after[i - 1], i)
  <2> DEFINE g == [k \in 0..n |-> IF k = 0 THEN s ELSE CloseAndClearSlot(after[k - 1], k - 1)]
  <2> TAKE i \in 0..n
  <2>1. after = g
    BY <1>6, Zenon
  <2>2. g[i] = IF i = 0 THEN s ELSE step(after[i - 1], i)
    BY Zenon DEF step
  <2> HIDE DEF g
  <2> QED BY <2>1, <2>2, Zenon
<1> HIDE DEF after, Solves
<1>8. after[n] \in P[n]
  <2>1. after[0] \in P[0]
    BY <1>1, <1>7
  <2>2. \A i \in 1..n : after[i - 1] \in P[i - 1] => after[i] \in P[i]
    BY <1>1, <1>2, <1>7
  <2>3. \A i \in 0..n : after[i] \in P[i]
    BY <1>1, <2>1, <2>2, WalkStays
  <2> QED BY <1>1, <2>3
<1> QED BY <1>4, <1>8 DEF n

\* and the deltas of the calls.
LEMMA DeltaWalk ==
    ASSUME NEW s, NEW tools \in Seq(ToolDelta), NEW m, NEW P, s \in P[0], \A i \in 0..Len(tools) : P[i] \subseteq AState,
           \A i \in 1..Len(tools) : \A t \in P[i - 1] : emit_tool_call_delta(t, tools[i], ArgsPiece(m, tools, i)) \in P[i]
    PROVE  emit_tool_call_deltas(s, tools, m) \in P[Len(tools)]
<1> DEFINE n == Len(tools)
           step(t, i) == emit_tool_call_delta(t, tools[i], ArgsPiece(m, tools, i))
           Solves(f) == f = [j \in 0..n |-> IF j = 0 THEN s ELSE emit_tool_call_delta(f[j - 1], tools[j], ArgsPiece(m, tools, j))]
           after == CHOOSE f : Solves(f)
<1>1. n \in Nat /\ \A i \in 1..n : i - 1 \in 0..n /\ i \in 0..n
  OBVIOUS
<1>2. \A i \in 1..n : \A t \in P[i - 1] : step(t, i) \in P[i]
  OBVIOUS
<1>3. \A i \in 0..n : P[i] \subseteq AState
  OBVIOUS
<1>4. emit_tool_call_deltas(s, tools, m) = after[n]
  BY DEF emit_tool_call_deltas
<1> HIDE DEF n, step
<1>5. \E f : Solves(f)
  <2> DEFINE D == AState
             st == [p \in (1..n) \X D |-> step(p[2], p[1])]
  <2>1. \A i \in 1..n : \A t \in D : st[<<i, t>>] = step(t, i)
    OBVIOUS
  <2>2. \A i \in 0..n : P[i] \subseteq D
    BY <1>3
  <2> HIDE DEF D, st
  <2>3. Leads(n, D, s, st, P)
    <3>1. \A i \in 1..n : \A t \in P[i - 1] : st[<<i, t>>] \in P[i]
      <4> TAKE i \in 1..n
      <4> TAKE t \in P[i - 1]
      <4>1. t \in D
        BY <1>1, <2>2
      <4> QED BY <1>2, <2>1, <4>1
    <3> QED BY <1>1, <2>2, <3>1 DEF Leads
  <2>4. PICK f : /\ f = [i \in 0..n |-> f[i]] /\ f[0] = s
                 /\ \A i \in 1..n : f[i] = st[<<i, f[i - 1]>>] /\ f[i - 1] \in D
    BY <2>3, WalkExists
  <2>5. \A i \in 0..n : f[i] = IF i = 0 THEN s ELSE step(f[i - 1], i)
    <3>1. \A i \in 1..n : f[i] = step(f[i - 1], i)
      BY <2>1, <2>4
    <3>2. \A i \in 0..n : i = 0 \/ i \in 1..n
      BY <1>1
    <3>3. \A i \in 1..n : i # 0
      OBVIOUS
    <3> QED BY <2>4, <3>1, <3>2, <3>3
  <2> DEFINE g == [j \in 0..n |-> IF j = 0 THEN s ELSE emit_tool_call_delta(f[j - 1], tools[j], ArgsPiece(m, tools, j))]
  <2>6. f = g
    BY <2>4, <2>5, Zenon DEF step
  <2> QED BY <2>6, Zenon
<1>6. Solves(after)
  BY <1>5, Zenon
<1>7. \A i \in 0..n : after[i] = IF i = 0 THEN s ELSE step(after[i - 1], i)
  <2> DEFINE g == [j \in 0..n |-> IF j = 0 THEN s ELSE emit_tool_call_delta(after[j - 1], tools[j], ArgsPiece(m, tools, j))]
  <2> TAKE i \in 0..n
  <2>1. after = g
    BY <1>6, Zenon
  <2>2. g[i] = IF i = 0 THEN s ELSE step(after[i - 1], i)
    BY Zenon DEF step
  <2> HIDE DEF g
  <2> QED BY <2>1, <2>2, Zenon
<1> HIDE DEF after, Solves
<1>8. after[n] \in P[n]
  <2>1. after[0] \in P[0]
    BY <1>1, <1>7
  <2>2. \A i \in 1..n : after[i - 1] \in P[i - 1] => after[i] \in P[i]
    BY <1>1, <1>2, <1>7
  <2>3. \A i \in 0..n : after[i] \in P[i]
    BY <1>1, <2>1, <2>2, WalkStays
  <2> QED BY <1>1, <2>3
<1> QED BY <1>4, <1>8 DEF n

LEMMA SlotsClose ==
    ASSUME NEW base, NEW X, NEW s, Sound(base, X, s), \A k \in Slots : k \notin X
    PROVE  /\ Sound(base, X \cup Slots, CloseOpenSlots(s))
           /\ Stays(s, CloseOpenSlots(s))
<1> DEFINE n == SlotCount
           Y(i) == X \cup {k \in Slots : k < i}
           P == [i \in 0..n |-> {t \in AState : Sound(base, Y(i), t) /\ Stays(s, t)}]
<1>1. /\ n \in Nat /\ \A i \in 1..n : i - 1 \in 0..n /\ i \in 0..n /\ i - 1 \in Slots
  BY DEF Slots
<1>2. s \in P[0]
  <2>1. Y(0) = X
    BY DEF Slots
  <2>2. 0 \in 0..n
    BY <1>1
  <2>3. Stays(s, s)
    BY DEF Stays
  <2> HIDE DEF Y, n
  <2> QED BY <2>1, <2>2, <2>3 DEF Sound
<1>3. ASSUME NEW i \in 1..n, NEW t \in P[i - 1] PROVE CloseOpenSlot(t, i - 1) \in P[i]
  <2> DEFINE k == i - 1
             u == CloseOpenSlot(t, k)
  <2>1. k \in Slots /\ k \in 0..n /\ i \in 0..n
    BY <1>1
  <2>2. t \in AState /\ Sound(base, Y(k), t) /\ Stays(s, t)
    <3> HIDE DEF Y, n, k
    <3>1. t \in P[k]
      BY <1>3 DEF k
    <3> QED BY <2>1, <3>1
  <2>3. Y(i) = Y(k) \cup {k} /\ k \notin Y(k)
    BY <1>1, <2>1 DEF Slots
  <2> HIDE DEF Y, k
  <2>4. Sound(base, Y(i), u) /\ Stays(s, u)
    <3>1. CASE t.tool_calls[k].id = ""
      <4>1. u = t
        BY <3>1 DEF CloseOpenSlot
      <4>2. ~Owned(Y(k), t, k)
        BY <2>1, <3>1, SlotHand DEF Owned
      <4> QED BY <2>2, <2>3, <4>1, <4>2, NotHeld
    <3>2. CASE t.tool_calls[k].id # ""
      <4>1. u = close_tool_call_item(t, k)
        BY <3>2 DEF CloseOpenSlot
      <4> DEFINE Z == Y(k)
      <4>2. k \in Slots /\ k \notin Z /\ Sound(base, Z, t) /\ t.tool_calls[k].id # ""
        BY <2>1, <2>2, <2>3, <3>2
      <4> HIDE DEF Z
      <4>3. /\ Sound(base, Z \cup {k}, close_tool_call_item(t, k))
            /\ Stays(t, close_tool_call_item(t, k))
        BY <4>2, CallCloses
      <4>4. Stays(s, u)
        BY <2>2, <4>1, <4>3 DEF Stays
      <4> QED BY <2>3, <4>1, <4>3, <4>4 DEF Z
    <3> QED BY <3>1, <3>2
  <2>5. u \in AState
    BY <2>4 DEF Sound
  <2> HIDE DEF u, n
  <2>6. u \in P[i]
    BY <2>1, <2>4, <2>5
  <2> QED BY <2>6 DEF u, k
<1>4. \A i \in 0..n : P[i] \subseteq AState
  <2> HIDE DEF Y, n
  <2> QED OBVIOUS
<1> HIDE DEF P
<1>5. CloseOpenSlots(s) \in P[n]
  BY <1>2, <1>3, <1>4, CloseWalk
<1>6. Y(n) = X \cup Slots
  BY DEF Slots
<1> HIDE DEF Y
<1>7. Sound(base, Y(n), CloseOpenSlots(s)) /\ Stays(s, CloseOpenSlots(s))
  <2> HIDE DEF n
  <2> QED BY <1>1, <1>5 DEF P
<1> QED BY <1>6, <1>7

\* s with this in slot k.
Slotted(s, k, slot) == [s EXCEPT !.tool_calls = [s.tool_calls EXCEPT ![k] = slot]]

\* t is s with this in slot k, and the others see no change.
IsSlotted(s, k, slot, t) ==
    /\ t \in AState /\ t.log = s.log /\ t.next_sequence_number = s.next_sequence_number
    /\ t.next_output_index = s.next_output_index /\ t.has_started = s.has_started
    /\ t.tool_calls[k] = slot /\ \A j \in Slots : j # k => t.tool_calls[j] = s.tool_calls[j]
    /\ \A y \in Names : y # k => Hand(t, y) = Hand(s, y)

LEMMA SlottedIs ==
    ASSUME NEW s \in AState, NEW k \in Slots, NEW slot \in ASlot
    PROVE  IsSlotted(s, k, slot, Slotted(s, k, slot))
<1> DEFINE t == Slotted(s, k, slot)
<1>1. /\ t \in AState /\ t.log = s.log /\ t.next_sequence_number = s.next_sequence_number
      /\ t.next_output_index = s.next_output_index /\ t.has_started = s.has_started
  BY DEF Slotted, AState
<1>2. /\ t.reasoning_content = s.reasoning_content
      /\ t.reasoning_output_index = s.reasoning_output_index
      /\ t.accumulated_text = s.accumulated_text /\ t.msg_output_index = s.msg_output_index
  BY DEF Slotted, AState
<1>3. t.tool_calls[k] = slot /\ \A j \in Slots : j # k => t.tool_calls[j] = s.tool_calls[j]
  BY DEF Slotted, AState
<1> HIDE DEF t
<1>4. ASSUME NEW y \in Names, y # k PROVE Hand(t, y) = Hand(s, y)
  <2>1. CASE y \in Slots
    <3>1. t.tool_calls[y] = s.tool_calls[y]
      BY <1>3, <1>4, <2>1
    <3> QED BY <1>2, <3>1 DEF Hand
  <2>2. CASE y = -2
    BY <1>2, <2>2 DEF Hand
  <2>3. CASE y = -1
    BY <1>2, <2>3 DEF Hand
  <2> QED BY <2>1, <2>2, <2>3, NamesAre
<1>5. IsSlotted(s, k, slot, t)
  BY <1>1, <1>3, <1>4, Zenon DEF IsSlotted
<1> QED BY <1>5 DEF t

LEMMA CallClears ==
    ASSUME NEW base, NEW s, Sound(base, {}, s), NEW k \in Slots
    PROVE  Sound(base, {}, CloseAndClearSlot(s, k))
<1>1. CASE s.tool_calls[k].id = ""
  BY <1>1 DEF CloseAndClearSlot
<1>2. CASE s.tool_calls[k].id # ""
  <2> DEFINE u == close_tool_call_item(s, k)
             v == CloseAndClearSlot(s, k)
             slot == [u.tool_calls[k] EXCEPT !.id = "", !.arguments = <<>>]
             X == {}
  <2>1. Sound(base, X \cup {k}, u) /\ k \notin X
    BY <1>2, CallCloses
  <2>2. v = [u EXCEPT !.tool_calls[k].id = "", !.tool_calls[k].arguments = <<>>]
    BY <1>2 DEF CloseAndClearSlot
  <2> HIDE DEF u, v
  <2>3. u \in AState /\ u.tool_calls[k] \in ASlot /\ SlotsFit(u)
    BY <2>1 DEF Sound, AState
  <2>4. v = Slotted(u, k, slot)
    BY <2>2, <2>3 DEF Slotted, AState, ASlot
  <2>5. /\ slot \in ASlot /\ slot.id = "" /\ slot.arguments = <<>>
        /\ slot.is_custom = u.tool_calls[k].is_custom
    <3> DEFINE old == u.tool_calls[k]
    <3>1. old \in ASlot /\ <<>> \in Seq(PieceType) /\ "" \in {"", "call"}
      BY <2>3
    <3> HIDE DEF old
    <3>2. [old EXCEPT !.id = "", !.arguments = <<>>] \in ASlot
      BY <3>1 DEF ASlot
    <3>3. slot = [old EXCEPT !.id = "", !.arguments = <<>>]
      BY DEF old
    <3>4. slot.id = "" /\ slot.arguments = <<>> /\ slot.is_custom = old.is_custom
      BY <3>1, <3>3 DEF ASlot
    <3> QED BY <3>2, <3>3, <3>4 DEF old
  <2> HIDE DEF slot
  <2>6. /\ v \in AState /\ v.log = u.log /\ v.next_sequence_number = u.next_sequence_number
        /\ v.next_output_index = u.next_output_index /\ v.has_started = u.has_started
        /\ v.tool_calls[k] = slot /\ \A j \in Slots : j # k => v.tool_calls[j] = u.tool_calls[j]
        /\ \A y \in Names : y # k => Hand(v, y) = Hand(u, y)
    <3> DEFINE w == Slotted(u, k, slot)
    <3>0. u \in AState /\ slot \in ASlot
      BY <2>3, <2>5
    <3>1. IsSlotted(u, k, slot, w)
      BY <3>0, SlottedIs
    <3>2. v = w
      BY <2>4
    <3> HIDE DEF w
    <3> QED BY <3>1, <3>2, Zenon DEF IsSlotted
  <2>7. SlotsFit(v)
    <3> SUFFICES ASSUME NEW j \in Slots
                 PROVE  /\ v.tool_calls[j].is_custom => j \in CustomSlots
                        /\ v.tool_calls[j].id # "" /\ j \in CustomSlots => v.tool_calls[j].is_custom
                        /\ Contract /\ v.tool_calls[j].id = "" => v.tool_calls[j].arguments = <<>>
      BY DEF SlotsFit
    <3>1. CASE j = k
      BY <2>3, <2>5, <2>6, <3>1 DEF SlotsFit
    <3>2. CASE j # k
      BY <2>3, <2>6, <3>2 DEF SlotsFit
    <3> QED BY <3>1, <3>2
  <2>8. ~Hand(v, k).open
    BY <2>5, <2>6, SlotHand
  <2>9. Lets(X, u, v, k)
    BY <2>6, <2>7, <2>8 DEF Lets
  <2> HIDE DEF X
  <2>10. Sound(base, X, v)
    BY <2>1, <2>9, Clears
  <2> QED BY <2>10 DEF X, v
<1> QED BY <1>1, <1>2

LEMMA SlotsClear ==
    ASSUME NEW base, NEW s, Sound(base, {}, s)
    PROVE  Sound(base, {}, CloseAndClearSlots(s))
<1> DEFINE n == SlotCount
           D == {t \in AState : Sound(base, {}, t)}
           P == [i \in 0..n |-> D]
<1>1. /\ n \in Nat /\ \A i \in 1..n : i - 1 \in 0..n /\ i \in 0..n /\ i - 1 \in Slots
  BY DEF Slots
<1>2. s \in D /\ D \subseteq AState /\ \A t \in D : Sound(base, {}, t)
  BY DEF Sound
<1>3. ASSUME NEW i \in 1..n, NEW t \in D PROVE CloseAndClearSlot(t, i - 1) \in D
  <2>1. Sound(base, {}, CloseAndClearSlot(t, i - 1))
    BY <1>1, <1>2, CallClears
  <2> QED BY <2>1 DEF Sound
<1> HIDE DEF D
<1>4. \A i \in 0..n : P[i] = D
  OBVIOUS
<1> HIDE DEF P
<1>5. CloseAndClearSlots(s) \in P[n]
  BY <1>1, <1>2, <1>3, <1>4, ClearWalk
<1> QED BY <1>1, <1>2, <1>4, <1>5

LEMMA ReasoningClears ==
    ASSUME NEW base, NEW s, Sound(base, {}, s), s.reasoning_content # <<>>,
           NEW t, t = [close_reasoning_item(s) EXCEPT !.reasoning_content = <<>>]
    PROVE  Sound(base, {}, t) /\ SameTools(s, t)
<1> DEFINE u == close_reasoning_item(s)
           X == {}
<1>1. Sound(base, X \cup {-2}, u) /\ SameTools(s, u) /\ -2 \notin X
  BY ReasoningCloses
<1> HIDE DEF u
<1>2. u \in AState /\ SlotsFit(u)
  BY <1>1 DEF Sound
<1>3. <<>> \in Seq(PieceType)
  OBVIOUS
<1>4. /\ t \in AState /\ t.log = u.log /\ t.next_sequence_number = u.next_sequence_number
      /\ t.next_output_index = u.next_output_index /\ t.has_started = u.has_started
      /\ t.tool_calls = u.tool_calls /\ t.reasoning_content = <<>>
      /\ t.accumulated_text = u.accumulated_text /\ t.msg_output_index = u.msg_output_index
  BY <1>2, <1>3 DEF AState, u
<1>5. \A y \in Names : y # -2 => Hand(t, y) = Hand(u, y)
  BY <1>4 DEF Hand
<1>6. ~Hand(t, -2).open /\ SlotsFit(t)
  <2>1. Hand(t, -2).open = (t.reasoning_content # <<>>) /\ t.reasoning_content = <<>>
    BY <1>4, HandOf
  <2>2. t.tool_calls = u.tool_calls
    BY <1>4
  <2>3. SlotsFit(t)
    BY <1>2, <2>2, Zenon DEF SlotsFit
  <2> QED BY <2>1, <2>3, Zenon
<1>7. Lets(X, u, t, -2)
  BY <1>4, <1>5, <1>6 DEF Lets
<1>8. SameTools(s, t)
  BY <1>1, <1>4 DEF SameTools
<1> HIDE DEF X
<1>9. Sound(base, X, t)
  BY <1>1, <1>7, Clears
<1> QED BY <1>8, <1>9 DEF X

LEMMA MessageClears ==
    ASSUME NEW base, NEW s, Sound(base, {}, s), s.accumulated_text # <<>>,
           NEW t, t = [close_message_item(s) EXCEPT !.accumulated_text = <<>>, !.has_refusal = FALSE]
    PROVE  Sound(base, {}, t) /\ SameTools(s, t)
<1> DEFINE u == close_message_item(s)
           X == {}
<1>1. Sound(base, X \cup {-1}, u) /\ SameTools(s, u) /\ -1 \notin X
  BY MessageCloses
<1> HIDE DEF u
<1>2. u \in AState /\ SlotsFit(u)
  BY <1>1 DEF Sound
<1>3. <<>> \in Seq(PieceType)
  OBVIOUS
<1>4. /\ t \in AState /\ t.log = u.log /\ t.next_sequence_number = u.next_sequence_number
      /\ t.next_output_index = u.next_output_index /\ t.has_started = u.has_started
      /\ t.tool_calls = u.tool_calls /\ t.accumulated_text = <<>>
      /\ t.reasoning_content = u.reasoning_content
      /\ t.reasoning_output_index = u.reasoning_output_index
  BY <1>2, <1>3 DEF AState, u
<1>5. \A y \in Names : y # -1 => Hand(t, y) = Hand(u, y)
  BY <1>4 DEF Hand
<1>6. ~Hand(t, -1).open /\ SlotsFit(t)
  <2>1. Hand(t, -1).open = (t.accumulated_text # <<>>) /\ t.accumulated_text = <<>>
    BY <1>4, HandOf
  <2>2. t.tool_calls = u.tool_calls
    BY <1>4
  <2>3. SlotsFit(t)
    BY <1>2, <2>2, Zenon DEF SlotsFit
  <2> QED BY <2>1, <2>3, Zenon
<1>7. Lets(X, u, t, -1)
  BY <1>4, <1>5, <1>6 DEF Lets
<1>8. SameTools(s, t)
  BY <1>1, <1>4 DEF SameTools
<1> HIDE DEF X
<1>9. Sound(base, X, t)
  BY <1>1, <1>7, Clears
<1> QED BY <1>8, <1>9 DEF X

\* The items whose deltas stopped are closed, and calls only when text follows.
LEMMA TransitionsKeep ==
    ASSUME NEW base, NEW s, Sound(base, {}, s), NEW c
    PROVE  /\ Sound(base, {}, Transitions(s, c))
           /\ ~HasText(c) => SameTools(s, Transitions(s, c))
<1> DEFINE s1 == IF s.reasoning_content # <<>> /\ ~c.reasoning
                 THEN [close_reasoning_item(s) EXCEPT !.reasoning_content = <<>>]
                 ELSE s
           s2 == IF s1.accumulated_text # <<>> /\ ~HasText(c) /\ c.has_tools
                 THEN [close_message_item(s1) EXCEPT !.accumulated_text = <<>>,
                                                     !.has_refusal = FALSE]
                 ELSE s1
           s3 == IF HasText(c) THEN CloseAndClearSlots(s2) ELSE s2
<1>1. Sound(base, {}, s1) /\ SameTools(s, s1)
  <2>1. CASE s.reasoning_content # <<>> /\ ~c.reasoning
    BY <2>1, ReasoningClears
  <2>2. CASE ~(s.reasoning_content # <<>> /\ ~c.reasoning)
    BY <2>2 DEF SameTools
  <2> QED BY <2>1, <2>2
<1>2. Transitions(s, c) = s3
  BY DEF Transitions
<1> HIDE DEF s1
<1>3. Sound(base, {}, s2) /\ SameTools(s1, s2)
  <2> DEFINE p == s1.accumulated_text # <<>> /\ ~HasText(c) /\ c.has_tools
  <2>1. CASE p
    BY <1>1, <2>1, MessageClears
  <2>2. CASE ~p
    BY <1>1, <2>2 DEF SameTools
  <2> QED BY <2>1, <2>2
<1> HIDE DEF s2
<1>4. Sound(base, {}, s3)
  BY <1>3, SlotsClear
<1>5. ~HasText(c) => SameTools(s, s3)
  BY <1>1, <1>3 DEF SameTools
<1> QED BY <1>2, <1>4, <1>5

-----------------------------------------------------------------------------
(* Opening an item and adding to it                                        *)

LEMMA GrammarUpTo ==
    ASSUME NEW log, NEW i, NEW kind, NEW r \in 1..3, Grammar(log, i, kind, r)
    PROVE  Grammar(log, i, kind, 3)
<1>1. \A a \in EventsAt(log, i) :
         log[a].kind = kind /\ log[a].type \in Types /\ Rank(log[a].type) <= 3
  <2> TAKE a \in EventsAt(log, i)
  <2>1. log[a].kind = kind /\ log[a].type \in Types /\ Rank(log[a].type) <= r
    BY DEF Grammar
  <2>2. Rank(log[a].type) \in 1..6
    BY <2>1, Ranks
  <2> QED BY <2>1, <2>2
<1> QED BY <1>1 DEF Grammar

SameLog(s, t) == t.log = s.log /\ t.next_sequence_number = s.next_sequence_number

LEMMA GoingAlso ==
    ASSUME NEW base, NEW before, NEW s, NEW n, NEW i, NEW kind, NEW r, NEW data,
           Going(base, before, s, n, i, kind, r, data), NEW t \in AState, SameLog(s, t)
    PROVE  Going(base, before, t, n, i, kind, r, data)
BY DEF Going, SameLog

\* From s to t accumulator x opens item i or goes on with it.
Extends(s, t, x, i, kind, said) ==
    /\ t \in AState /\ t.has_started /\ SlotsFit(t) /\ x \in Names
    /\ IF Hand(s, x).open
       THEN Hand(s, x).at = i /\ t.next_output_index = s.next_output_index
       ELSE s.next_output_index = i /\ t.next_output_index = i + 1
    /\ \A y \in Names : y # x => Hand(t, y) = Hand(s, y)
    /\ Hand(t, x).open => /\ Hand(t, x).at = i /\ Hand(t, x).kind = kind
                          /\ Contract => Hand(t, x).data = said
    /\ ~Hand(t, x).open => ~Contract

LEMMA Grows ==
    ASSUME NEW base, NEW s, Sound(base, {}, s), NEW t, NEW x, NEW i, NEW kind,
           NEW r \in 1..3, NEW said,
           Going(base, s.log, t, t.next_output_index, i, kind, r, said),
           Extends(s, t, x, i, kind, said)
    PROVE  Sound(base, {}, t)
<1>1. /\ t \in AState /\ Kept(base, t.log, t.next_sequence_number, t.next_output_index)
      /\ LogStep(s.log, t.log, i) /\ Grammar(t.log, i, kind, r)
      /\ DeltasAt(t.log, i) = said /\ i \in Nat
  BY DEF Going, Life
<1>2. Items({}, s) /\ s.next_output_index \in Nat
  BY DEF Sound, AState
<1>3. \A u, y : Owned({}, u, y) <=> Hand(u, y).open
  BY DEF Owned
<1>4. Grammar(t.log, i, kind, 3)
  BY <1>1, GrammarUpTo
<1>5. Moves({}, s, {}, t, x, i)
  <2>1. x \in Names /\ \A y \in Names : y # x => /\ Owned({}, t, y) <=> Owned({}, s, y)
                                                 /\ Hand(t, y) = Hand(s, y)
    BY <1>3 DEF Extends
  <2>2. IF Owned({}, s, x)
        THEN Hand(s, x).at = i /\ t.next_output_index = s.next_output_index
        ELSE s.next_output_index = i /\ t.next_output_index = i + 1
    BY <1>3 DEF Extends
  <2>3. ASSUME Owned({}, t, x)
        PROVE  Hand(t, x).at = i /\ OpenAt(t.log, i, Hand(t, x).kind, Hand(t, x).data)
    BY <1>1, <1>3, <1>4, <2>3 DEF Extends, OpenAt
  <2>4. ASSUME ~Owned({}, t, x) PROVE Rests(t.log, i)
    BY <1>3, <1>4, <2>4 DEF Extends, Rests
  <2> QED BY <1>1, <1>2, <2>1, <2>2, <2>3, <2>4 DEF Moves
<1>6. Items({}, t)
  BY <1>2, <1>5, ItemsMove
<1> QED BY <1>1, <1>6 DEF Sound, Extends

\* From s to t accumulator x opens an item or goes on with its own.
Advances(base, s, t, x) ==
    \E i, kind, said : \E r \in 1..3 :
        /\ Going(base, s.log, t, t.next_output_index, i, kind, r, said)
        /\ Extends(s, t, x, i, kind, said)

LEMMA AdvancesAre ==
    ASSUME NEW base, NEW s, NEW t, NEW x, NEW i, NEW kind, NEW r \in 1..3, NEW said,
           Going(base, s.log, t, t.next_output_index, i, kind, r, said),
           Extends(s, t, x, i, kind, said)
    PROVE  Advances(base, s, t, x)
BY Zenon DEF Advances

\* The events that announce an item at the next index.
LEMMA Announces ==
    ASSUME NEW base, NEW X, NEW s, Sound(base, X, s), NEW u \in AState, SameLog(s, u),
           NEW kind \in Kinds
    PROVE  LET e == Event("item_added", s.next_output_index, kind, <<>>)
           IN  /\ Going(base, s.log, Emit(u, e), s.next_output_index + 1,
                        s.next_output_index, kind, 1, <<>>)
               /\ Grown(u, Emit(u, e))
<1> DEFINE n == s.next_output_index
           e == Event("item_added", n, kind, <<>>)
           q == u.next_sequence_number
           t == Emit(u, e)
<1>1. /\ Kept(base, u.log, q, n) /\ n \in Nat /\ u.log = s.log
  BY DEF Sound, AState, SameLog
<1>2. "item_added" \in Types /\ <<>> \in Seq(PieceType)
  BY DEF Types
<1>3. e \in Plain /\ e.index = n /\ e.type = "item_added" /\ e.kind = kind
  <2> DEFINE none == <<>>
             type == "item_added"
  <2>1. n \in Nat /\ none \in Seq(PieceType) /\ type \in Types
    BY <1>1, <1>2
  <2> HIDE DEF n, none, type
  <2>2. /\ Event(type, n, kind, none) \in Plain
        /\ Event(type, n, kind, none).type = type /\ Event(type, n, kind, none).index = n
        /\ Event(type, n, kind, none).kind = kind
    BY <2>1, EventIs
  <2>3. e = Event(type, n, kind, none)
    BY DEF none, type
  <2> HIDE DEF e
  <2> QED BY <2>2, <2>3 DEF type
<1> HIDE DEF e
<1>4. /\ t \in AState /\ t.log = Append(u.log, Num(e, q)) /\ t.next_sequence_number = q + 1
      /\ Grown(u, t)
  BY <1>3, EmitStep
<1> HIDE DEF t
<1>5. /\ Life(u.log, Append(u.log, Num(e, q)), n, e.kind, 1, <<>>)
      /\ Kept(base, Append(u.log, Num(e, q)), q + 1, n + 1)
  <2> HIDE DEF n, q
  <2> QED BY <1>1, <1>3, LifeBegins
<1>6. Going(base, s.log, t, n + 1, n, kind, 1, <<>>)
  <2>1. n < n + 1
    BY <1>1
  <2> QED BY <1>1, <1>3, <1>4, <1>5, <2>1 DEF Going
<1> QED BY <1>4, <1>6 DEF t, e

\* The two events that announce a reasoning item or a message.
LEMMA AnnouncesPart ==
    ASSUME NEW base, NEW X, NEW s, Sound(base, X, s), NEW u \in AState, SameLog(s, u),
           NEW kind \in Kinds, NEW n, n = s.next_output_index, NEW t,
           t = EmitAll(u, <<Event("item_added", n, kind, <<>>),
                            Event("part_added", n, kind, <<>>)>>)
    PROVE  Going(base, s.log, t, n + 1, n, kind, 2, <<>>) /\ Grown(u, t)
<1> DEFINE d == Event("item_added", n, kind, <<>>)
           e == Event("part_added", n, kind, <<>>)
           m == n + 1
           u1 == Emit(u, d)
<1>1. n \in Nat
  BY DEF Sound, AState
<1>2. <<>> \in Seq(PieceType)
  OBVIOUS
<1>3. d \in Plain
  <2>1. "item_added" \in Types
    BY DEF Types
  <2> QED BY <1>1, <1>2, <2>1, EventIs
<1>4. t = Emit(u1, e)
  <2>1. t = EmitAll(u, <<d, e>>)
    OBVIOUS
  <2> HIDE DEF d, e
  <2> QED BY <1>3, <2>1, EmitTwo
<1>5. Going(base, s.log, u1, m, n, kind, 1, <<>>) /\ Grown(u, u1)
  BY Announces
<1> HIDE DEF u1, d, m
<1>6. /\ Going(base, s.log, Emit(u1, e), m, n, kind, 2, <<>>)
      /\ Grown(u1, Emit(u1, e))
  <2> DEFINE none == <<>>
  <2>1. Going(base, s.log, u1, m, n, kind, 1, none) /\ none \in Seq(PieceType)
    BY <1>5
  <2> HIDE DEF none
  <2>2. /\ Going(base, s.log, Emit(u1, Event("part_added", n, kind, none)), m, n, kind,
                 Rank("part_added"), IF "part_added" = "delta" THEN none \o none ELSE none)
        /\ Grown(u1, Emit(u1, Event("part_added", n, kind, none)))
    BY <2>1, Orders, GoesOn
  <2>3. Rank("part_added") = 2
    BY Ranks
  <2> QED BY <2>2, <2>3 DEF none
<1> HIDE DEF e
<1>7. Grown(u, t)
  BY <1>4, <1>5, <1>6, GrownTwice
<1> QED BY <1>4, <1>6, <1>7 DEF m

\* A delta of one piece.
LEMMA Says ==
    ASSUME NEW base, NEW before, NEW s, NEW n, NEW i, NEW kind, NEW r, NEW said,
           Going(base, before, s, n, i, kind, r, said), May(r, "delta"),
           NEW u \in AState, SameLog(s, u), NEW piece \in PieceType,
           NEW t, t = Emit(u, Event("delta", i, kind, <<piece>>))
    PROVE  Going(base, before, t, n, i, kind, 3, Append(said, piece)) /\ Grown(u, t)
<1> DEFINE d == <<piece>>
<1>1. Going(base, before, u, n, i, kind, r, said)
  BY GoingAlso
<1>2. d \in Seq(PieceType)
  OBVIOUS
<1>3. said \in Seq(PieceType)
  BY DEF Going, Life
<1>4. said \o d = Append(said, piece)
  BY <1>3
<1> HIDE DEF d
<1>5. Going(base, before, t, n, i, kind, 3, said \o d) /\ Grown(u, t)
  BY <1>1, <1>2, Ranks, GoesOn DEF d
<1> QED BY <1>4, <1>5

\* What emitting leaves alone.
LEMMA GrownIs ==
    ASSUME NEW s \in AState, NEW t, Grown(s, t)
    PROVE  /\ t.reasoning_content = s.reasoning_content
           /\ t.reasoning_output_index = s.reasoning_output_index
           /\ t.accumulated_text = s.accumulated_text /\ t.msg_output_index = s.msg_output_index
           /\ t.tool_calls = s.tool_calls /\ t.has_started = s.has_started
           /\ t.next_output_index = s.next_output_index
           /\ t.completed_items = s.completed_items
BY DEF Grown, With, AState

\* u is s, in which item i is open now, with what its accumulator has.
Opened(base, s, u, x, i, kind, said) ==
    /\ \E r : /\ Going(base, s.log, u, u.next_output_index, i, kind, r, said)
              /\ May(r, "delta")
    /\ Hand(u, x).at = i /\ Hand(u, x).kind = kind
    /\ Contract => Hand(u, x).data = said
    /\ u.has_started /\ SameTools(s, u)
    /\ IF Hand(s, x).open
       THEN Hand(s, x).at = i /\ u.next_output_index = s.next_output_index
       ELSE s.next_output_index = i /\ u.next_output_index = i + 1
    /\ \A y \in Names : y # x => Hand(u, y) = Hand(s, y)

LEMMA OpenAlready ==
    ASSUME NEW base, NEW s, Sound(base, {}, s), NEW x \in Names, Hand(s, x).open
    PROVE  \E i, said : Opened(base, s, s, x, i, Hand(s, x).kind, said)
<1> DEFINE i == Hand(s, x).at
           kind == Hand(s, x).kind
           data == Hand(s, x).data
           X == {}
<1>1. Has(X, s, x, i, kind, data)
  BY DEF Has, Owned
<1>2. Sound(base, X, s)
  OBVIOUS
<1> HIDE DEF i, kind, data, X
<1>3. /\ Going(base, s.log, s, s.next_output_index, i, kind, 3, DeltasAt(s.log, i))
      /\ Contract => DeltasAt(s.log, i) = data
  BY <1>1, <1>2, Holding
<1>4. s.has_started /\ SameTools(s, s)
  BY DEF Sound, SameTools
<1>5. Opened(base, s, s, x, i, kind, DeltasAt(s.log, i))
  <2>1. \E r : Going(base, s.log, s, s.next_output_index, i, kind, r, DeltasAt(s.log, i))
               /\ May(r, "delta")
    BY <1>3, Orders
  <2>2. Hand(s, x).at = i /\ Hand(s, x).kind = kind /\ Hand(s, x).data = data
    BY DEF i, kind, data
  <2> QED BY <1>3, <1>4, <2>1, <2>2 DEF Opened
<1> QED BY <1>5 DEF kind

OpenReasoning(s) ==
    LET at == s.next_output_index
    IN  IF s.reasoning_content # <<>> THEN s
        ELSE EmitAll([s EXCEPT !.next_output_index = @ + 1, !.reasoning_output_index = at],
                     <<Event("item_added", at, "reasoning", <<>>),
                       Event("part_added", at, "reasoning", <<>>)>>)

LEMMA ReasoningOpens ==
    ASSUME NEW base, NEW s, Sound(base, {}, s)
    PROVE  \E i, said : Opened(base, s, OpenReasoning(s), -2, i, "reasoning", said)
<1>1. CASE s.reasoning_content # <<>>
  <2>1. OpenReasoning(s) = s /\ Hand(s, -2).open /\ -2 \in Names /\ Hand(s, -2).kind = "reasoning"
    BY <1>1, HandOf, NamesAre DEF OpenReasoning
  <2> QED BY <2>1, OpenAlready
<1>2. CASE s.reasoning_content = <<>>
  <2> DEFINE n == s.next_output_index
             u == [s EXCEPT !.next_output_index = n + 1, !.reasoning_output_index = n]
             t == EmitAll(u, <<Event("item_added", n, "reasoning", <<>>),
                               Event("part_added", n, "reasoning", <<>>)>>)
  <2>1. OpenReasoning(s) = t
    BY <1>2 DEF OpenReasoning
  <2>2. s \in AState /\ n \in Nat /\ s.has_started
    BY DEF Sound, AState
  <2>3. /\ u \in AState /\ SameLog(s, u) /\ u.next_output_index = n + 1
        /\ u.reasoning_output_index = n /\ u.reasoning_content = s.reasoning_content
        /\ u.accumulated_text = s.accumulated_text /\ u.msg_output_index = s.msg_output_index
        /\ u.tool_calls = s.tool_calls /\ u.has_started = s.has_started
    <3>1. n + 1 \in Nat
      BY <2>2
    <3> DEFINE m == n + 1
    <3> HIDE DEF n, m
    <3>2. u \in AState
      BY <2>2, <3>1 DEF AState, m
    <3>3. SameLog(s, u) /\ u.tool_calls = s.tool_calls /\ u.has_started = s.has_started
      BY <2>2 DEF AState, SameLog
    <3> QED BY <2>2, <3>2, <3>3 DEF AState, m
  <2> HIDE DEF u
  <2>4. Going(base, s.log, t, n + 1, n, "reasoning", 2, <<>>) /\ Grown(u, t)
    <3>1. "reasoning" \in Kinds
      BY DEF Kinds
    <3> QED BY <2>3, <3>1, AnnouncesPart
  <2> HIDE DEF t
  <2>5. /\ t.next_output_index = n + 1 /\ t.tool_calls = s.tool_calls
        /\ t.reasoning_output_index = n /\ t.reasoning_content = <<>>
        /\ t.accumulated_text = s.accumulated_text /\ t.msg_output_index = s.msg_output_index
        /\ t.has_started
    BY <1>2, <2>2, <2>3, <2>4, GrownIs
  <2>6. \A y \in Names : y # -2 => Hand(t, y) = Hand(s, y)
    BY <2>5 DEF Hand
  <2>7. Opened(base, s, t, -2, n, "reasoning", <<>>)
    <3>1. \E r : Going(base, s.log, t, t.next_output_index, n, "reasoning", r, <<>>)
                 /\ May(r, "delta")
      BY <2>4, <2>5, Orders
    <3>2. Hand(t, -2).at = n /\ Hand(t, -2).kind = "reasoning" /\ Hand(t, -2).data = <<>>
      BY <2>5, HandOf
    <3>3. ~Hand(s, -2).open /\ SameTools(s, t)
      BY <1>2, <2>5, HandOf DEF SameTools
    <3> HIDE DEF n
    <3>4. s.next_output_index = n
      BY DEF n
    <3> QED BY <2>5, <2>6, <3>1, <3>2, <3>3, <3>4 DEF Opened
  <2> QED BY <2>1, <2>7
<1> QED BY <1>1, <1>2

LEMMA MessageOpens ==
    ASSUME NEW base, NEW s, Sound(base, {}, s)
    PROVE  \E i, said : Opened(base, s, OpenMessage(s), -1, i, "message", said)
<1>1. CASE s.accumulated_text # <<>>
  <2>1. OpenMessage(s) = s /\ Hand(s, -1).open /\ -1 \in Names /\ Hand(s, -1).kind = "message"
    BY <1>1, HandOf, NamesAre DEF OpenMessage
  <2> QED BY <2>1, OpenAlready
<1>2. CASE s.accumulated_text = <<>>
  <2> DEFINE n == s.next_output_index
             u == [s EXCEPT !.next_output_index = n + 1, !.msg_output_index = n]
             t == EmitAll(u, <<Event("item_added", n, "message", <<>>),
                               Event("part_added", n, "message", <<>>)>>)
  <2>1. OpenMessage(s) = t
    BY <1>2 DEF OpenMessage
  <2>2. s \in AState /\ n \in Nat /\ s.has_started
    BY DEF Sound, AState
  <2>3. /\ u \in AState /\ SameLog(s, u) /\ u.next_output_index = n + 1
        /\ u.msg_output_index = n /\ u.reasoning_content = s.reasoning_content
        /\ u.accumulated_text = s.accumulated_text
        /\ u.reasoning_output_index = s.reasoning_output_index
        /\ u.tool_calls = s.tool_calls /\ u.has_started = s.has_started
    <3>1. n + 1 \in Nat
      BY <2>2
    <3> DEFINE m == n + 1
    <3> HIDE DEF n, m
    <3>2. u \in AState
      BY <2>2, <3>1 DEF AState, m
    <3>3. SameLog(s, u) /\ u.tool_calls = s.tool_calls /\ u.has_started = s.has_started
      BY <2>2 DEF AState, SameLog
    <3> QED BY <2>2, <3>2, <3>3 DEF AState, m
  <2> HIDE DEF u
  <2>4. Going(base, s.log, t, n + 1, n, "message", 2, <<>>) /\ Grown(u, t)
    <3>1. "message" \in Kinds
      BY DEF Kinds
    <3> QED BY <2>3, <3>1, AnnouncesPart
  <2> HIDE DEF t
  <2>5. /\ t.next_output_index = n + 1 /\ t.tool_calls = s.tool_calls
        /\ t.msg_output_index = n /\ t.accumulated_text = <<>>
        /\ t.reasoning_content = s.reasoning_content
        /\ t.reasoning_output_index = s.reasoning_output_index
        /\ t.has_started
    BY <1>2, <2>2, <2>3, <2>4, GrownIs
  <2>6. \A y \in Names : y # -1 => Hand(t, y) = Hand(s, y)
    BY <2>5 DEF Hand
  <2>7. Opened(base, s, t, -1, n, "message", <<>>)
    <3>1. \E r : Going(base, s.log, t, t.next_output_index, n, "message", r, <<>>)
                 /\ May(r, "delta")
      BY <2>4, <2>5, Orders
    <3>2. Hand(t, -1).at = n /\ Hand(t, -1).kind = "message" /\ Hand(t, -1).data = <<>>
      BY <2>5, HandOf
    <3>3. ~Hand(s, -1).open /\ SameTools(s, t)
      BY <1>2, <2>5, HandOf DEF SameTools
    <3> HIDE DEF n
    <3>4. s.next_output_index = n
      BY DEF n
    <3> QED BY <2>5, <2>6, <3>1, <3>2, <3>3, <3>4 DEF Opened
  <2> QED BY <2>1, <2>7
<1> QED BY <1>1, <1>2

LEMMA ToolsFit ==
    ASSUME NEW s, NEW t, SameTools(s, t), SlotsFit(s)
    PROVE  SlotsFit(t)
BY DEF SameTools, SlotsFit

LEMMA AppendIsNot ==
    ASSUME NEW S, NEW seq \in Seq(S), NEW x
    PROVE  Append(seq, x) # <<>>
OBVIOUS

LEMMA ReasoningGrows ==
    ASSUME NEW base, NEW s, Sound(base, {}, s), NEW piece \in PieceType,
           NEW t, t = emit_reasoning_delta(s, piece)
    PROVE  Sound(base, {}, t) /\ SameTools(s, t) /\ Advances(base, s, t, -2)
<1> DEFINE s1 == OpenReasoning(s)
           s2 == [s1 EXCEPT !.reasoning_content = Append(s1.reasoning_content, piece)]
<1>1. PICK i, said : Opened(base, s, s1, -2, i, "reasoning", said)
  BY ReasoningOpens
<1>2. t = Emit(s2, Event("delta", s2.reasoning_output_index, "reasoning", <<piece>>))
  BY DEF emit_reasoning_delta, OpenReasoning
<1> HIDE DEF s1
<1>3. PICK r : /\ Going(base, s.log, s1, s1.next_output_index, i, "reasoning", r, said)
               /\ May(r, "delta")
  BY <1>1 DEF Opened
<1>4. /\ s1 \in AState /\ s1.has_started /\ SameTools(s, s1)
      /\ s1.reasoning_output_index = i
      /\ Contract => s1.reasoning_content = said
  BY <1>1, <1>3, HandOf DEF Opened, Going
<1>5. /\ s2 \in AState /\ SameLog(s1, s2)
      /\ s2.reasoning_content = Append(s1.reasoning_content, piece)
      /\ s2.reasoning_output_index = i
      /\ s2.accumulated_text = s1.accumulated_text /\ s2.msg_output_index = s1.msg_output_index
      /\ s2.tool_calls = s1.tool_calls /\ s2.has_started = s1.has_started
      /\ s2.next_output_index = s1.next_output_index
  <2>1. Append(s1.reasoning_content, piece) \in Seq(PieceType)
    BY <1>4 DEF AState
  <2> QED BY <1>4, <2>1 DEF AState, SameLog
<1> HIDE DEF s2
<1>6. /\ Going(base, s.log, t, s1.next_output_index, i, "reasoning", 3, Append(said, piece))
      /\ Grown(s2, t)
  BY <1>2, <1>3, <1>5, Says
<1>7. t \in AState /\ SameTools(s, t) /\ t.has_started /\ t.next_output_index = s1.next_output_index
  BY <1>4, <1>5, <1>6, GrownIs DEF Going, SameTools
<1>8. /\ t.reasoning_content = Append(s1.reasoning_content, piece)
      /\ t.reasoning_output_index = i
      /\ t.accumulated_text = s1.accumulated_text /\ t.msg_output_index = s1.msg_output_index
      /\ t.tool_calls = s1.tool_calls
  BY <1>5, <1>6, GrownIs
<1>9. Extends(s, t, -2, i, "reasoning", Append(said, piece))
  <2>1. ASSUME NEW y \in Names, y # -2 PROVE Hand(t, y) = Hand(s, y)
    <3>1. Hand(t, y) = Hand(s1, y)
      BY <1>8, <2>1 DEF Hand
    <3> QED BY <1>1, <2>1, <3>1 DEF Opened
  <2>2. /\ Hand(t, -2).open /\ Hand(t, -2).at = i /\ Hand(t, -2).kind = "reasoning"
        /\ Contract => Hand(t, -2).data = Append(said, piece)
    <3>1. t.reasoning_content # <<>>
      <4>1. s1.reasoning_content \in Seq(PieceType)
        BY <1>4 DEF AState
      <4> QED BY <1>8, <4>1, AppendIsNot
    <3> QED BY <1>4, <1>8, <3>1, HandOf
  <2>3. SlotsFit(t)
    BY <1>7, ToolsFit DEF Sound
  <2>4. IF Hand(s, -2).open
        THEN Hand(s, -2).at = i /\ t.next_output_index = s.next_output_index
        ELSE s.next_output_index = i /\ t.next_output_index = i + 1
    BY <1>1, <1>7 DEF Opened
  <2> QED BY <1>7, <2>1, <2>2, <2>3, <2>4, NamesAre DEF Extends
<1>10. Sound(base, {}, t) /\ Advances(base, s, t, -2)
  <2> DEFINE all == Append(said, piece)
  <2>1. Going(base, s.log, t, t.next_output_index, i, "reasoning", 3, all)
    BY <1>6, <1>7
  <2>2. Extends(s, t, -2, i, "reasoning", all)
    BY <1>9
  <2> HIDE DEF all
  <2>3. 3 \in 1..3
    OBVIOUS
  <2> QED BY <2>1, <2>2, <2>3, Grows, AdvancesAre
<1> QED BY <1>7, <1>10

\* Text and refusals.
Addition(s, piece, refused) ==
    [OpenMessage(s) EXCEPT !.accumulated_text = Append(OpenMessage(s).accumulated_text, piece),
                           !.has_refusal = refused]

LEMMA MessageGrows ==
    ASSUME NEW base, NEW s, Sound(base, {}, s), NEW piece \in PieceType,
           NEW refused \in BOOLEAN,
           NEW t, t = Emit(Addition(s, piece, refused),
                           Event("delta", Addition(s, piece, refused).msg_output_index,
                                 "message", <<piece>>))
    PROVE  Sound(base, {}, t) /\ SameTools(s, t) /\ Advances(base, s, t, -1)
<1> DEFINE s1 == OpenMessage(s)
           s2 == [s1 EXCEPT !.accumulated_text = Append(s1.accumulated_text, piece),
                            !.has_refusal = refused]
<1>1. PICK i, said : Opened(base, s, s1, -1, i, "message", said)
  BY MessageOpens
<1>2. t = Emit(s2, Event("delta", s2.msg_output_index, "message", <<piece>>))
  BY DEF Addition
<1> HIDE DEF s1
<1>3. PICK r : /\ Going(base, s.log, s1, s1.next_output_index, i, "message", r, said)
               /\ May(r, "delta")
  BY <1>1 DEF Opened
<1>4. /\ s1 \in AState /\ s1.has_started /\ SameTools(s, s1)
      /\ s1.msg_output_index = i
      /\ Contract => s1.accumulated_text = said
  BY <1>1, <1>3, HandOf DEF Opened, Going
<1>5. /\ s2 \in AState /\ SameLog(s1, s2)
      /\ s2.accumulated_text = Append(s1.accumulated_text, piece)
      /\ s2.msg_output_index = i
      /\ s2.reasoning_content = s1.reasoning_content
      /\ s2.reasoning_output_index = s1.reasoning_output_index
      /\ s2.tool_calls = s1.tool_calls /\ s2.has_started = s1.has_started
      /\ s2.next_output_index = s1.next_output_index
  <2> DEFINE text == Append(s1.accumulated_text, piece)
  <2>1. text \in Seq(PieceType)
    BY <1>4 DEF AState
  <2> HIDE DEF text
  <2>2. s2 \in AState
    BY <1>4, <2>1 DEF AState, text
  <2> QED BY <1>4, <2>2 DEF AState, SameLog, text
<1> HIDE DEF s2
<1>6. /\ Going(base, s.log, t, s1.next_output_index, i, "message", 3, Append(said, piece))
      /\ Grown(s2, t)
  BY <1>2, <1>3, <1>5, Says
<1>7. t \in AState /\ SameTools(s, t) /\ t.has_started /\ t.next_output_index = s1.next_output_index
  BY <1>4, <1>5, <1>6, GrownIs DEF Going, SameTools
<1>8. /\ t.accumulated_text = Append(s1.accumulated_text, piece)
      /\ t.msg_output_index = i
      /\ t.reasoning_content = s1.reasoning_content
      /\ t.reasoning_output_index = s1.reasoning_output_index
      /\ t.tool_calls = s1.tool_calls
  BY <1>5, <1>6, GrownIs
<1>9. Extends(s, t, -1, i, "message", Append(said, piece))
  <2>1. ASSUME NEW y \in Names, y # -1 PROVE Hand(t, y) = Hand(s, y)
    <3>1. Hand(t, y) = Hand(s1, y)
      BY <1>8, <2>1 DEF Hand
    <3> QED BY <1>1, <2>1, <3>1 DEF Opened
  <2>2. /\ Hand(t, -1).open /\ Hand(t, -1).at = i /\ Hand(t, -1).kind = "message"
        /\ Contract => Hand(t, -1).data = Append(said, piece)
    <3>1. t.accumulated_text # <<>>
      <4>1. s1.accumulated_text \in Seq(PieceType)
        BY <1>4 DEF AState
      <4> QED BY <1>8, <4>1, AppendIsNot
    <3> QED BY <1>4, <1>8, <3>1, HandOf
  <2>3. SlotsFit(t)
    BY <1>7, ToolsFit DEF Sound
  <2>4. IF Hand(s, -1).open
        THEN Hand(s, -1).at = i /\ t.next_output_index = s.next_output_index
        ELSE s.next_output_index = i /\ t.next_output_index = i + 1
    BY <1>1, <1>7 DEF Opened
  <2> QED BY <1>7, <2>1, <2>2, <2>3, <2>4, NamesAre DEF Extends
<1>10. Sound(base, {}, t) /\ Advances(base, s, t, -1)
  <2> DEFINE all == Append(said, piece)
  <2>1. Going(base, s.log, t, t.next_output_index, i, "message", 3, all)
    BY <1>6, <1>7
  <2>2. Extends(s, t, -1, i, "message", all)
    BY <1>9
  <2> HIDE DEF all
  <2>3. 3 \in 1..3
    OBVIOUS
  <2> QED BY <2>1, <2>2, <2>3, Grows, AdvancesAre
<1> QED BY <1>7, <1>10

\* t is s after a delta of text or of refusal.
Added(s, piece, refused, t) ==
    /\ refused \in BOOLEAN
    /\ t = Emit(Addition(s, piece, refused),
                Event("delta", Addition(s, piece, refused).msg_output_index, "message", <<piece>>))

LEMMA TextAdds ==
    ASSUME NEW base, NEW s, Sound(base, {}, s), NEW piece \in PieceType
    PROVE  \E refused : Added(s, piece, refused, emit_text_delta(s, piece))
<1> DEFINE s1 == OpenMessage(s)
           refused == s1.has_refusal
           text == Append(s1.accumulated_text, piece)
           t == emit_text_delta(s, piece)
<1>1. s1 \in AState
  <2>1. PICK i, said : Opened(base, s, s1, -1, i, "message", said)
    BY MessageOpens
  <2> QED BY <2>1 DEF Opened, Going
<1>2. refused \in BOOLEAN
  BY <1>1 DEF AState
<1>3. [s1 EXCEPT !.accumulated_text = text] = Addition(s, piece, refused)
  <2>1. Addition(s, piece, refused) = [s1 EXCEPT !.accumulated_text = text, !.has_refusal = refused]
    BY DEF Addition
  <2>2. [s1 EXCEPT !.accumulated_text = text] =
        [s1 EXCEPT !.accumulated_text = text, !.has_refusal = refused]
    <3> HIDE DEF s1, text
    <3> QED BY <1>1 DEF AState
  <2> QED BY <2>1, <2>2
<1>4. t = Emit(Addition(s, piece, refused),
               Event("delta", Addition(s, piece, refused).msg_output_index, "message", <<piece>>))
  BY <1>3 DEF emit_text_delta
<1> HIDE DEF refused, t
<1>5. Added(s, piece, refused, t)
  BY <1>2, <1>4 DEF Added
<1> QED BY <1>5 DEF t

LEMMA RefusalAdds ==
    ASSUME NEW s, NEW piece \in PieceType
    PROVE  Added(s, piece, TRUE, emit_refusal_delta(s, piece))
BY DEF emit_refusal_delta, Addition, Added

LEMMA TextGrows ==
    ASSUME NEW base, NEW s, Sound(base, {}, s), NEW piece \in PieceType,
           NEW t, \E refused : Added(s, piece, refused, t)
    PROVE  Sound(base, {}, t) /\ SameTools(s, t) /\ Advances(base, s, t, -1)
<1>1. PICK refused : Added(s, piece, refused, t)
  OBVIOUS
<1> QED BY <1>1, MessageGrows DEF Added

\* What the contract says of one tool delta.
Follows(s, tc) ==
    Contract => /\ tc.id # "empty"
                /\ tc.id = "given" \/ s.tool_calls[tc.index].id # ""

\* The open slots stay open, and what was given an id is open.
StaysOpen(s, t, tc) ==
    Contract => /\ \A j \in Slots : s.tool_calls[j].id # "" => t.tool_calls[j].id # ""
                /\ tc.id = "given" => t.tool_calls[tc.index].id # ""

\* The slot after a delta.
NewSlot(s, tc, piece) ==
    LET old == s.tool_calls[tc.index]
    IN  [id           |-> CASE tc.id = "none"  -> old.id
                            [] tc.id = "empty" -> ""
                            [] tc.id = "given" -> "call",
         arguments    |-> IF tc.args = "none" THEN old.arguments
                          ELSE Append(old.arguments, piece),
         output_index |-> IF old.id = "" THEN s.next_output_index ELSE old.output_index,
         is_custom    |-> old.is_custom \/ (tc.id = "given" /\ tc.index \in CustomSlots)]

LEMMA NewSlotIs ==
    ASSUME NEW s \in AState, SlotsFit(s), NEW tc \in ToolDelta, NEW piece,
           tc.args # "none" => piece \in PieceType
    PROVE  LET old == s.tool_calls[tc.index]
               new == NewSlot(s, tc, piece)
           IN  /\ old \in ASlot /\ new \in ASlot /\ tc.index \in Slots
               /\ new.id = "" => tc.id = "empty" \/ (tc.id # "given" /\ old.id = "")
               /\ tc.id # "empty" /\ old.id # "" => new.id # ""
               /\ tc.id = "given" => new.id # ""
               /\ new.arguments = IF tc.args = "none" THEN old.arguments
                                  ELSE Append(old.arguments, piece)
               /\ new.output_index = IF old.id = "" THEN s.next_output_index
                                     ELSE old.output_index
               /\ new.is_custom => tc.index \in CustomSlots
               /\ new.id # "" /\ tc.index \in CustomSlots => new.is_custom
               /\ old.id # "" => (new.is_custom <=> old.is_custom)
<1> DEFINE old == s.tool_calls[tc.index]
           new == NewSlot(s, tc, piece)
           k == tc.index
           id == CASE tc.id = "none"  -> old.id
                   [] tc.id = "empty" -> ""
                   [] tc.id = "given" -> "call"
           args == IF tc.args = "none" THEN old.arguments ELSE Append(old.arguments, piece)
           at == IF old.id = "" THEN s.next_output_index ELSE old.output_index
           custom == old.is_custom \/ (tc.id = "given" /\ k \in CustomSlots)
<1>1. k \in Slots /\ tc.id \in {"none", "empty", "given"}
  BY DEF ToolDelta
<1>2. old \in ASlot
  BY <1>1 DEF AState
<1>3. /\ old.is_custom => k \in CustomSlots
      /\ old.id # "" /\ k \in CustomSlots => old.is_custom
  BY <1>1 DEF SlotsFit
<1>4. old.id \in {"", "call"} /\ old.output_index \in Nat
  BY <1>2 DEF ASlot
<1>5. old.arguments \in Seq(PieceType) /\ old.is_custom \in BOOLEAN
  BY <1>2 DEF ASlot
<1>6. s.next_output_index \in Nat
  BY DEF AState
<1>7. new = [id |-> id, arguments |-> args, output_index |-> at, is_custom |-> custom]
  BY DEF NewSlot
<1>8. /\ new.id = id /\ new.arguments = args /\ new.output_index = at
      /\ new.is_custom = custom
  <2> HIDE DEF id, args, at, old, custom, new
  <2> QED BY <1>7
<1>9. new.is_custom <=> custom
  BY <1>8, Zenon
<1> HIDE DEF new, old, k
<1>10. id \in {"", "call"}
  BY <1>1, <1>4
<1>11. args \in Seq(PieceType)
  BY <1>5
<1>12. at \in Nat
  BY <1>4, <1>6
<1>13. new \in ASlot
  <2>1. custom \in BOOLEAN
    BY Zenon
  <2> HIDE DEF id, args, at, custom
  <2> QED BY <1>7, <1>10, <1>11, <1>12, <2>1 DEF ASlot
<1>14. /\ new.id = "" => tc.id = "empty" \/ (tc.id # "given" /\ old.id = "")
       /\ tc.id # "empty" /\ old.id # "" => new.id # ""
       /\ tc.id = "given" => new.id # ""
       /\ tc.id = "given" \/ old.id # "" \/ new.id = ""
  BY <1>1, <1>4, <1>8
<1>15. new.is_custom => k \in CustomSlots
  BY <1>3, <1>9, Zenon
<1>16. new.id # "" /\ k \in CustomSlots => new.is_custom
  BY <1>3, <1>9, <1>14, Zenon
<1>17. old.id # "" => (new.is_custom <=> old.is_custom)
  BY <1>3, <1>9, Zenon
<1> QED BY <1>1, <1>2, <1>8, <1>13, <1>14, <1>15, <1>16, <1>17, Zenon DEF old, new, k

\* One tool delta that starts a call.
LEMMA CallOpens ==
    ASSUME NEW base, NEW s, Sound(base, {}, s), NEW k \in Slots, s.tool_calls[k].id = "",
           NEW kind \in Kinds, NEW u \in AState, SameLog(s, u),
           u.next_output_index = s.next_output_index + 1,
           NEW t, t = Emit(u, Event("item_added", s.next_output_index, kind, <<>>))
    PROVE  /\ Going(base, s.log, t, t.next_output_index, s.next_output_index, kind, 1, <<>>)
           /\ Grown(u, t)
<1>1. /\ Going(base, s.log, t, s.next_output_index + 1, s.next_output_index, kind, 1, <<>>)
      /\ Grown(u, t)
  BY Announces
<1>2. t.next_output_index = s.next_output_index + 1
  BY <1>1, GrownIs
<1> QED BY <1>1, <1>2

\* The client has been told this much of the call before the piece of this delta.
Told(s, k, is_custom) == IF is_custom THEN <<>> ELSE s.tool_calls[k].arguments

\* s2, where the call is announced, goes on from s.
CallStage(base, s, u, v, k, new) ==
    /\ \E r \in 1..3 : \E said :
          /\ Going(base, s.log, v, v.next_output_index, new.output_index,
                   ToolKind(new.is_custom), r, said)
          /\ May(r, "delta")
          /\ Contract => said = Told(s, k, new.is_custom)
    /\ u \in AState /\ v \in AState /\ Grown(u, v)
    /\ u.tool_calls[k] = new /\ u.has_started
    /\ \A j \in Slots : j # k => u.tool_calls[j] = s.tool_calls[j]
    /\ \A y \in Names : y # k => Hand(u, y) = Hand(s, y)
    /\ IF Hand(s, k).open
       THEN Hand(s, k).at = new.output_index /\ u.next_output_index = s.next_output_index
       ELSE s.next_output_index = new.output_index /\ u.next_output_index = new.output_index + 1

\* The slot is written, and a call that starts is announced.
Placed(s, k, new) ==
    [s EXCEPT !.tool_calls[k] = new,
              !.next_output_index = IF s.tool_calls[k].id = "" THEN @ + 1 ELSE @]

PlacedAndTold(s, k, new) ==
    IF s.tool_calls[k].id = ""
    THEN Emit(Placed(s, k, new), Event("item_added", new.output_index,
                                       ToolKind(new.is_custom), <<>>))
    ELSE Placed(s, k, new)

LEMMA CallStages ==
    ASSUME NEW base, NEW s, Sound(base, {}, s), NEW tc \in ToolDelta, NEW piece,
           tc.args # "none" => piece \in PieceType
    PROVE  LET new == NewSlot(s, tc, piece)
           IN  CallStage(base, s, Placed(s, tc.index, new), PlacedAndTold(s, tc.index, new),
                         tc.index, new)
<1> DEFINE k == tc.index
           new == NewSlot(s, tc, piece)
           u == Placed(s, k, new)
           v == PlacedAndTold(s, k, new)
           old == s.tool_calls[k]
           n == s.next_output_index
           m == IF old.id = "" THEN n + 1 ELSE n
           p == [s EXCEPT !.next_output_index = m]
<1> SUFFICES CallStage(base, s, u, v, k, new)
  OBVIOUS
<1>1. s \in AState /\ SlotsFit(s) /\ s.has_started /\ n \in Nat
  BY DEF Sound, AState
<1>2. /\ old \in ASlot /\ new \in ASlot /\ k \in Slots
      /\ new.output_index = IF old.id = "" THEN n ELSE old.output_index
      /\ old.id # "" => (new.is_custom <=> old.is_custom)
  <2>1. SlotsFit(s) /\ s \in AState
    BY <1>1
  <2>2. old \in ASlot
    BY <2>1, NewSlotIs
  <2>3. new \in ASlot
    BY <2>1, NewSlotIs
  <2>4. k \in Slots
    BY DEF ToolDelta
  <2>5. new.output_index = IF old.id = "" THEN n ELSE old.output_index
    BY DEF NewSlot
  <2>6. old.id # "" => (new.is_custom <=> old.is_custom)
    BY <2>1, NewSlotIs, Zenon
  <2> HIDE DEF new, old, k, n
  <2> QED BY <2>2, <2>3, <2>4, <2>5, <2>6, Zenon
<1> HIDE DEF new, k
<1>3. m \in Nat
  <2> HIDE DEF n, old
  <2>1. n \in Nat /\ n + 1 \in Nat
    BY <1>1 DEF n
  <2> HIDE DEF m
  <2>2. m = n \/ m = n + 1
    BY DEF m
  <2> QED BY <2>1, <2>2
<1>4. /\ p \in AState /\ SameLog(s, p) /\ p.next_output_index = m /\ p.has_started
      /\ p.tool_calls = s.tool_calls
      /\ p.reasoning_content = s.reasoning_content
      /\ p.reasoning_output_index = s.reasoning_output_index
      /\ p.accumulated_text = s.accumulated_text /\ p.msg_output_index = s.msg_output_index
  <2> HIDE DEF m
  <2> QED BY <1>1, <1>3 DEF AState, SameLog
<1>5. u = Slotted(p, k, new)
  <2>1. u = [s EXCEPT !.tool_calls[k] = new, !.next_output_index = m]
    BY <1>1 DEF AState, Placed
  <2> HIDE DEF m
  <2>2. u = [s EXCEPT !.tool_calls = [s.tool_calls EXCEPT ![k] = new], !.next_output_index = m]
    BY <2>1
  <2> QED BY <1>1, <1>4, <2>2 DEF Slotted, AState
<1> HIDE DEF p, u
<1>6. /\ u \in AState /\ SameLog(s, u) /\ u.next_output_index = m /\ u.has_started
      /\ u.tool_calls[k] = new
      /\ \A j \in Slots : j # k => u.tool_calls[j] = s.tool_calls[j]
      /\ \A y \in Names : y # k => Hand(u, y) = Hand(s, y)
  <2>1. \A y : Hand(p, y) = Hand(s, y)
    BY <1>4, SameHand
  <2>2. /\ u \in AState /\ u.log = p.log /\ u.next_sequence_number = p.next_sequence_number
        /\ u.next_output_index = p.next_output_index /\ u.has_started = p.has_started
        /\ u.tool_calls[k] = new
        /\ \A j \in Slots : j # k => u.tool_calls[j] = p.tool_calls[j]
        /\ \A y \in Names : y # k => Hand(u, y) = Hand(p, y)
    <3> DEFINE w == Slotted(p, k, new)
    <3>1. IsSlotted(p, k, new, w)
      <4>1. p \in AState /\ k \in Slots /\ new \in ASlot
        BY <1>2, <1>4
      <4> QED BY <4>1, SlottedIs
    <3>2. u = w
      BY <1>5
    <3> HIDE DEF w
    <3> QED BY <3>1, <3>2, Zenon DEF IsSlotted
  <2> QED BY <1>4, <2>1, <2>2 DEF SameLog
<1>7. Hand(s, k).open <=> old.id # ""
  BY <1>2, SlotHand
<1>8. CASE old.id = ""
  <2>1. new.output_index = n /\ m = n + 1
    BY <1>2, <1>8
  <2> DEFINE kind == ToolKind(new.is_custom)
  <2>2. kind \in Kinds
    BY DEF Kinds, ToolKind
  <2>3. v = Emit(u, Event("item_added", s.next_output_index, kind, <<>>))
    BY <1>8, <2>1 DEF PlacedAndTold, u
  <2>4. u.next_output_index = s.next_output_index + 1 /\ s.tool_calls[k].id = ""
    BY <1>6, <1>8, <2>1
  <2> HIDE DEF v
  <2>5. /\ Going(base, s.log, v, v.next_output_index, s.next_output_index, kind, 1, <<>>)
        /\ Grown(u, v)
    <3> HIDE DEF kind
    <3>1. k \in Slots /\ u \in AState /\ SameLog(s, u)
      BY <1>2, <1>6
    <3> QED BY <2>2, <2>3, <2>4, <3>1, CallOpens
  <2>6. Contract => <<>> = Told(s, k, new.is_custom)
    BY <1>1, <1>2, <1>8 DEF SlotsFit, Told
  <2>7. \E r \in 1..3 : \E said :
          /\ Going(base, s.log, v, v.next_output_index, new.output_index,
                   ToolKind(new.is_custom), r, said)
          /\ May(r, "delta")
          /\ Contract => said = Told(s, k, new.is_custom)
    <3>1. May(1, "delta")
      BY Orders
    <3>2. 1 \in 1..3
      OBVIOUS
    <3> QED BY <2>1, <2>5, <2>6, <3>1, <3>2
  <2>8. v \in AState
    BY <2>5 DEF Going
  <2>9. IF Hand(s, k).open
        THEN Hand(s, k).at = new.output_index /\ u.next_output_index = s.next_output_index
        ELSE s.next_output_index = new.output_index /\ u.next_output_index = new.output_index + 1
    <3>1. ~Hand(s, k).open
      BY <1>7, <1>8
    <3>2. u.next_output_index = m
      BY <1>6
    <3> QED BY <2>1, <3>1, <3>2
  <2> HIDE DEF n, m, old
  <2>10. Grown(u, v)
    BY <2>5
  <2> QED BY <1>6, <2>10, <2>7, <2>8, <2>9, Zenon DEF CallStage
<1>9. CASE old.id # ""
  <2>1. v = u /\ m = n /\ Hand(s, k).open
    BY <1>7, <1>9 DEF PlacedAndTold, u
  <2> HIDE DEF v
  <2> DEFINE i == Hand(s, k).at
             kind == Hand(s, k).kind
             data == Hand(s, k).data
             X == {}
  <2>2. Has(X, s, k, i, kind, data) /\ Sound(base, X, s)
    BY <1>2, <2>1, NamesAre DEF Has, Owned
  <2>3. /\ i = new.output_index /\ kind = ToolKind(new.is_custom)
        /\ data = Told(s, k, new.is_custom)
    <3>1. /\ i = old.output_index /\ kind = ToolKind(old.is_custom)
          /\ data = IF old.is_custom THEN <<>> ELSE old.arguments
      BY <1>2, SlotHand
    <3>2. new.is_custom <=> old.is_custom
      BY <1>2, <1>9
    <3>3. new.output_index = old.output_index
      BY <1>2, <1>9
    <3>4. ToolKind(new.is_custom) = ToolKind(old.is_custom)
      BY <3>2 DEF ToolKind
    <3> HIDE DEF i, kind, data
    <3>5. data = Told(s, k, new.is_custom)
      BY <3>1, <3>2 DEF Told
    <3> QED BY <3>1, <3>3, <3>4, <3>5
  <2> HIDE DEF i, kind, data, X
  <2>4. /\ Going(base, s.log, s, s.next_output_index, i, kind, 3, DeltasAt(s.log, i))
        /\ Contract => DeltasAt(s.log, i) = data
    BY <2>2, Holding
  <2>5. Going(base, s.log, v, s.next_output_index, i, kind, 3, DeltasAt(s.log, i))
    <3>1. v \in AState /\ SameLog(s, v)
      BY <1>6, <2>1
    <3> DEFINE said == DeltasAt(s.log, i)
               next == s.next_output_index
    <3>2. Going(base, s.log, s, next, i, kind, 3, said)
      BY <2>4
    <3> HIDE DEF said, next
    <3>3. Going(base, s.log, v, next, i, kind, 3, said)
      BY <3>1, <3>2, GoingAlso
    <3> QED BY <3>3 DEF said, next
  <2>6. \E r \in 1..3 : \E said :
          /\ Going(base, s.log, v, v.next_output_index, new.output_index,
                   ToolKind(new.is_custom), r, said)
          /\ May(r, "delta")
          /\ Contract => said = Told(s, k, new.is_custom)
    <3>1. May(3, "delta")
      BY Orders
    <3>3. 3 \in 1..3
      OBVIOUS
    <3>2. v.next_output_index = s.next_output_index
      BY <1>6, <2>1
    <3> QED BY <2>3, <2>4, <2>5, <3>1, <3>2, <3>3
  <2>7. Grown(u, v)
    <3>1. u = With(u, u.log, u.next_sequence_number)
      BY <1>6 DEF With, AState
    <3> QED BY <2>1, <3>1 DEF Grown
  <2>8. Hand(s, k).at = new.output_index
    BY <2>3 DEF i
  <2>9. IF Hand(s, k).open
        THEN Hand(s, k).at = new.output_index /\ u.next_output_index = s.next_output_index
        ELSE s.next_output_index = new.output_index /\ u.next_output_index = new.output_index + 1
    <3>1. u.next_output_index = m
      BY <1>6
    <3> QED BY <2>1, <2>8, <3>1
  <2>10. v \in AState
    BY <1>6, <2>1
  <2> HIDE DEF n, m, old
  <2> QED BY <1>6, <2>6, <2>7, <2>9, <2>10, Zenon DEF CallStage
<1> QED BY <1>8, <1>9

\* One tool delta, as the stages above.
LEMMA DeltaIs ==
    ASSUME NEW s, NEW tc, NEW piece
    PROVE  LET k == tc.index
               new == NewSlot(s, tc, piece)
               v == PlacedAndTold(s, k, new)
           IN  emit_tool_call_delta(s, tc, piece) =
                 IF ~new.is_custom /\ tc.args # "none"
                 THEN Emit(v, Event("delta", new.output_index, "function_call", <<piece>>))
                 ELSE v
<1> DEFINE old == s.tool_calls[tc.index]
           id == CASE tc.id = "none"  -> old.id
                   [] tc.id = "empty" -> ""
                   [] tc.id = "given" -> "call"
           args == IF tc.args = "none" THEN old.arguments ELSE Append(old.arguments, piece)
           at == IF old.id = "" THEN s.next_output_index ELSE old.output_index
           custom == old.is_custom \/ (tc.id = "given" /\ tc.index \in CustomSlots)
           new == NewSlot(s, tc, piece)
           k == tc.index
<1>1. new = [id |-> id, arguments |-> args, output_index |-> at, is_custom |-> custom]
  BY DEF NewSlot
<1>2. new.output_index = at /\ new.is_custom = custom
  <2> HIDE DEF id, args, at, old, custom, new
  <2> QED BY <1>1
<1> DEFINE s1 == [s EXCEPT !.tool_calls[k] = new,
                           !.next_output_index = IF old.id = "" THEN @ + 1 ELSE @]
           s2 == IF old.id = "" THEN Emit(s1, Event("item_added", at, ToolKind(custom), <<>>))
                 ELSE s1
           t == IF ~custom /\ tc.args # "none"
                THEN Emit(s2, Event("delta", at, "function_call", <<piece>>))
                ELSE s2
<1>3. emit_tool_call_delta(s, tc, piece) = t
  BY Zenon DEF emit_tool_call_delta, NewSlot
<1>4. s1 = Placed(s, k, new)
  BY DEF Placed
<1> HIDE DEF id, args, at, custom, new, s1
<1>5. s2 = PlacedAndTold(s, k, new)
  BY <1>2, <1>4, Zenon DEF PlacedAndTold
<1> HIDE DEF s2
<1>6. t = IF ~new.is_custom /\ tc.args # "none"
          THEN Emit(PlacedAndTold(s, k, new),
                    Event("delta", new.output_index, "function_call", <<piece>>))
          ELSE PlacedAndTold(s, k, new)
  BY <1>2, <1>5, Zenon
<1> QED BY <1>3, <1>6, Zenon DEF new

LEMMA CallGrows ==
    ASSUME NEW base, NEW s, Sound(base, {}, s), NEW tc \in ToolDelta, NEW piece,
           tc.args # "none" => piece \in PieceType,
           Follows(s, tc)
    PROVE  LET t == emit_tool_call_delta(s, tc, piece)
           IN  Sound(base, {}, t) /\ StaysOpen(s, t, tc) /\ Advances(base, s, t, tc.index)
<1> DEFINE t == emit_tool_call_delta(s, tc, piece)
           k == tc.index
           old == s.tool_calls[k]
           new == NewSlot(s, tc, piece)
           u == Placed(s, k, new)
           v == PlacedAndTold(s, k, new)
           at == new.output_index
           kind == ToolKind(new.is_custom)
           told == Told(s, k, new.is_custom)
<1> SUFFICES Sound(base, {}, t) /\ StaysOpen(s, t, tc) /\ Advances(base, s, t, k)
  OBVIOUS
<1>1. s \in AState /\ SlotsFit(s)
  BY DEF Sound
<1>2. old \in ASlot /\ k \in Slots /\ k \in Names
  <2>1. tc.index \in Slots
    BY DEF ToolDelta
  <2> QED BY <1>1, <2>1, NamesAre DEF AState
<1>3. /\ new.id = "" => tc.id = "empty" \/ (tc.id # "given" /\ old.id = "")
      /\ tc.id # "empty" /\ old.id # "" => new.id # ""
      /\ tc.id = "given" => new.id # ""
  BY <1>1, NewSlotIs
<1>4. new.arguments = IF tc.args = "none" THEN old.arguments ELSE Append(old.arguments, piece)
  BY DEF NewSlot
<1>5. new.is_custom => k \in CustomSlots
  BY <1>1, NewSlotIs, Zenon
<1>6. new.id # "" /\ k \in CustomSlots => new.is_custom
  BY <1>1, NewSlotIs, Zenon
<1>7. CallStage(base, s, u, v, k, new)
  BY CallStages
<1>8. t = IF ~new.is_custom /\ tc.args # "none"
          THEN Emit(v, Event("delta", at, "function_call", <<piece>>)) ELSE v
  BY DeltaIs
<1>9. Contract => tc.id # "empty" /\ (tc.id = "given" \/ old.id # "")
  BY DEF Follows
<1> HIDE DEF new, u, v, t, old, k
<1>10. Contract => new.id # ""
  BY <1>3, <1>9
<1>11. PICK r, said : /\ r \in 1..3
                      /\ Going(base, s.log, v, v.next_output_index, at, kind, r, said)
                      /\ May(r, "delta")
                      /\ Contract => said = told
  BY <1>7, Zenon DEF CallStage
<1>12. /\ u \in AState /\ v \in AState /\ Grown(u, v)
       /\ u.tool_calls[k] = new /\ u.has_started
       /\ \A j \in Slots : j # k => u.tool_calls[j] = s.tool_calls[j]
       /\ \A y \in Names : y # k => Hand(u, y) = Hand(s, y)
  BY <1>7, Zenon DEF CallStage
<1>13. IF Hand(s, k).open
       THEN Hand(s, k).at = at /\ u.next_output_index = s.next_output_index
       ELSE s.next_output_index = at /\ u.next_output_index = at + 1
  BY <1>7, Zenon DEF CallStage
<1> HIDE DEF at, kind, told
\* What is said of the call, and to what rank.
<1>14. \E q \in 1..3 : \E all :
          /\ Going(base, s.log, t, t.next_output_index, at, kind, q, all)
          /\ Grown(u, t)
          /\ Contract => all = Told(t, k, new.is_custom)
  <2>1. CASE ~new.is_custom /\ tc.args # "none"
    <3>1. kind = "function_call"
      BY <2>1 DEF kind, ToolKind
    <3>2. t = Emit(v, Event("delta", at, kind, <<piece>>))
      BY <1>8, <2>1, <3>1
    <3> DEFINE n == v.next_output_index
               all == Append(said, piece)
    <3>3. Going(base, s.log, v, n, at, kind, r, said) /\ SameLog(v, v) /\ v \in AState
      BY <1>11, <1>12 DEF SameLog
    <3> HIDE DEF n, all
    <3>4. Going(base, s.log, t, n, at, kind, 3, all) /\ Grown(v, t)
      <4>1. piece \in PieceType
        BY <2>1
      <4> QED BY <1>11, <3>2, <3>3, <4>1, Says DEF all
    <3>5. Grown(u, t)
      BY <1>12, <3>4, GrownTwice
    <3>6. t.next_output_index = n
      BY <1>12, <3>4, GrownIs DEF n
    <3>7. Contract => all = Told(t, k, new.is_custom)
      <4>1. t.tool_calls[k] = new
        BY <1>12, <3>5, GrownIs
      <4>2. new.arguments = Append(old.arguments, piece)
        BY <1>4, <2>1
      <4>3. Contract => said = old.arguments
        BY <1>11, <2>1 DEF told, Told, old
      <4>4. Told(t, k, new.is_custom) = new.arguments
        BY <2>1, <4>1 DEF Told
      <4> QED BY <4>2, <4>3, <4>4 DEF all
    <3>8. 3 \in 1..3
      OBVIOUS
    <3> QED BY <3>4, <3>5, <3>6, <3>7, <3>8
  <2>2. CASE ~(~new.is_custom /\ tc.args # "none")
    <3>1. t = v
      BY <1>8, <2>2
    <3>2. Contract => said = Told(t, k, new.is_custom)
      <4>1. t.tool_calls[k] = new
        BY <1>12, <3>1, GrownIs
      <4>2. CASE new.is_custom
        BY <1>11, <4>2 DEF told, Told
      <4>3. CASE ~new.is_custom
        <5>1. new.arguments = old.arguments
          BY <1>4, <2>2, <4>3
        <5> QED BY <1>11, <4>1, <4>3, <5>1 DEF told, Told, old
      <4> QED BY <4>2, <4>3
    <3> QED BY <1>11, <1>12, <3>1, <3>2
  <2> QED BY <2>1, <2>2
<1>15. PICK q, all : /\ q \in 1..3
                     /\ Going(base, s.log, t, t.next_output_index, at, kind, q, all)
                     /\ Grown(u, t)
                     /\ Contract => all = Told(t, k, new.is_custom)
  BY <1>14, Zenon
<1>16. /\ t \in AState /\ t.tool_calls = u.tool_calls /\ t.has_started
       /\ t.next_output_index = u.next_output_index
       /\ t.reasoning_content = u.reasoning_content
       /\ t.reasoning_output_index = u.reasoning_output_index
       /\ t.accumulated_text = u.accumulated_text /\ t.msg_output_index = u.msg_output_index
  BY <1>12, <1>15, GrownIs DEF Going
<1>17. \A j \in Slots : j # k => t.tool_calls[j] = s.tool_calls[j]
  BY <1>12, <1>16
<1>18. t.tool_calls[k] = new
  BY <1>12, <1>16
<1>19. SlotsFit(t)
  <2> SUFFICES ASSUME NEW j \in Slots
               PROVE  /\ t.tool_calls[j].is_custom => j \in CustomSlots
                      /\ t.tool_calls[j].id # "" /\ j \in CustomSlots => t.tool_calls[j].is_custom
                      /\ Contract /\ t.tool_calls[j].id = "" => t.tool_calls[j].arguments = <<>>
    BY DEF SlotsFit
  <2>1. CASE j = k
    BY <1>5, <1>6, <1>10, <1>18, <2>1, Zenon
  <2>2. CASE j # k
    BY <1>1, <1>17, <2>2 DEF SlotsFit
  <2> QED BY <2>1, <2>2
<1>20. Extends(s, t, k, at, kind, all)
  <2>1. ASSUME NEW y \in Names, y # k PROVE Hand(t, y) = Hand(s, y)
    <3>1. Hand(t, y) = Hand(u, y)
      BY <1>16, SameHand
    <3> QED BY <1>12, <2>1, <3>1
  <2>2. /\ Hand(t, k).open = (new.id # "") /\ Hand(t, k).at = at
        /\ Hand(t, k).kind = kind
    BY <1>2, <1>18, SlotHand DEF at, kind
  <2>3. Hand(t, k).data = Told(t, k, new.is_custom)
    BY <1>2, <1>18, SlotHand DEF Told
  <2>4. IF Hand(s, k).open
        THEN Hand(s, k).at = at /\ t.next_output_index = s.next_output_index
        ELSE s.next_output_index = at /\ t.next_output_index = at + 1
    BY <1>13, <1>16
  <2>5. Hand(t, k).open => /\ Hand(t, k).at = at /\ Hand(t, k).kind = kind
                           /\ Contract => Hand(t, k).data = all
    BY <1>15, <2>2, <2>3
  <2>6. ~Hand(t, k).open => ~Contract
    BY <1>10, <2>2
  <2> QED BY <1>2, <1>16, <1>19, <2>1, <2>4, <2>5, <2>6, Zenon DEF Extends
<1>21. Sound(base, {}, t) /\ Advances(base, s, t, k)
  BY <1>15, <1>20, Grows, AdvancesAre
<1>22. StaysOpen(s, t, tc)
  <2>1. ASSUME Contract, NEW j \in Slots, s.tool_calls[j].id # "" PROVE t.tool_calls[j].id # ""
    <3>1. CASE j = k
      BY <1>10, <1>18, <2>1, <3>1
    <3>2. CASE j # k
      BY <1>17, <2>1, <3>2
    <3> QED BY <3>1, <3>2
  <2>2. Contract => t.tool_calls[tc.index].id # ""
    BY <1>10, <1>18 DEF k
  <2> QED BY <2>1, <2>2 DEF StaysOpen
<1> QED BY <1>21, <1>22

\* The chunk's tool deltas come as the contract says.
ToolsFollow(s, tools) ==
    Contract => \A j \in DOMAIN tools :
                    /\ tools[j].id # "empty"
                    /\ tools[j].id = "given" \/ s.tool_calls[tools[j].index].id # ""

\* t is s after the first i tool deltas.
AfterTools(base, s, tools, i, t) ==
    /\ Sound(base, {}, t)
    /\ Contract => /\ \A k \in Slots : s.tool_calls[k].id # "" => t.tool_calls[k].id # ""
                   /\ \A j \in 1..i : tools[j].id = "given" => t.tool_calls[tools[j].index].id # ""

LEMMA ToolFollows ==
    ASSUME NEW base, NEW s, NEW tools \in Seq(ToolDelta), ToolsFollow(s, tools),
           NEW i \in 1..Len(tools), NEW t, AfterTools(base, s, tools, i - 1, t)
    PROVE  Follows(t, tools[i]) /\ Sound(base, {}, t)
<1> DEFINE tc == tools[i]
<1>1. Len(tools) \in Nat /\ DOMAIN tools = 1..Len(tools) /\ tc \in ToolDelta
  OBVIOUS
<1>2. Sound(base, {}, t)
  BY DEF AfterTools
<1>3. Follows(t, tc)
  <2> SUFFICES ASSUME Contract
               PROVE  tc.id # "empty" /\ (tc.id = "given" \/ t.tool_calls[tc.index].id # "")
    BY DEF Follows
  <2>1. tc.id # "empty" /\ (tc.id = "given" \/ s.tool_calls[tc.index].id # "")
    BY <1>1 DEF ToolsFollow
  <2>2. tc.index \in Slots
    BY <1>1 DEF ToolDelta
  <2> QED BY <2>1, <2>2 DEF AfterTools
<1> QED BY <1>2, <1>3

LEMMA ToolStep ==
    ASSUME NEW base, NEW s, NEW tools \in Seq(ToolDelta), ToolsFollow(s, tools),
           NEW n \in 1..MaxChunks, NEW i \in 1..Len(tools),
           NEW t, AfterTools(base, s, tools, i - 1, t)
    PROVE  AfterTools(base, s, tools, i, emit_tool_call_delta(t, tools[i], ArgsPiece(n, tools, i)))
<1> DEFINE tc == tools[i]
           piece == ArgsPiece(n, tools, i)
           u == emit_tool_call_delta(t, tc, piece)
<1>1. /\ Len(tools) \in Nat /\ DOMAIN tools = 1..Len(tools) /\ tc \in ToolDelta
      /\ \A j \in 1..Len(tools) : tools[j] \in ToolDelta
  OBVIOUS
<1>2. tc.args # "none" => piece \in PieceType
  <2>1. tc.args \in {"none", "part", "end"}
    BY <1>1 DEF ToolDelta
  <2>2. i \in Nat
    BY <1>1
  <2> QED BY <2>1, <2>2 DEF ArgsPiece, Piece, PieceType
<1>3. Sound(base, {}, t)
  BY DEF AfterTools
<1>4. Follows(t, tc)
  BY ToolFollows
<1>5. Sound(base, {}, u) /\ StaysOpen(t, u, tc)
  <2> HIDE DEF tc, piece, u
  <2>1. Sound(base, {}, emit_tool_call_delta(t, tc, piece))
        /\ StaysOpen(t, emit_tool_call_delta(t, tc, piece), tc)
    BY <1>1, <1>2, <1>3, <1>4, CallGrows
  <2> QED BY <2>1 DEF u
<1> HIDE DEF u, piece
<1>6. ASSUME Contract
      PROVE  /\ \A k \in Slots : s.tool_calls[k].id # "" => u.tool_calls[k].id # ""
             /\ \A j \in 1..i : tools[j].id = "given" => u.tool_calls[tools[j].index].id # ""
  <2>1. \A k \in Slots : t.tool_calls[k].id # "" => u.tool_calls[k].id # ""
    BY <1>5, <1>6 DEF StaysOpen
  <2>2. \A k \in Slots : s.tool_calls[k].id # "" => u.tool_calls[k].id # ""
    BY <1>6, <2>1 DEF AfterTools
  <2>3. ASSUME NEW j \in 1..i, tools[j].id = "given" PROVE u.tool_calls[tools[j].index].id # ""
    <3>1. CASE j = i
      BY <1>5, <1>6, <2>3, <3>1 DEF StaysOpen
    <3>2. CASE j # i
      <4>1. j \in 1..(i - 1) /\ j \in 1..Len(tools)
        BY <1>1, <3>2
      <4>2. tools[j].index \in Slots
        BY <1>1, <4>1 DEF ToolDelta
      <4>3. t.tool_calls[tools[j].index].id # ""
        BY <1>6, <2>3, <4>1 DEF AfterTools
      <4> QED BY <2>1, <4>2, <4>3
    <3> QED BY <3>1, <3>2
  <2> QED BY <2>2, <2>3
<1>7. AfterTools(base, s, tools, i, u)
  BY <1>5, <1>6 DEF AfterTools
<1> QED BY <1>7 DEF u, piece

LEMMA CallsGrow ==
    ASSUME NEW base, NEW s, Sound(base, {}, s), NEW tools \in Seq(ToolDelta),
           ToolsFollow(s, tools), NEW m \in 1..MaxChunks
    PROVE  AfterTools(base, s, tools, Len(tools), emit_tool_call_deltas(s, tools, m))
<1> DEFINE n == Len(tools)
           step(t, i) == emit_tool_call_delta(t, tools[i], ArgsPiece(m, tools, i))
           P == [i \in 0..n |-> {t \in AState : AfterTools(base, s, tools, i, t)}]
<1>1. n \in Nat /\ \A i \in 1..n : i - 1 \in 0..n /\ i \in 0..n
  OBVIOUS
<1>2. s \in P[0]
  <2>1. AfterTools(base, s, tools, 0, s) /\ s \in AState
    <3>1. s \in AState
      BY DEF Sound
    <3>2. \A j \in 1..0 : FALSE
      OBVIOUS
    <3> QED BY <3>1, <3>2 DEF AfterTools
  <2>2. 0 \in 0..n
    BY <1>1
  <2> HIDE DEF n
  <2> QED BY <2>1, <2>2
<1>3. ASSUME NEW i \in 1..n, NEW t \in P[i - 1] PROVE step(t, i) \in P[i]
  <2>1. i \in 0..n /\ i - 1 \in 0..n
    BY <1>1
  <2>2. AfterTools(base, s, tools, i - 1, t)
    <3> DEFINE j == i - 1
    <3>1. j \in 0..n /\ t \in P[j]
      BY <1>3, <2>1
    <3> HIDE DEF n, j
    <3>2. AfterTools(base, s, tools, j, t)
      BY <3>1
    <3> QED BY <3>2 DEF j
  <2>3. AfterTools(base, s, tools, i, step(t, i))
    BY <2>2, ToolStep
  <2>4. step(t, i) \in AState
    BY <2>3 DEF AfterTools, Sound
  <2> HIDE DEF n, step
  <2> QED BY <2>1, <2>3, <2>4
<1>4. \A i \in 0..n : P[i] \subseteq AState
  OBVIOUS
<1> HIDE DEF P
<1>5. emit_tool_call_deltas(s, tools, m) \in P[n]
  BY <1>2, <1>3, <1>4, DeltaWalk
<1> HIDE DEF n
<1>6. AfterTools(base, s, tools, n, emit_tool_call_deltas(s, tools, m))
  BY <1>1, <1>5 DEF P
<1> QED BY <1>6 DEF n

-----------------------------------------------------------------------------
(* One chunk                                                               *)

\* Bookkeeping: only usage, finish reason or logprobs change.
Noted(s, t) ==
    /\ t \in AState /\ SameLog(s, t) /\ SameTools(s, t)
    /\ t.next_output_index = s.next_output_index /\ t.has_started = s.has_started
    /\ t.reasoning_content = s.reasoning_content
    /\ t.reasoning_output_index = s.reasoning_output_index
    /\ t.accumulated_text = s.accumulated_text /\ t.msg_output_index = s.msg_output_index
    /\ t.completed_items = s.completed_items

LEMMA Notes ==
    ASSUME NEW base, NEW s, Sound(base, {}, s), NEW t, Noted(s, t)
    PROVE  Sound(base, {}, t) /\ SameTools(s, t)
<1> DEFINE X == {}
<1>1. /\ t \in AState /\ t.log = s.log /\ t.next_sequence_number = s.next_sequence_number
      /\ t.next_output_index = s.next_output_index /\ t.has_started = s.has_started
      /\ SameTools(s, t) /\ SlotsFit(s)
  BY DEF Noted, SameLog, Sound
<1>2. \A x : Hand(t, x) = Hand(s, x)
  <2>1. /\ t.reasoning_content = s.reasoning_content
        /\ t.reasoning_output_index = s.reasoning_output_index
        /\ t.accumulated_text = s.accumulated_text /\ t.msg_output_index = s.msg_output_index
        /\ t.tool_calls = s.tool_calls
    BY DEF Noted, SameTools
  <2> QED BY <2>1, SameHand
<1>3. SlotsFit(t)
  BY <1>1, ToolsFit
<1>4. Sound(base, X, s)
  OBVIOUS
<1>5. \A x \in Names : /\ Owned(X, t, x) <=> Owned(X, s, x)
                       /\ Owned(X, s, x) => Hand(t, x) = Hand(s, x)
  BY <1>2 DEF Owned
<1> HIDE DEF X
<1>6. Sound(base, X, t)
  BY <1>1, <1>3, <1>4, <1>5, Settles
<1> QED BY <1>1, <1>6 DEF X

LEMMA UsageNoted ==
    ASSUME NEW s \in AState, NEW c
    PROVE  Noted(s, [s EXCEPT !.usage = @ \/ c.usage])
<1> DEFINE flag == s.usage \/ c.usage
           t == [s EXCEPT !.usage = flag]
<1>1. flag \in BOOLEAN
  BY Zenon
<1>2. [s EXCEPT !.usage = @ \/ c.usage] = t
  OBVIOUS
<1> HIDE DEF flag
<1>3. Noted(s, t)
  BY <1>1 DEF Noted, AState, SameLog, SameTools
<1> QED BY <1>2, <1>3

LEMMA FinishNoted ==
    ASSUME NEW s \in AState, NEW c \in Chunk
    PROVE  Noted(s, [s EXCEPT !.usage = @ \/ c.usage,
                              !.finish_reason = IF c.finish = "none" THEN @ ELSE c.finish])
<1> DEFINE flag == s.usage \/ c.usage
           reason == IF c.finish = "none" THEN s.finish_reason ELSE c.finish
           t == [s EXCEPT !.usage = flag, !.finish_reason = reason]
<1>1. flag \in BOOLEAN
  BY Zenon
<1>2. reason \in {"none", "stop", "length", "content_filter"}
  BY DEF AState, Chunk, Fields
<1>3. [s EXCEPT !.usage = @ \/ c.usage,
                !.finish_reason = IF c.finish = "none" THEN @ ELSE c.finish] = t
  BY Zenon DEF AState
<1> HIDE DEF flag, reason
<1>4. t \in AState
  BY <1>1, <1>2 DEF AState
<1>5. Noted(s, t)
  BY <1>4 DEF Noted, AState, SameLog, SameTools
<1> QED BY <1>3, <1>5

LEMMA LogprobsNoted ==
    ASSUME NEW s \in AState, NEW c, NEW n \in 1..MaxChunks
    PROVE  Noted(s, TakeLogprobs(s, c, n))
<1> DEFINE piece == Piece(n, "text", 0)
           logprobs == Append(s.text_logprobs, piece)
<1>1. piece \in PieceType
  BY DEF Piece, PieceType
<1>2. logprobs \in Seq(PieceType)
  BY <1>1 DEF AState
<1>3. CASE c.text
  <2>1. TakeLogprobs(s, c, n) = [s EXCEPT !.text_logprobs = logprobs]
    BY <1>3 DEF TakeLogprobs
  <2> HIDE DEF logprobs
  <2> QED BY <1>2, <2>1 DEF Noted, AState, SameLog, SameTools
<1>4. CASE ~c.text
  BY <1>4 DEF TakeLogprobs, Noted, SameLog, SameTools
<1> QED BY <1>3, <1>4

\* What the contract says of a chunk in the state s.
ChunkFollows(s, c) ==
    Contract => \A j \in DOMAIN c.tools :
                    /\ c.tools[j].id # "empty"
                    /\ \/ c.tools[j].id = "given"
                       \/ ~HasText(c) /\ s.tool_calls[c.tools[j].index].id # ""

\* The calls that are open after it.
CallsAfter(s, c, t) ==
    Contract => /\ \A k \in Slots : ~HasText(c) /\ s.tool_calls[k].id # "" => t.tool_calls[k].id # ""
                /\ \A k \in Slots : StartsCall(c, k) => t.tool_calls[k].id # ""

LEMMA DeltasKeep ==
    ASSUME NEW base, NEW s, Sound(base, {}, s), NEW c \in Chunk, NEW n \in 1..MaxChunks,
           ToolsFollow(s, c.tools)
    PROVE  /\ Sound(base, {}, Deltas(s, c, n))
           /\ Contract => /\ \A k \in Slots : s.tool_calls[k].id # "" =>
                                Deltas(s, c, n).tool_calls[k].id # ""
                          /\ \A k \in Slots : StartsCall(c, k) =>
                                Deltas(s, c, n).tool_calls[k].id # ""
<1> DEFINE s1 == IF c.reasoning THEN emit_reasoning_delta(s, Piece(n, "reasoning", 0)) ELSE s
           s2 == IF c.text THEN emit_text_delta(s1, Piece(n, "text", 0)) ELSE s1
           s3 == IF c.refusal THEN emit_refusal_delta(s2, Piece(n, "refusal", 0)) ELSE s2
           t == IF c.has_tools THEN emit_tool_call_deltas(s3, c.tools, n) ELSE s3
<1>1. /\ Piece(n, "reasoning", 0) \in PieceType /\ Piece(n, "text", 0) \in PieceType
      /\ Piece(n, "refusal", 0) \in PieceType
  BY DEF Piece, PieceType
<1>2. Deltas(s, c, n) = t
  BY DEF Deltas
<1>3. Sound(base, {}, s1) /\ SameTools(s, s1)
  <2>1. CASE c.reasoning
    BY <1>1, <2>1, ReasoningGrows
  <2>2. CASE ~c.reasoning
    BY <2>2 DEF SameTools
  <2> QED BY <2>1, <2>2
<1> HIDE DEF s1
<1>4. Sound(base, {}, s2) /\ SameTools(s1, s2)
  <2>1. CASE c.text
    BY <1>1, <1>3, <2>1, TextAdds, TextGrows
  <2>2. CASE ~c.text
    BY <1>3, <2>2 DEF SameTools
  <2> QED BY <2>1, <2>2
<1> HIDE DEF s2
<1>5. Sound(base, {}, s3) /\ SameTools(s2, s3)
  <2>1. CASE c.refusal
    BY <1>1, <1>4, <2>1, RefusalAdds, TextGrows
  <2>2. CASE ~c.refusal
    BY <1>4, <2>2 DEF SameTools
  <2> QED BY <2>1, <2>2
<1> HIDE DEF s3
<1>6. s3.tool_calls = s.tool_calls
  BY <1>3, <1>4, <1>5 DEF SameTools
<1>7. c.tools \in Seq(ToolDelta) /\ (c.tools # <<>> => c.has_tools)
  BY DEF Chunk, Fields
<1>8. CASE c.has_tools
  <2> DEFINE tools == c.tools
  <2>1. ToolsFollow(s3, tools)
    BY <1>6 DEF ToolsFollow
  <2>2. tools \in Seq(ToolDelta)
    BY <1>7
  <2> HIDE DEF tools
  <2>3. AfterTools(base, s3, tools, Len(tools), emit_tool_call_deltas(s3, tools, n))
    BY <1>5, <2>1, <2>2, CallsGrow
  <2>4. t = emit_tool_call_deltas(s3, tools, n)
    BY <1>8 DEF tools
  <2> HIDE DEF t
  <2>5. Sound(base, {}, t)
    BY <2>3, <2>4 DEF AfterTools
  <2>6. ASSUME Contract, NEW k \in Slots, StartsCall(c, k) PROVE t.tool_calls[k].id # ""
    <3>1. PICK j \in DOMAIN tools : tools[j].index = k /\ tools[j].id = "given"
      BY <2>6 DEF StartsCall, tools
    <3>2. j \in 1..Len(tools)
      BY <2>2
    <3> QED BY <2>3, <2>4, <2>6, <3>1, <3>2 DEF AfterTools
  <2>7. ASSUME Contract, NEW k \in Slots, s.tool_calls[k].id # "" PROVE t.tool_calls[k].id # ""
    BY <1>6, <2>3, <2>4, <2>7 DEF AfterTools
  <2> QED BY <1>2, <2>5, <2>6, <2>7
<1>9. CASE ~c.has_tools
  <2>1. t = s3 /\ \A k : ~StartsCall(c, k)
    <3>1. c.tools = <<>>
      BY <1>7, <1>9
    <3> QED BY <1>9, <3>1 DEF StartsCall
  <2> QED BY <1>2, <1>5, <1>6, <2>1
<1> QED BY <1>8, <1>9

LEMMA ChunkKeeps ==
    ASSUME NEW base, NEW s, Sound(base, {}, s), NEW c \in Chunk, NEW n \in 1..MaxChunks,
           ChunkFollows(s, c)
    PROVE  /\ Sound(base, {}, process_chunk_value(s, c, n))
           /\ CallsAfter(s, c, process_chunk_value(s, c, n))
<1> DEFINE t == process_chunk_value(s, c, n)
<1>1. s \in AState /\ s.has_started
  BY DEF Sound
<1>2. CASE ~c.choices
  <2>1. t = [s EXCEPT !.usage = @ \/ c.usage]
    BY <1>2 DEF process_chunk_value
  <2> HIDE DEF t
  <2>2. Sound(base, {}, t) /\ SameTools(s, t)
    BY <1>1, <2>1, UsageNoted, Notes
  <2>3. \A k : ~StartsCall(c, k)
    <3>1. c.tools = <<>>
      BY <1>2 DEF Chunk, Fields
    <3> QED BY <3>1 DEF StartsCall
  <2> QED BY <2>2, <2>3 DEF CallsAfter, SameTools, t
<1>3. CASE c.choices
  <2> DEFINE s1 == [s EXCEPT !.usage = @ \/ c.usage,
                             !.finish_reason = IF c.finish = "none" THEN @ ELSE c.finish]
             s2 == Transitions(s1, c)
             s3 == TakeLogprobs(s2, c, n)
             s4 == Deltas(s3, c, n)
  <2>1. t = LifecycleStart(s, s4, c)
    BY <1>3 DEF process_chunk_value
  <2>2. Sound(base, {}, s1) /\ SameTools(s, s1)
    <3> HIDE DEF s1
    <3>1. Noted(s, s1)
      BY <1>1, FinishNoted DEF s1
    <3> QED BY <3>1, Notes
  <2> HIDE DEF s1
  <2>3. Sound(base, {}, s2) /\ (~HasText(c) => SameTools(s1, s2))
    BY <2>2, TransitionsKeep
  <2> HIDE DEF s2
  <2>4. Sound(base, {}, s3) /\ SameTools(s2, s3)
    <3>1. s2 \in AState
      BY <2>3 DEF Sound
    <3>2. Noted(s2, s3)
      BY <3>1, LogprobsNoted
    <3> HIDE DEF s3
    <3> QED BY <2>3, <3>2, Notes
  <2> HIDE DEF s3
  <2>5. ~HasText(c) => s3.tool_calls = s.tool_calls
    BY <2>2, <2>3, <2>4 DEF SameTools
  <2>6. ToolsFollow(s3, c.tools)
    BY <2>5 DEF ToolsFollow, ChunkFollows
  <2>7. /\ Sound(base, {}, s4)
        /\ Contract => /\ \A k \in Slots : s3.tool_calls[k].id # "" => s4.tool_calls[k].id # ""
                       /\ \A k \in Slots : StartsCall(c, k) => s4.tool_calls[k].id # ""
    BY <2>4, <2>6, DeltasKeep
  <2> HIDE DEF s4
  <2>8. t = s4
    BY <2>1, <2>7 DEF LifecycleStart, Sound
  <2> HIDE DEF t
  <2>9. CallsAfter(s, c, t)
    BY <2>5, <2>7, <2>8 DEF CallsAfter
  <2> QED BY <2>7, <2>8, <2>9 DEF t
<1> QED BY <1>2, <1>3

-----------------------------------------------------------------------------
(* The end of the stream                                                   *)

\* Everything that was open is closed.
LEMMA CompletionCloses ==
    ASSUME NEW base, NEW s, Sound(base, {}, s)
    PROVE  Sound(base, Names, CloseForCompletion(s)) /\ Stays(s, CloseForCompletion(s))
<1> DEFINE s1 == IF s.reasoning_content = <<>> THEN s ELSE close_reasoning_item(s)
           s2 == CloseOpenSlots(s1)
           s3 == IF s2.accumulated_text = <<>> THEN s2 ELSE close_message_item(s2)
           X == {}
           Y == X \cup {-2}
           Z == Y \cup Slots
<1>1. CloseForCompletion(s) = s3
  BY DEF CloseForCompletion
<1>2. /\ -2 \notin X /\ Sound(base, X, s)
      /\ \A k \in Slots : k \notin Y
      /\ -1 \notin Z /\ Z \cup {-1} = Names
  <2>1. \A k \in Slots : k # -2 /\ k # -1
    BY DEF Slots
  <2>2. Z \cup {-1} = Names
    <3> HIDE DEF Slots
    <3> QED BY NamesAre
  <2> HIDE DEF Slots
  <2> QED BY <2>1, <2>2
<1> HIDE DEF X
<1>3. Sound(base, Y, s1) /\ Stays(s, s1)
  <2>1. CASE s.reasoning_content = <<>>
    <3>1. ~Owned(X, s, -2)
      BY <2>1, HandOf DEF Owned
    <3>2. Stays(s, s)
      BY DEF Stays
    <3> QED BY <1>2, <2>1, <3>1, <3>2, NotHeld
  <2>2. CASE s.reasoning_content # <<>>
    BY <1>2, <2>2, ReasoningCloses
  <2> QED BY <2>1, <2>2
<1> HIDE DEF s1, Y
<1>4. Sound(base, Z, s2) /\ Stays(s1, s2)
  BY <1>2, <1>3, SlotsClose
<1> HIDE DEF s2, Z
<1>5. Sound(base, Z \cup {-1}, s3) /\ Stays(s2, s3)
  <2>1. CASE s2.accumulated_text = <<>>
    <3>1. ~Owned(Z, s2, -1)
      BY <2>1, HandOf DEF Owned
    <3>2. Stays(s2, s2)
      BY DEF Stays
    <3> QED BY <1>4, <2>1, <3>1, <3>2, NotHeld
  <2>2. CASE s2.accumulated_text # <<>>
    BY <1>2, <1>4, <2>2, MessageCloses
  <2> QED BY <2>1, <2>2
<1> HIDE DEF s3
<1>6. Stays(s, s3)
  BY <1>3, <1>4, <1>5 DEF Stays
<1> QED BY <1>1, <1>2, <1>5, <1>6

\* A state is sound from itself on.
LEMMA Rebase ==
    ASSUME NEW base, NEW X, NEW s, Sound(base, X, s)
    PROVE  Sound(s.log, X, s)
<1> DEFINE log == s.log
           q == s.next_sequence_number
           n == s.next_output_index
<1>1. Kept(base, log, q, n)
  BY DEF Sound
<1>2. log \in Seq(AnEvent) /\ IsLog(log)
  BY <1>1, LogIs DEF Kept
<1> HIDE DEF log, q, n
<1>3. \A i : DeltasAt(log, i) \in Seq(PieceType)
  <2>1. Fits([type |-> "x"])
    BY DEF Fits
  <2> QED BY <1>2, <2>1, AppendDeltas
<1>4. \A i \in Nat : IsPrefix(DeltasAt(log, i), DeltasAt(log, i))
  <2> TAKE i \in Nat
  <2> DEFINE d == DeltasAt(log, i)
  <2>1. d \in Seq(PieceType)
    BY <1>3
  <2> HIDE DEF d
  <2>2. IsPrefix(d, d)
    BY <2>1 DEF IsPrefix
  <2> QED BY <2>2 DEF d
<1>5. Kept(log, log, q, n)
  BY <1>1, <1>3, <1>4 DEF Kept
<1> QED BY <1>5 DEF Sound, log, q, n

LEMMA TransportLog ==
    ASSUME NEW c, c = Num(Lifecycle[1], 0), NEW p, p = Num(Lifecycle[2], 1)
    PROVE  TransportEvents = Append(Append(<<>>, c), p)
<1> DEFINE s == [log |-> <<>>, next_sequence_number |-> 0]
           both == [k \in DOMAIN Lifecycle |->
                        [type |-> Lifecycle[k].type, index |-> Lifecycle[k].index,
                         kind |-> Lifecycle[k].kind, data |-> Lifecycle[k].data,
                         seq  |-> s.next_sequence_number + k - 1]]
<1>1. TransportEvents = <<>> \o both
  BY DEF TransportEvents, EmitAll
<1>2. DOMAIN Lifecycle = 1..2
  BY DEF Lifecycle
<1>3. both = <<c, p>>
  <2>1. s.next_sequence_number = 0
    OBVIOUS
  <2> HIDE DEF s
  <2>2. DOMAIN both = 1..2 /\ both[1] = c /\ both[2] = p
    BY <1>2, <2>1 DEF Num
  <2>3. both = [k \in 1..2 |-> both[k]]
    BY <1>2
  <2> HIDE DEF both
  <2> QED BY <2>2, <2>3
<1> HIDE DEF both
<1>4. <<>> \o <<c, p>> = Append(Append(<<>>, c), p)
  <2> DEFINE S == {c, p}
  <2>1. c \in S /\ p \in S
    OBVIOUS
  <2> HIDE DEF S
  <2> QED BY <2>1
<1> QED BY <1>1, <1>3, <1>4

\* The log the handlers begin with: nothing is announced in it.
LEMMA TransportKept == Kept(TransportEvents, TransportEvents, 0, 0)
<1> DEFINE c == Num(Lifecycle[1], 0)
           p == Num(Lifecycle[2], 1)
           none == <<>>
           one == Append(none, c)
           log == Append(one, p)
<1>1. TransportEvents = log
  BY TransportLog
<1>2. /\ c \in AnEvent /\ p \in AnEvent /\ Fits(c) /\ Fits(p)
      /\ c.index = -1 /\ p.index = -1 /\ c.type = "created" /\ p.type = "in_progress"
      /\ \A i : DeltaAt(c, i) = <<>> /\ DeltaAt(p, i) = <<>>
  <2>1. Lifecycle[1] = Event("created", -1, "response", <<>>)
    BY DEF Lifecycle
  <2>2. Lifecycle[2] = Event("in_progress", -1, "response", <<>>)
    BY DEF Lifecycle
  <2>3. Lifecycle[1] \in Plain /\ Lifecycle[2] \in Plain
    BY <2>1, <2>2 DEF Plain, Event, Types
  <2> QED BY <2>1, <2>2, <2>3, NumIs DEF Event, DeltaAt
<1>3. none \in Seq(AnEvent) /\ Len(none) = 0 /\ DOMAIN none = 1..0
  OBVIOUS
<1>4. \A i : DeltasAt(none, i) = <<>>
  <2> TAKE i
  <2>1. [a \in DOMAIN none |->
            IF none[a].index = i /\ none[a].type = "delta" THEN none[a].data ELSE <<>>] = <<>>
    OBVIOUS
  <2> QED BY <2>1, FlattenEmpty DEF DeltasAt
<1> HIDE DEF c, p, none
<1>5. one \in Seq(AnEvent) /\ Len(one) = 1 /\ DOMAIN one = 1..1 /\ one[1] = c
  BY <1>2, <1>3
<1>6. \A i : DeltasAt(one, i) = <<>>
  <2> TAKE i
  <2>1. IsLog(none)
    BY <1>3, LogIs
  <2>2. DeltasAt(one, i) = DeltasAt(none, i) \o DeltaAt(c, i)
    BY <1>2, <2>1, AppendDeltas
  <2>3. DeltaAt(c, i) = <<>> /\ DeltasAt(none, i) = <<>>
    BY <1>2, <1>4
  <2> QED BY <2>2, <2>3
<1> HIDE DEF one
<1>7. log \in Seq(AnEvent) /\ Len(log) = 2 /\ DOMAIN log = 1..2 /\ log[1] = c /\ log[2] = p
  <2>1. IsLog(one)
    BY <1>5, LogIs
  <2>2. /\ DOMAIN log = 1..(Len(one) + 1) /\ Len(log) = Len(one) + 1
        /\ log[Len(one) + 1] = p /\ \A a \in DOMAIN one : log[a] = one[a]
    BY <1>2, <2>1, AppendLog, SMTT(30)
  <2>3. log \in Seq(AnEvent)
    BY <1>2, <1>5
  <2> HIDE DEF log
  <2> QED BY <1>5, <2>2, <2>3
<1>8. \A i : DeltasAt(log, i) = <<>>
  <2> TAKE i
  <2>1. IsLog(one)
    BY <1>5, LogIs
  <2>2. DeltasAt(log, i) = DeltasAt(one, i) \o DeltaAt(p, i)
    BY <1>2, <2>1, AppendDeltas
  <2>3. DeltaAt(p, i) = <<>> /\ DeltasAt(one, i) = <<>>
    BY <1>2, <1>6
  <2> QED BY <2>2, <2>3
<1> HIDE DEF log
<1>9. Announced(log) = {}
  BY <1>2, <1>7 DEF Announced
<1>10. IsFiniteSet(Announced(log)) /\ Cardinality(Announced(log)) = 0
  BY <1>9, FS_EmptySet
<1>11. \A i \in Nat : /\ DeltasAt(log, i) = <<>>
                      /\ IsPrefix(DeltasAt(log, i), DeltasAt(log, i))
                      /\ DeltasAt(log, i) \in Seq(PieceType)
  <2> TAKE i \in Nat
  <2> DEFINE d == DeltasAt(log, i)
  <2>1. d = <<>>
    BY <1>8
  <2> HIDE DEF d
  <2>2. IsPrefix(d, d) /\ d \in Seq(PieceType)
    BY <2>1 DEF IsPrefix
  <2> QED BY <2>1, <2>2 DEF d
<1>12. \A a \in DOMAIN log : log[a].index \in Int /\ log[a].index < 0
  BY <1>2, <1>7
<1>13. Kept(log, log, 0, 0)
  BY <1>7, <1>10, <1>11, <1>12 DEF Kept
<1> QED BY <1>1, <1>13

LEMMA StartIsSound ==
    ASSUME Transport
    PROVE  Sound(NewState.log, {}, NewState)
<1> DEFINE s == NewState
           X == {}
           calls == [k \in Slots |-> EmptySlot]
           log == TransportEvents
<1>1. Kept(log, log, 0, 0) /\ log \in Seq(AnEvent)
  BY TransportKept DEF Kept
<1> HIDE DEF log
<1>2. calls \in [Slots -> ASlot] /\ \A k \in Slots : calls[k] = EmptySlot
  <2>1. EmptySlot \in ASlot
    BY DEF EmptySlot, ASlot
  <2> QED BY <2>1
<1> HIDE DEF calls
<1>3. /\ s.reasoning_content = <<>> /\ s.accumulated_text = <<>> /\ s.tool_calls = calls
      /\ s.next_output_index = 0 /\ s.next_sequence_number = 0 /\ s.has_started
      /\ s.log = log
  BY Zenon DEF NewState, Transport, calls, log
<1>4. s \in AState
  <2>1. s = [reasoning_content |-> <<>>, reasoning_output_index |-> 0,
             accumulated_text |-> <<>>, msg_output_index |-> 0,
             has_refusal |-> FALSE, text_logprobs |-> <<>>,
             tool_calls |-> calls,
             completed_items |-> <<>>, finish_reason |-> "none", usage |-> FALSE,
             has_started |-> TRUE,
             next_output_index |-> 0, next_sequence_number |-> 0,
             log |-> log]
    BY Zenon DEF NewState, Transport, calls, log
  <2> HIDE DEF s
  <2> QED BY <1>1, <1>2, <2>1 DEF AState
<1> HIDE DEF s
<1>5. SlotsFit(s)
  <2>1. EmptySlot.id = "" /\ EmptySlot.arguments = <<>> /\ EmptySlot.is_custom = FALSE
    BY DEF EmptySlot
  <2>2. \A k \in Slots : s.tool_calls[k] = EmptySlot
    BY <1>2, <1>3
  <2> QED BY <2>1, <2>2 DEF SlotsFit
<1>6. \A x \in Names : ~Owned(X, s, x)
  <2> TAKE x \in Names
  <2>1. CASE x = -2
    BY <1>3, <2>1, HandOf DEF Owned
  <2>2. CASE x = -1
    BY <1>3, <2>2, HandOf DEF Owned
  <2>3. CASE x \in Slots
    <3>0. EmptySlot.id = ""
      BY DEF EmptySlot
    <3>1. s.tool_calls[x].id = ""
      BY <1>2, <1>3, <2>3, <3>0
    <3>2. ~Hand(s, x).open
      BY <2>3, <3>1, SlotHand
    <3> QED BY <3>2 DEF Owned
  <2> QED BY <2>1, <2>2, <2>3, NamesAre
<1> HIDE DEF X
<1>7. Items(X, s)
  BY <1>3, <1>6 DEF Items
<1>8. Sound(log, X, s)
  BY <1>1, <1>3, <1>4, <1>5, <1>7 DEF Sound
<1> QED BY <1>3, <1>8 DEF X, s

-----------------------------------------------------------------------------
(* What a log tells its client                                             *)

\* A log that announces n items and is right about each.
Tells(log, n) ==
    /\ IsLog(log) /\ Len(log) \in Nat /\ DOMAIN log = 1..Len(log) /\ n \in Nat
    /\ IsFiniteSet(Announced(log)) /\ Cardinality(Announced(log)) = n
    /\ \A k \in 3..Len(log) : log[k].seq = k - 3
    /\ \A i \in Nat : i < n => ClosedAt(log, i) \/ \E kind : Grammar(log, i, kind, 3)

\* log goes on from base without touching what base had closed.
GoesFrom(base, log) ==
    /\ \A a \in DOMAIN base : a \in DOMAIN log /\ log[a] = base[a]
    /\ \A i \in Nat : /\ IsPrefix(DeltasAt(base, i), DeltasAt(log, i))
                      /\ Ended(base, i) => DeltasAt(log, i) = DeltasAt(base, i)

\* Under the contract all is closed.
AllClosed(log, n) == \A i \in Nat : i < n => ClosedAt(log, i)

LEMMA SoundTells ==
    ASSUME NEW base, NEW X, NEW s, Sound(base, X, s)
    PROVE  Tells(s.log, s.next_output_index) /\ GoesFrom(base, s.log)
<1> DEFINE log == s.log
           q == s.next_sequence_number
           n == s.next_output_index
<1>1. Kept(base, log, q, n) /\ Items(X, s)
  BY DEF Sound
<1>2. /\ IsLog(log) /\ Len(log) \in Nat /\ DOMAIN log = 1..Len(log)
  <2>1. log \in Seq(AnEvent)
    BY <1>1 DEF Kept
  <2> HIDE DEF log
  <2> QED BY <2>1, LogIs
<1>3. ASSUME NEW i \in Nat, i < n
      PROVE  ClosedAt(log, i) \/ \E kind : Grammar(log, i, kind, 3)
  <2>1. CASE Rests(log, i)
    BY <2>1 DEF Rests
  <2>2. CASE \E x \in Names : Owned(X, s, x) /\ Hand(s, x).at = i
    BY <1>1, <2>2 DEF Items, OpenAt
  <2> QED BY <1>1, <1>3, <2>1, <2>2 DEF Items
<1> HIDE DEF log, q, n
<1>4. Tells(log, n)
  BY <1>1, <1>2, <1>3 DEF Kept, Tells
<1>5. GoesFrom(base, log)
  BY <1>1 DEF Kept, GoesFrom
<1> QED BY <1>4, <1>5 DEF log, n

LEMMA AllIsClosed ==
    ASSUME Contract, NEW base, NEW s, Sound(base, Names, s)
    PROVE  AllClosed(s.log, s.next_output_index)
BY DEF Sound, Items, Owned, Rests, AllClosed

\* One event more, which is of no item.
LEMMA TellsOn ==
    ASSUME NEW base, NEW log, NEW n, Tells(log, n), GoesFrom(base, log),
           NEW e, e.index = -1, e.type \notin Types, e.seq = Len(log) - 2
    PROVE  /\ Tells(Append(log, e), n) /\ GoesFrom(base, Append(log, e))
           /\ AllClosed(log, n) => AllClosed(Append(log, e), n)
<1> DEFINE new == Append(log, e)
<1>1. /\ IsLog(log) /\ Len(log) \in Nat /\ DOMAIN log = 1..Len(log) /\ n \in Nat
  BY DEF Tells
<1>2. Fits(e) /\ e.type # "item_added"
  BY DEF Fits, Types
<1>3. /\ IsLog(new) /\ DOMAIN new = 1..(Len(log) + 1) /\ Len(new) = Len(log) + 1
      /\ new[Len(log) + 1] = e /\ \A a \in DOMAIN log : new[a] = log[a]
  BY <1>1, <1>2, AppendLog
<1>4. LogStep(log, new, -1)
  BY <1>1, <1>2, AppendSteps
<1> HIDE DEF new
<1>5. ASSUME NEW i \in Nat
      PROVE  /\ EventsAt(new, i) = EventsAt(log, i)
             /\ \A a \in EventsAt(log, i) : new[a] = log[a]
             /\ DeltasAt(new, i) = DeltasAt(log, i)
             /\ \A kind, r : Grammar(log, i, kind, r) => Grammar(new, i, kind, r)
  BY <1>4, StepElsewhere
<1>6. ASSUME NEW i \in Nat, ClosedAt(log, i) PROVE ClosedAt(new, i)
  <2>1. Ended(log, i) => Ended(new, i)
    BY <1>5 DEF Ended
  <2> QED BY <1>5, <1>6, <2>1 DEF ClosedAt
<1>7. Announced(new) = Announced(log)
  BY <1>1, <1>2, <1>3 DEF Announced
<1>8. \A k \in 3..Len(new) : new[k].seq = k - 3
  BY <1>1, <1>3 DEF Tells
<1>9. ASSUME NEW i \in Nat, i < n
      PROVE  ClosedAt(new, i) \/ \E kind : Grammar(new, i, kind, 3)
  <2>1. CASE ClosedAt(log, i)
    BY <1>6, <2>1
  <2>2. CASE \E kind : Grammar(log, i, kind, 3)
    BY <1>5, <2>2
  <2> QED BY <1>9, <2>1, <2>2 DEF Tells
<1>10. Tells(new, n)
  BY <1>1, <1>3, <1>7, <1>8, <1>9 DEF Tells
<1>11. GoesFrom(base, new)
  BY <1>1, <1>3, <1>5 DEF GoesFrom
<1>12. AllClosed(log, n) => AllClosed(new, n)
  BY <1>6 DEF AllClosed
<1> QED BY <1>10, <1>11, <1>12 DEF new

\* The state after [DONE]: all is closed, and the final event is out.
Over(base, s, t) ==
    /\ Tells(t.log, t.next_output_index) /\ GoesFrom(base, t.log)
    /\ Contract => AllClosed(t.log, t.next_output_index)
    /\ \E u \in AState : Stays(s, u) /\ Grown(u, t)

LEMMA CompletionEnds ==
    ASSUME NEW base, NEW s, Sound(base, {}, s)
    PROVE  Over(base, s, build_completion_events(s))
<1> DEFINE u == CloseForCompletion(s)
           q == u.next_sequence_number
           e == Event(FinalStatus(u), -1, "response", u.completed_items \o OpenItems(u))
           x == Num(e, q)
           t == build_completion_events(s)
<1>1. Sound(base, Names, u) /\ Stays(s, u)
  BY CompletionCloses
<1>2. t = Emit(u, e)
  BY DEF build_completion_events
<1>3. e.type \notin Types /\ e.index = -1
  BY DEF Event, FinalStatus, Types
<1>4. x.type = e.type /\ x.index = e.index /\ x.seq = q
  BY DEF Num
<1> HIDE DEF u, e, x, t
<1>5. u \in AState /\ q = Len(u.log) - 2 /\ q \in Nat
  <2>1. u \in AState /\ Kept(base, u.log, q, u.next_output_index)
    BY <1>1 DEF Sound
  <2> QED BY <2>1, LogIs DEF Kept
<1>6. t = With(u, Append(u.log, x), q + 1)
  BY <1>2, <1>5, EmitIs DEF x
<1>7. t.log = Append(u.log, x) /\ t.next_output_index = u.next_output_index
  BY <1>5, <1>6 DEF With, AState
<1>8. Grown(u, t)
  <2> DEFINE L == Append(u.log, x)
             p == q + 1
  <2>1. t = With(u, L, p)
    BY <1>6
  <2> HIDE DEF L, p
  <2>2. t.log = L /\ t.next_sequence_number = p
    BY <1>5, <2>1, WithIs
  <2> QED BY <2>1, <2>2 DEF Grown
<1> DEFINE log == u.log
           n == u.next_output_index
<1>9. Tells(log, n) /\ GoesFrom(base, log) /\ (Contract => AllClosed(log, n))
  BY <1>1, SoundTells, AllIsClosed
<1>10. x.index = -1 /\ x.type \notin Types /\ x.seq = Len(log) - 2
  BY <1>3, <1>4, <1>5
<1> HIDE DEF log, n
<1>11. /\ Tells(Append(log, x), n) /\ GoesFrom(base, Append(log, x))
       /\ AllClosed(log, n) => AllClosed(Append(log, x), n)
  BY <1>9, <1>10, TellsOn
<1>12. t.log = Append(log, x) /\ t.next_output_index = n
  BY <1>7 DEF log, n
<1>13. Over(base, s, t)
  BY <1>1, <1>5, <1>8, <1>9, <1>11, <1>12 DEF Over
<1> QED BY <1>13 DEF t

-----------------------------------------------------------------------------
(* The invariant                                                           *)

\* What TypeOK says of the state of the stream.
Shapes(s) ==
    /\ DOMAIN s = DOMAIN NewState
    /\ s.reasoning_content \in Seq(PieceType) /\ s.accumulated_text \in Seq(PieceType)
    /\ s.text_logprobs \in Seq(PieceType)
    /\ \A k \in Slots : /\ s.tool_calls[k].id \in {"", "call"}
                        /\ s.tool_calls[k].arguments \in Seq(PieceType)
    /\ \A j \in DOMAIN s.completed_items : /\ s.completed_items[j].kind \in Kinds
                                           /\ s.completed_items[j].data \in Seq(PieceType)

\* What is open was announced.
InRange(s) ==
    /\ s.reasoning_content # <<>> => s.reasoning_output_index \in 0..(s.next_output_index - 1)
    /\ s.accumulated_text # <<>> => s.msg_output_index \in 0..(s.next_output_index - 1)
    /\ \A k \in Slots : s.tool_calls[k].id # "" =>
          s.tool_calls[k].output_index \in 0..(s.next_output_index - 1)

LEMMA StateShapes ==
    ASSUME NEW s \in AState
    PROVE  Shapes(s)
<1>1. DOMAIN s = DOMAIN NewState
  BY DEF AState, NewState
<1>2. \A k \in Slots : /\ s.tool_calls[k].id \in {"", "call"}
                       /\ s.tool_calls[k].arguments \in Seq(PieceType)
  BY DEF AState, ASlot
<1>3. \A j \in DOMAIN s.completed_items : /\ s.completed_items[j].kind \in Kinds
                                          /\ s.completed_items[j].data \in Seq(PieceType)
  <2> DEFINE kept == s.completed_items
  <2>1. kept \in Seq(AnItem)
    BY DEF AState
  <2> HIDE DEF kept
  <2>2. \A j \in DOMAIN kept : kept[j] \in AnItem
    BY <2>1
  <2>3. \A item \in AnItem : item.kind \in Kinds /\ item.data \in Seq(PieceType)
    BY DEF AnItem
  <2> QED BY <2>2, <2>3 DEF kept
<1>4. /\ s.reasoning_content \in Seq(PieceType) /\ s.accumulated_text \in Seq(PieceType)
      /\ s.text_logprobs \in Seq(PieceType)
  BY DEF AState
<1> QED BY <1>1, <1>2, <1>3, <1>4 DEF Shapes

LEMMA SoundRange ==
    ASSUME NEW base, NEW s, Sound(base, {}, s)
    PROVE  InRange(s)
<1> DEFINE n == s.next_output_index
           X == {}
<1>1. \A x \in Names : Hand(s, x).open => Hand(s, x).at \in 0..(n - 1)
  <2>1. \A x \in Names : Hand(s, x).open => Owned(X, s, x)
    BY DEF Owned
  <2>2. Items(X, s) /\ n \in Nat
    BY DEF Sound, AState
  <2> HIDE DEF X
  <2>3. \A x \in Names : Owned(X, s, x) => Hand(s, x).at \in Nat /\ Hand(s, x).at < n
    BY <2>2 DEF Items
  <2> QED BY <2>1, <2>2, <2>3
<1> HIDE DEF n
<1>2. s.reasoning_content # <<>> => s.reasoning_output_index \in 0..(n - 1)
  BY <1>1, HandOf, NamesAre
<1>3. s.accumulated_text # <<>> => s.msg_output_index \in 0..(n - 1)
  BY <1>1, HandOf, NamesAre
<1>4. \A k \in Slots : s.tool_calls[k].id # "" => s.tool_calls[k].output_index \in 0..(n - 1)
  <2> TAKE k \in Slots
  <2>1. k \in Names
    BY NamesAre
  <2> QED BY <1>1, <2>1, SlotHand
<1> QED BY <1>2, <1>3, <1>4 DEF InRange, n

\* The final event changes neither.
LEMMA OverIs ==
    ASSUME NEW base, NEW s, NEW t, Over(base, s, t), InRange(s)
    PROVE  Shapes(t) /\ InRange(t)
<1>1. PICK u \in AState : Stays(s, u) /\ Grown(u, t)
  BY DEF Over
<1>2. Shapes(u)
  BY StateShapes
<1>3. InRange(u)
  <2>1. /\ u.reasoning_content = s.reasoning_content
        /\ u.reasoning_output_index = s.reasoning_output_index
        /\ u.accumulated_text = s.accumulated_text /\ u.msg_output_index = s.msg_output_index
        /\ u.tool_calls = s.tool_calls /\ u.next_output_index = s.next_output_index
    BY <1>1 DEF Stays
  <2>2. \A k \in Slots : u.tool_calls[k].id # "" =>
           u.tool_calls[k].output_index \in 0..(u.next_output_index - 1)
    <3> TAKE k \in Slots
    <3>1. u.tool_calls[k] = s.tool_calls[k]
      BY <2>1
    <3>2. s.tool_calls[k].id # "" =>
             s.tool_calls[k].output_index \in 0..(s.next_output_index - 1)
      BY DEF InRange
    <3> DEFINE new == u.tool_calls[k]
               old == s.tool_calls[k]
               n == s.next_output_index
               m == u.next_output_index
    <3>3. new = old /\ m = n /\ (old.id # "" => old.output_index \in 0..(n - 1))
      BY <2>1, <3>1, <3>2
    <3> HIDE DEF new, old, m, n
    <3>4. new.id # "" => new.output_index \in 0..(m - 1)
      BY <3>3
    <3> QED BY <3>4 DEF new, m
  <2>3. u.reasoning_content # <<>> =>
           u.reasoning_output_index \in 0..(u.next_output_index - 1)
    BY <2>1, Zenon DEF InRange
  <2>4. u.accumulated_text # <<>> => u.msg_output_index \in 0..(u.next_output_index - 1)
    BY <2>1, Zenon DEF InRange
  <2> QED BY <2>2, <2>3, <2>4, Zenon DEF InRange
<1>4. /\ DOMAIN t = DOMAIN u
      /\ t.reasoning_content = u.reasoning_content /\ t.accumulated_text = u.accumulated_text
      /\ t.text_logprobs = u.text_logprobs /\ t.tool_calls = u.tool_calls
      /\ t.completed_items = u.completed_items
      /\ t.reasoning_output_index = u.reasoning_output_index
      /\ t.msg_output_index = u.msg_output_index /\ t.next_output_index = u.next_output_index
  BY <1>1 DEF Grown, With, AState
<1> QED BY <1>2, <1>3, <1>4 DEF Shapes, InRange

\* The calls that began and that no text followed are open.
CallsAreOpen ==
    Contract => \A k \in Slots : Started(k) /\ ~TextAfterStart(k) => ss.tool_calls[k].id # ""

Inv ==
    /\ sent \in Seq(Chunks) /\ Len(sent) <= MaxChunks /\ done \in BOOLEAN
    /\ Shapes(ss) /\ InRange(ss) /\ Tells(ss.log, ss.next_output_index)
    /\ ~done => Sound(ss.log, {}, ss) /\ CallsAreOpen

LEMMA InvInit ==
    ASSUME Transport, Init
    PROVE  Inv
<1>1. Sound(ss.log, {}, ss)
  BY StartIsSound DEF Init
<1>2. Shapes(ss) /\ InRange(ss) /\ Tells(ss.log, ss.next_output_index)
  BY <1>1, StateShapes, SoundRange, SoundTells DEF Sound
<1>3. /\ sent \in Seq(Chunks) /\ Len(sent) <= MaxChunks /\ done = FALSE
      /\ \A k : ~Started(k)
  BY DEF Init, Started
<1>4. CallsAreOpen
  BY <1>3 DEF CallsAreOpen
<1> QED BY <1>1, <1>2, <1>3, <1>4 DEF Inv

\* What the upstream may send fits the calls that are open.
LEMMA SentFollows ==
    ASSUME NEW c \in Chunks, UpstreamMaySend(c), CallsAreOpen
    PROVE  ChunkFollows(ss, c)
<1> SUFFICES ASSUME Contract, NEW j \in DOMAIN c.tools
             PROVE  /\ c.tools[j].id # "empty"
                    /\ \/ c.tools[j].id = "given"
                       \/ ~HasText(c) /\ ss.tool_calls[c.tools[j].index].id # ""
  BY DEF ChunkFollows
<1> DEFINE k == c.tools[j].index
<1>1. c.tools[j].id # "empty" /\ ~ToolsResumeAfterText
  BY DEF Contract
<1>2. k \in Slots
  <2>1. c.tools \in Seq(ToolDelta)
    BY DEF Chunk, Fields
  <2>2. c.tools[j] \in ToolDelta
    BY <2>1
  <2> QED BY <2>2 DEF ToolDelta
<1>3. CASE Started(k)
  <2>1. ~TextAfterStart(k) /\ ~HasText(c)
    BY <1>1, <1>3 DEF UpstreamMaySend
  <2> QED BY <1>1, <1>2, <1>3, <2>1 DEF CallsAreOpen
<1>4. CASE ~Started(k)
  BY <1>1, <1>4 DEF UpstreamMaySend
<1> QED BY <1>3, <1>4

LEMMA InvReceive ==
    ASSUME Inv, NEW c \in Chunks, Receive(c)
    PROVE  Inv' /\ GoesFrom(ss.log, ss'.log)
<1>1. Sound(ss.log, {}, ss) /\ CallsAreOpen /\ sent \in Seq(Chunks) /\ Len(sent) \in Nat
  BY DEF Inv, Receive
<1>2. c \in Chunk /\ Len(sent) + 1 \in 1..MaxChunks /\ UpstreamMaySend(c)
  BY <1>1 DEF Receive
<1>3. Sound(ss.log, {}, ss') /\ CallsAfter(ss, c, ss')
  <2> DEFINE n == Len(sent) + 1
             t == process_chunk_value(ss, c, n)
  <2>1. ChunkFollows(ss, c) /\ n \in 1..MaxChunks
    BY <1>1, <1>2, SentFollows
  <2>2. ss' = t
    BY DEF Receive
  <2> HIDE DEF n
  <2>3. Sound(ss.log, {}, t) /\ CallsAfter(ss, c, t)
    BY <1>1, <1>2, <2>1, ChunkKeeps
  <2> QED BY <2>2, <2>3
<1>4. Sound(ss'.log, {}, ss')
  BY <1>3, Rebase
<1>5. /\ Shapes(ss') /\ InRange(ss') /\ Tells(ss'.log, ss'.next_output_index)
      /\ GoesFrom(ss.log, ss'.log)
  BY <1>3, StateShapes, SoundRange, SoundTells DEF Sound
<1>6. /\ sent' \in Seq(Chunks) /\ Len(sent') = Len(sent) + 1 /\ DOMAIN sent' = 1..(Len(sent) + 1)
      /\ DOMAIN sent = 1..Len(sent) /\ sent'[Len(sent) + 1] = c
      /\ \A n \in DOMAIN sent : sent'[n] = sent[n]
  BY <1>1 DEF Receive
<1>7. ASSUME Contract, NEW k \in Slots, Started(k)', ~TextAfterStart(k)'
      PROVE  ss'.tool_calls[k].id # ""
  <2>1. CASE StartsCall(c, k)
    BY <1>3, <1>7, <2>1 DEF CallsAfter
  <2>2. CASE ~StartsCall(c, k)
    <3>1. PICK n \in DOMAIN sent : StartsCall(sent[n], k)
      BY <1>1, <1>6, <1>7, <2>2 DEF Started
    <3>2. ~HasText(c)
      BY <1>1, <1>6, <1>7, <3>1 DEF TextAfterStart
    <3>3. ~TextAfterStart(k)
      <4> SUFFICES ASSUME NEW a \in DOMAIN sent, NEW b \in DOMAIN sent, a < b,
                          StartsCall(sent[a], k), HasText(sent[b])
                   PROVE  FALSE
        BY DEF TextAfterStart
      <4>1. /\ a \in DOMAIN sent' /\ b \in DOMAIN sent'
            /\ StartsCall(sent'[a], k) /\ HasText(sent'[b])
        BY <1>1, <1>6
      <4> QED BY <1>7, <4>1 DEF TextAfterStart
    <3>4. ss.tool_calls[k].id # ""
      BY <1>1, <1>7, <3>1, <3>3 DEF CallsAreOpen, Started
    <3> QED BY <1>3, <1>7, <3>2, <3>4 DEF CallsAfter
  <2> QED BY <2>1, <2>2
<1>8. CallsAreOpen'
  BY <1>7 DEF CallsAreOpen
<1>9. Len(sent') <= MaxChunks /\ done' = FALSE
  BY <1>1, <1>6 DEF Receive
<1> QED BY <1>4, <1>5, <1>6, <1>8, <1>9 DEF Inv

LEMMA InvReceiveDone ==
    ASSUME Inv, ReceiveDone
    PROVE  Inv' /\ Over(ss.log, ss, ss')
<1>1. Sound(ss.log, {}, ss) /\ InRange(ss)
  BY DEF Inv, ReceiveDone
<1>2. Over(ss.log, ss, ss')
  BY <1>1, CompletionEnds DEF ReceiveDone
<1>3. Shapes(ss') /\ InRange(ss') /\ Tells(ss'.log, ss'.next_output_index)
  BY <1>1, <1>2, OverIs DEF Over
<1>4. sent' = sent /\ done' = TRUE
  BY DEF ReceiveDone
<1> QED BY <1>2, <1>3, <1>4 DEF Inv

LEMMA InvStutters ==
    ASSUME Inv, UNCHANGED vars
    PROVE  Inv'
<1>1. ss' = ss /\ sent' = sent /\ done' = done
  BY DEF vars
<1>2. CallsAreOpen => CallsAreOpen'
  BY <1>1 DEF CallsAreOpen, Started, TextAfterStart
<1> QED BY <1>1, <1>2 DEF Inv

\* The step from any state in which Inv holds.
LEMMA InvNext ==
    ASSUME Inv, [Next]_vars
    PROVE  Inv'
BY InvReceive, InvReceiveDone, InvStutters DEF Next

LEMMA InvHolds ==
    ASSUME Transport
    PROVE  Spec => []Inv
<1>1. Init => Inv
  BY InvInit
<1>2. Inv /\ [Next]_vars => Inv'
  BY InvNext
<1> QED BY <1>1, <1>2, PTL DEF Spec

\* Shapes, and whatever is open has an output index that was handed out: the
\* accumulators of streaming.rs through every mixture of chunks.
THEOREM TypeCorrect ==
    ASSUME Transport
    PROVE  Spec => []TypeOK
<1>1. Inv => TypeOK
  BY DEF Inv, Shapes, InRange, TypeOK
<1>2. Spec => []Inv
  BY InvHolds
<1> QED BY <1>1, <1>2, PTL

\* However text, reasoning, refusals and calls are interleaved, the events of a
\* stream are numbered without a gap, also on the tool call path, which counts in
\* a local copy (streaming.rs: process_chunk_value), and the events of each output
\* index form one item that is announced once and not touched after its end.
THEOREM StreamsAreWellFormed ==
    ASSUME Transport
    PROVE  Spec => []EventsAreWellFormed
<1>1. Inv => EventsAreWellFormed
  <2> SUFFICES ASSUME Inv PROVE EventsAreWellFormed
    OBVIOUS
  <2> DEFINE log == ss.log
             n == ss.next_output_index
  <2>1. Tells(log, n)
    BY DEF Inv
  <2> HIDE DEF log, n
  <2>2. \A k \in 3..Len(log) : log[k].seq = k - 3
    BY <2>1 DEF Tells
  <2>3. SequenceIsGapFree
    <3>1. Len(log) \in Nat
      BY <2>1 DEF Tells
    <3>2. \A k \in 3..Len(log) : log[k].seq = k - 2 - 1
      BY <2>2, <3>1
    <3> QED BY <3>2 DEF SequenceIsGapFree, Transport, log
  <2>4. ASSUME NEW i \in 0..(n - 1)
        PROVE  /\ \E a \in EventsAt(log, i) : log[a].type = "item_added"
               /\ \A a, b \in EventsAt(log, i) : a < b =>
                     /\ log[a].kind = log[b].kind
                     /\ Rank(log[a].type) <= Rank(log[b].type)
                     /\ log[a].type = log[b].type => log[a].type = "delta"
    <3>1. PICK kind, r : Grammar(log, i, kind, r)
      <4>1. i \in Nat /\ i < n
        BY <2>1 DEF Tells
      <4> QED BY <2>1, <4>1 DEF Tells, ClosedAt
    <3> QED BY <3>1 DEF Grammar
  <2>5. ItemGrammar
    BY <2>4 DEF ItemGrammar, log, n
  <2> QED BY <2>3, <2>5 DEF EventsAreWellFormed
<1>2. Spec => []Inv
  BY InvHolds
<1> QED BY <1>1, <1>2, PTL

-----------------------------------------------------------------------------
(* The item protocol                                                       *)

\* What the client makes of an index.
LEMMA ClientItemIs ==
    ASSUME NEW log, NEW i, NEW kind, NEW r, Grammar(log, i, kind, r)
    PROVE  \E final : /\ ClientItem(log, i) = [kind |-> kind, data |-> DeltasAt(log, i),
                                               open |-> ~Ended(log, i), final |-> final]
                      /\ Ended(log, i) =>
                            \E a \in EventsAt(log, i) :
                               log[a].type = "item_done" /\ final = log[a].data
                      /\ ~Ended(log, i) => final = <<>>
<1> DEFINE At(type) == {a \in EventsAt(log, i) : log[a].type = type}
           added == CHOOSE a \in At("item_added") : TRUE
           end == CHOOSE a \in At("item_done") : TRUE
           final == IF At("item_done") = {} THEN <<>> ELSE log[end].data
<1>1. ClientItem(log, i) = [kind |-> log[added].kind, data |-> DeltasAt(log, i),
                            open |-> At("item_done") = {}, final |-> final]
  BY Zenon DEF ClientItem
<1>2. log[added].kind = kind
  <2>1. added \in At("item_added")
    BY DEF Grammar
  <2> HIDE DEF added
  <2> QED BY <2>1 DEF Grammar
<1>3. (At("item_done") = {}) = ~Ended(log, i)
  BY DEF Ended
<1>4. ASSUME Ended(log, i)
      PROVE  \E a \in EventsAt(log, i) : log[a].type = "item_done" /\ final = log[a].data
  <2>1. end \in At("item_done")
    BY <1>4 DEF Ended
  <2>2. final = log[end].data
    BY <2>1
  <2> HIDE DEF end, final
  <2> QED BY <2>1, <2>2
<1>5. ASSUME ~Ended(log, i) PROVE final = <<>>
  BY <1>3, <1>5
<1> HIDE DEF added, end, final, At
<1>6. ClientItem(log, i) = [kind |-> kind, data |-> DeltasAt(log, i),
                            open |-> ~Ended(log, i), final |-> final]
  BY <1>1, <1>2, <1>3, Zenon
<1> QED BY <1>4, <1>5, <1>6

\* An index has one end.
LEMMA OneEnd ==
    ASSUME NEW log, Len(log) \in Nat, DOMAIN log = 1..Len(log),
           NEW i, NEW kind, NEW r, Grammar(log, i, kind, r),
           NEW a \in EventsAt(log, i), NEW b \in EventsAt(log, i),
           log[a].type = "item_done", log[b].type = "item_done"
    PROVE  a = b
<1>1. a \in Nat /\ b \in Nat
  BY DEF EventsAt
<1>2. ~(a < b) /\ ~(b < a)
  BY DEF Grammar
<1> QED BY <1>1, <1>2

LEMMA GrammarOf ==
    ASSUME NEW log, NEW n, Tells(log, n), NEW i \in Nat, i < n
    PROVE  \E kind, r : Grammar(log, i, kind, r)
BY DEF Tells, ClosedAt

\* What the client has of an item only grows, and stays once it is closed.
LEMMA ItemAdvances ==
    ASSUME NEW base, NEW log, NEW n, NEW m, Tells(base, n), Tells(log, m),
           GoesFrom(base, log), NEW i \in Nat, i < n, i < m
    PROVE  Protocol!Advances(ClientItem(base, i), ClientItem(log, i))
<1> DEFINE old == ClientItem(base, i)
           new == ClientItem(log, i)
<1>1. PICK k1, r1 : Grammar(base, i, k1, r1)
  BY GrammarOf
<1>2. PICK k2, r2 : Grammar(log, i, k2, r2)
  BY GrammarOf
<1>3. PICK f1 : /\ old = [kind |-> k1, data |-> DeltasAt(base, i),
                          open |-> ~Ended(base, i), final |-> f1]
                /\ Ended(base, i) => \E a \in EventsAt(base, i) :
                                        base[a].type = "item_done" /\ f1 = base[a].data
  BY <1>1, ClientItemIs
<1>4. PICK f2 : /\ new = [kind |-> k2, data |-> DeltasAt(log, i),
                          open |-> ~Ended(log, i), final |-> f2]
                /\ Ended(log, i) => \E a \in EventsAt(log, i) :
                                       log[a].type = "item_done" /\ f2 = log[a].data
  BY <1>2, ClientItemIs
<1> HIDE DEF old, new
<1>5. /\ \A a \in EventsAt(base, i) : a \in EventsAt(log, i) /\ log[a] = base[a]
      /\ IsPrefix(DeltasAt(base, i), DeltasAt(log, i))
      /\ Ended(base, i) => DeltasAt(log, i) = DeltasAt(base, i)
  BY DEF GoesFrom, EventsAt
<1>6. k1 = k2
  <2>1. PICK a \in EventsAt(base, i) : base[a].type = "item_added"
    BY <1>1 DEF Grammar
  <2>2. base[a].kind = k1 /\ log[a].kind = k2
    BY <1>1, <1>2, <1>5 DEF Grammar
  <2> QED BY <1>5, <2>2
<1>7. ASSUME Ended(base, i) PROVE new = old
  <2>1. Ended(log, i)
    BY <1>5, <1>7 DEF Ended
  <2>2. PICK a \in EventsAt(base, i) : base[a].type = "item_done" /\ f1 = base[a].data
    BY <1>3, <1>7
  <2>3. PICK b \in EventsAt(log, i) : log[b].type = "item_done" /\ f2 = log[b].data
    BY <1>4, <2>1
  <2>4. a \in EventsAt(log, i) /\ log[a] = base[a]
    BY <1>5
  <2>5. a = b
    <3>1. Len(log) \in Nat /\ DOMAIN log = 1..Len(log)
      BY DEF Tells
    <3> QED BY <1>2, <2>2, <2>3, <2>4, <3>1, OneEnd
  <2>6. f1 = f2
    BY <2>2, <2>3, <2>4, <2>5
  <2> QED BY <1>3, <1>4, <1>5, <1>6, <1>7, <2>1, <2>6
<1>8. new.kind = old.kind /\ old.data = DeltasAt(base, i) /\ new.data = DeltasAt(log, i)
  BY <1>3, <1>4, <1>6
<1>9. ~old.open => new = old
  BY <1>3, <1>7
<1>10. Protocol!Advances(old, new)
  BY <1>5, <1>8, <1>9 DEF Protocol!Advances, Protocol!IsPrefix, IsPrefix
<1> QED BY <1>10 DEF old, new

\* A closed item is what its deltas said.
LEMMA ItemConsists ==
    ASSUME Contract, NEW log, NEW n, Tells(log, n), NEW i \in Nat, i < n
    PROVE  /\ Protocol!Consistent(ClientItem(log, i))
           /\ AllClosed(log, n) => ~ClientItem(log, i).open
<1> DEFINE new == ClientItem(log, i)
<1>1. PICK kind, r : Grammar(log, i, kind, r)
  BY GrammarOf
<1>2. PICK f : /\ new = [kind |-> kind, data |-> DeltasAt(log, i),
                         open |-> ~Ended(log, i), final |-> f]
               /\ Ended(log, i) => \E a \in EventsAt(log, i) :
                                      log[a].type = "item_done" /\ f = log[a].data
  BY <1>1, ClientItemIs
<1> HIDE DEF new
<1>3. ASSUME Ended(log, i) PROVE f = DeltasAt(log, i)
  <2>1. ClosedAt(log, i)
    <3>1. ~ \E k : Grammar(log, i, k, 3)
      BY <1>3, NotEnded
    <3> QED BY <3>1 DEF Tells
  <2> QED BY <1>2, <1>3, <2>1 DEF ClosedAt
<1>4. Protocol!Consistent(new)
  BY <1>2, <1>3 DEF Protocol!Consistent
<1>5. AllClosed(log, n) => ~new.open
  BY <1>2 DEF AllClosed, ClosedAt
<1> QED BY <1>4, <1>5 DEF new

\* The items the log shows.
Shown(log) == [i \in 1..Cardinality(Announced(log)) |-> ClientItem(log, i - 1)]

LEMMA ShownIs ==
    ASSUME NEW log, NEW n, Tells(log, n)
    PROVE  /\ n \in Nat /\ Len(Shown(log)) = n /\ DOMAIN Shown(log) = 1..n
           /\ \A i \in 1..n : Shown(log)[i] = ClientItem(log, i - 1) /\ i - 1 \in Nat /\ i - 1 < n
<1>1. n \in Nat /\ Cardinality(Announced(log)) = n
  BY DEF Tells
<1>2. Shown(log) = [i \in 1..n |-> ClientItem(log, i - 1)]
  BY <1>1 DEF Shown
<1> QED BY <1>1, <1>2

LEMMA MoreAnnounced ==
    ASSUME NEW base, NEW log, NEW n, NEW m, Tells(base, n), Tells(log, m), GoesFrom(base, log)
    PROVE  n <= m
<1>1. Announced(base) \subseteq Announced(log)
  BY DEF GoesFrom, Announced
<1>2. IsFiniteSet(Announced(log))
  BY DEF Tells
<1>3. Cardinality(Announced(base)) <= Cardinality(Announced(log))
  BY <1>1, <1>2, FS_Subset
<1> QED BY <1>3 DEF Tells

\* A step of the stream is a step of the protocol.
LEMMA StepEmits ==
    ASSUME Contract, NEW n, NEW m, Tells(ss.log, n), Tells(ss'.log, m),
           GoesFrom(ss.log, ss'.log), ~done
    PROVE  /\ Protocol!Emit
           /\ AllClosed(ss'.log, m) => \A i \in DOMAIN ClientItems' : ~ClientItems'[i].open
<1> DEFINE old == Shown(ss.log)
           new == Shown(ss'.log)
<1>1. ClientItems = old /\ ClientItems' = new
  BY DEF ClientItems, Shown
<1>2. /\ n \in Nat /\ Len(old) = n /\ DOMAIN old = 1..n
      /\ \A i \in 1..n : old[i] = ClientItem(ss.log, i - 1) /\ i - 1 \in Nat /\ i - 1 < n
  BY ShownIs
<1>3. /\ m \in Nat /\ Len(new) = m /\ DOMAIN new = 1..m
      /\ \A i \in 1..m : new[i] = ClientItem(ss'.log, i - 1) /\ i - 1 \in Nat /\ i - 1 < m
  BY ShownIs
<1>4. n <= m
  BY MoreAnnounced
<1> HIDE DEF old, new
<1>5. \A i \in DOMAIN old : Protocol!Advances(old[i], new[i])
  <2> TAKE i \in DOMAIN old
  <2>1. i \in 1..n /\ i \in 1..m
    BY <1>2, <1>3, <1>4
  <2>2. i - 1 \in Nat /\ i - 1 < n /\ i - 1 < m
    BY <1>2, <1>3, <2>1
  <2>3. Protocol!Advances(ClientItem(ss.log, i - 1), ClientItem(ss'.log, i - 1))
    BY <2>2, ItemAdvances
  <2> QED BY <1>2, <1>3, <2>1, <2>3
<1>6. \A i \in DOMAIN new : /\ Protocol!Consistent(new[i])
                            /\ AllClosed(ss'.log, m) => ~new[i].open
  <2> TAKE i \in DOMAIN new
  <2>1. i \in 1..m /\ i - 1 \in Nat /\ i - 1 < m
    BY <1>3
  <2>2. /\ Protocol!Consistent(ClientItem(ss'.log, i - 1))
        /\ AllClosed(ss'.log, m) => ~ClientItem(ss'.log, i - 1).open
    BY <2>1, ItemConsists
  <2> QED BY <1>3, <2>1, <2>2
<1>7. Len(new) >= Len(old)
  BY <1>2, <1>3, <1>4
<1>8. Protocol!Emit
  BY <1>1, <1>5, <1>6, <1>7 DEF Protocol!Emit
<1> QED BY <1>1, <1>6, <1>8

\* A client that assembles the items of the stream from its events sees what
\* ItemProtocol promises: items open at the next index, grow while they are open,
\* close once with what their deltas said and are not touched again, and the end
\* of the stream (streaming.rs: build_completion_events) closes all of them.
THEOREM StreamImplementsProtocol ==
    ASSUME Transport, Contract
    PROVE  Spec => ImplementsItemProtocol
<1>1. Init => Protocol!Init
  <2> SUFFICES ASSUME Init PROVE Protocol!Init
    OBVIOUS
  <2> DEFINE log == ss.log
  <2>1. Kept(log, log, 0, 0) /\ done = FALSE
    <3>1. log = TransportEvents
      BY Zenon DEF Init, NewState, Transport
    <3> QED BY <3>1, TransportKept DEF Init
  <2>2. ClientItems = Shown(log)
    BY DEF ClientItems, Shown
  <2> HIDE DEF log
  <2>3. Shown(log) = <<>>
    BY <2>1 DEF Kept, Shown
  <2> QED BY <2>1, <2>2, <2>3 DEF Protocol!Init
<1>2. Inv /\ [Next]_vars => [Protocol!Next]_(Protocol!vars)
  <2>1. ASSUME Inv, NEW c \in Chunks, Receive(c) PROVE Protocol!Next
    <3>1. Inv' /\ GoesFrom(ss.log, ss'.log)
      BY <2>1, InvReceive
    <3>2. ~done /\ done' = FALSE
      BY <2>1 DEF Receive
    <3>3. Tells(ss.log, ss.next_output_index) /\ Tells(ss'.log, ss'.next_output_index)
      BY <2>1, <3>1 DEF Inv
    <3>4. Protocol!Emit
      BY <3>1, <3>2, <3>3, StepEmits
    <3> QED BY <3>2, <3>4 DEF Protocol!Next, Protocol!Deliver
  <2>2. ASSUME Inv, ReceiveDone PROVE Protocol!Next
    <3>1. Inv' /\ Over(ss.log, ss, ss')
      BY <2>2, InvReceiveDone
    <3>2. ~done /\ done' = TRUE
      BY <2>2 DEF ReceiveDone
    <3>3. /\ Tells(ss.log, ss.next_output_index) /\ Tells(ss'.log, ss'.next_output_index)
          /\ GoesFrom(ss.log, ss'.log) /\ AllClosed(ss'.log, ss'.next_output_index)
      BY <2>2, <3>1 DEF Inv, Over
    <3>4. Protocol!Emit /\ \A i \in DOMAIN ClientItems' : ~ClientItems'[i].open
      BY <3>2, <3>3, StepEmits
    <3> QED BY <3>2, <3>4 DEF Protocol!Next, Protocol!Finish
  <2>3. ASSUME UNCHANGED vars PROVE UNCHANGED Protocol!vars
    BY <2>3 DEF vars, Protocol!vars, ClientItems
  <2> QED BY <2>1, <2>2, <2>3 DEF Next
<1>3. Spec => []Inv
  BY InvHolds
<1> QED BY <1>1, <1>2, <1>3, PTL DEF Spec, ImplementsItemProtocol, Protocol!Spec

-----------------------------------------------------------------------------
(* The text in a log                                                       *)

\* What one event says of the messages at the indexes I.
SaidBy(e, I) ==
    IF e.kind = "message" /\ e.type = "delta" /\ e.index \in I THEN e.data ELSE <<>>

\* What a log says of them, in its own order.
Said(log, I) == FlattenSeq([a \in DOMAIN log |-> SaidBy(log[a], I)])

LEMMA SaidIs ==
    ASSUME NEW log, IsLog(log), NEW I,
           NEW parts, parts = [a \in DOMAIN log |-> SaidBy(log[a], I)]
    PROVE  /\ parts \in Seq(Seq(PieceType)) /\ Len(parts) = Len(log) /\ Len(log) \in Nat
           /\ \A a \in 1..Len(log) : parts[a] = SaidBy(log[a], I)
           /\ Said(log, I) = FlattenSeq(parts) /\ Said(log, I) \in Seq(PieceType)
<1>1. Len(log) \in Nat /\ DOMAIN log = 1..Len(log)
  BY DEF IsLog
<1>2. \A a \in DOMAIN log : SaidBy(log[a], I) \in Seq(PieceType)
  BY DEF SaidBy, IsLog
<1>3. /\ parts \in Seq(Seq(PieceType)) /\ Len(parts) = Len(log)
      /\ \A a \in 1..Len(log) : parts[a] = SaidBy(log[a], I)
  BY <1>1, <1>2
<1>4. Said(log, I) = FlattenSeq(parts)
  BY DEF Said
<1>5. FlattenSeq(parts) \in Seq(PieceType)
  BY <1>3, FlattenType
<1> QED BY <1>1, <1>3, <1>4, <1>5

LEMMA SaidAppend ==
    ASSUME NEW log, IsLog(log), NEW e, Fits(e), NEW I
    PROVE  /\ Said(Append(log, e), I) = Said(log, I) \o SaidBy(e, I)
           /\ Said(log, I) \in Seq(PieceType) /\ SaidBy(e, I) \in Seq(PieceType)
<1> DEFINE new == Append(log, e)
           parts == [a \in DOMAIN log |-> SaidBy(log[a], I)]
           all == [a \in DOMAIN new |-> SaidBy(new[a], I)]
<1>1. /\ IsLog(new) /\ Len(new) = Len(log) + 1 /\ new[Len(log) + 1] = e
      /\ Len(log) \in Nat /\ DOMAIN log = 1..Len(log) /\ \A a \in DOMAIN log : new[a] = log[a]
  BY AppendLog
<1> HIDE DEF new
<1>2. /\ parts \in Seq(Seq(PieceType)) /\ Len(parts) = Len(log)
      /\ \A a \in 1..Len(log) : parts[a] = SaidBy(log[a], I)
      /\ Said(log, I) = FlattenSeq(parts)
  BY SaidIs
<1>3. /\ all \in Seq(Seq(PieceType)) /\ Len(all) = Len(log) + 1
      /\ \A a \in 1..(Len(log) + 1) : all[a] = SaidBy(new[a], I)
      /\ Said(new, I) = FlattenSeq(all)
  BY <1>1, SaidIs
<1> HIDE DEF parts, all
<1>4. \A i \in 1..Len(parts) : all[i] = parts[i]
  <2> TAKE i \in 1..Len(parts)
  <2>1. i \in 1..Len(log) /\ i \in 1..(Len(log) + 1)
    BY <1>1, <1>2
  <2>2. new[i] = log[i]
    BY <1>1, <2>1
  <2>3. all[i] = SaidBy(new[i], I) /\ parts[i] = SaidBy(log[i], I)
    BY <1>2, <1>3, <2>1
  <2> QED BY <2>2, <2>3
<1>5. all[Len(all)] = SaidBy(e, I)
  BY <1>1, <1>3
<1>6. /\ FlattenSeq(all) = FlattenSeq(parts) \o all[Len(all)]
      /\ FlattenSeq(parts) \in Seq(PieceType) /\ all[Len(all)] \in Seq(PieceType)
  BY <1>2, <1>3, <1>4, FlattenGrows
<1> QED BY <1>2, <1>3, <1>5, <1>6 DEF new

\* The messages come one after the other: an event is not of an earlier one.
Ordered(log) ==
    \A a, b \in DOMAIN log :
        a < b /\ log[a].kind = "message" /\ log[b].kind = "message" =>
            log[a].index <= log[b].index

Below(log, m) == \A a \in DOMAIN log : log[a].kind = "message" => log[a].index \in 0..m

\* All the text in the log is P, in its order.
Relays(log, P) == Said(log, Int) = P /\ Ordered(log)

LEMMA RelaysOn ==
    ASSUME NEW s \in AState, NEW P, Relays(s.log, P), NEW m \in Nat, Below(s.log, m),
           NEW e \in Plain, e.kind = "message" => e.index = m
    PROVE  /\ Relays(Emit(s, e).log, P \o SaidBy(e, Int))
           /\ Below(Emit(s, e).log, m)
<1> DEFINE t == Emit(s, e)
           f == Num(e, s.next_sequence_number)
           log == s.log
<1>1. t.log = Append(log, f) /\ log \in Seq(AnEvent) /\ s.next_sequence_number \in Nat
  BY EmitStep DEF AState
<1>2. /\ f \in AnEvent /\ Fits(f) /\ f.kind = e.kind /\ f.index = e.index
      /\ f.type = e.type /\ f.data = e.data /\ e.index \in Int
  BY <1>1, NumIs DEF Plain
<1>3. IsLog(log)
  BY <1>1, LogIs
<1> HIDE DEF t, f, log
<1>4. Said(Append(log, f), Int) = Said(log, Int) \o SaidBy(f, Int)
  BY <1>2, <1>3, SaidAppend
<1>5. SaidBy(f, Int) = SaidBy(e, Int)
  BY <1>2 DEF SaidBy
<1>6. /\ Len(log) \in Nat /\ DOMAIN log = 1..Len(log)
      /\ DOMAIN Append(log, f) = 1..(Len(log) + 1)
      /\ Append(log, f)[Len(log) + 1] = f
      /\ \A a \in DOMAIN log : Append(log, f)[a] = log[a]
  BY <1>2, <1>3, AppendLog
<1>7. \A a \in DOMAIN Append(log, f) : \/ a \in DOMAIN log /\ Append(log, f)[a] = log[a]
                                       \/ a = Len(log) + 1 /\ Append(log, f)[a] = f
  BY <1>6
<1>8. Below(Append(log, f), m)
  BY <1>2, <1>7 DEF Below, log
<1>9. Ordered(Append(log, f))
  <2> DEFINE new == Append(log, f)
  <2> SUFFICES ASSUME NEW a \in DOMAIN new, NEW b \in DOMAIN new,
                      a < b, new[a].kind = "message", new[b].kind = "message"
               PROVE  new[a].index <= new[b].index
    BY DEF Ordered
  <2>1. a \in DOMAIN log /\ new[a] = log[a]
    BY <1>6, <1>7
  <2>2. CASE b \in DOMAIN log /\ new[b] = log[b]
    BY <2>1, <2>2 DEF Relays, Ordered, log
  <2>3. CASE b = Len(log) + 1 /\ new[b] = f
    BY <1>2, <2>1, <2>3 DEF Below, log
  <2> QED BY <1>7, <2>2, <2>3
<1> QED BY <1>1, <1>4, <1>5, <1>8, <1>9 DEF Relays, t, log

\* Two or three events of one item, of which at most a message's deltas say a thing.
LEMMA RelaysTwo ==
    ASSUME NEW s \in AState, NEW P \in Seq(PieceType), Relays(s.log, P), NEW m \in Nat, Below(s.log, m),
           NEW c \in Plain, NEW d \in Plain,
           \A e \in {c, d} : /\ e.kind = "message" => e.index = m /\ e.type # "delta"
    PROVE  Relays(EmitAll(s, <<c, d>>).log, P) /\ Below(EmitAll(s, <<c, d>>).log, m)
<1> DEFINE t == Emit(s, c)
<1>1. SaidBy(c, Int) = <<>> /\ SaidBy(d, Int) = <<>>
  BY DEF SaidBy
<1>2. t \in AState /\ EmitAll(s, <<c, d>>) = Emit(t, d)
  BY EmitTwo, EmitStep
<1>3. Relays(t.log, P \o SaidBy(c, Int)) /\ Below(t.log, m)
  BY RelaysOn
<1>4. P \o <<>> = P
  OBVIOUS
<1>5. Relays(t.log, P)
  BY <1>1, <1>3, <1>4
<1> HIDE DEF t
<1>6. Relays(Emit(t, d).log, P \o SaidBy(d, Int)) /\ Below(Emit(t, d).log, m)
  BY <1>2, <1>3, <1>5, RelaysOn
<1> QED BY <1>1, <1>2, <1>4, <1>6

LEMMA RelaysThree ==
    ASSUME NEW s \in AState, NEW P \in Seq(PieceType), Relays(s.log, P), NEW m \in Nat, Below(s.log, m),
           NEW b \in Plain, NEW c \in Plain, NEW d \in Plain,
           \A e \in {b, c, d} : /\ e.kind = "message" => e.index = m /\ e.type # "delta"
    PROVE  Relays(EmitAll(s, <<b, c, d>>).log, P) /\ Below(EmitAll(s, <<b, c, d>>).log, m)
<1> DEFINE t == Emit(s, b)
<1>1. SaidBy(b, Int) = <<>>
  BY DEF SaidBy
<1>2. t \in AState /\ EmitAll(s, <<b, c, d>>) = Emit(Emit(t, c), d)
      /\ EmitAll(t, <<c, d>>) = Emit(Emit(t, c), d)
  BY EmitTwo, EmitThree, EmitStep
<1>3. Relays(t.log, P \o SaidBy(b, Int)) /\ Below(t.log, m)
  BY RelaysOn
<1>4. P \o <<>> = P
  OBVIOUS
<1>5. Relays(t.log, P)
  BY <1>1, <1>3, <1>4
<1> HIDE DEF t
<1>6. Relays(EmitAll(t, <<c, d>>).log, P) /\ Below(EmitAll(t, <<c, d>>).log, m)
  BY <1>2, <1>3, <1>5, RelaysTwo
<1> QED BY <1>2, <1>6

\* What the log says of the messages, index by index.
PerIndex(log, n) == [i \in 1..n |-> Said(log, {i - 1})]

ByIndex(log, n) == FlattenSeq(PerIndex(log, n))

LEMMA SaidNothing ==
    ASSUME NEW log, IsLog(log), NEW I, \A a \in DOMAIN log : SaidBy(log[a], I) = <<>>
    PROVE  Said(log, I) = <<>>
<1> DEFINE parts == [a \in DOMAIN log |-> SaidBy(log[a], I)]
<1>1. /\ parts \in Seq(Seq(PieceType)) /\ Len(parts) = Len(log)
      /\ \A a \in 1..Len(log) : parts[a] = SaidBy(log[a], I)
      /\ Said(log, I) = FlattenSeq(parts)
  BY SaidIs
<1>2. DOMAIN log = 1..Len(log)
  BY DEF IsLog
<1> HIDE DEF parts
<1>3. \A i \in 1..Len(parts) : parts[i] = <<>>
  BY <1>1, <1>2
<1> QED BY <1>1, <1>3, FlattenNothing

LEMMA ByIndexIs ==
    ASSUME NEW log, IsLog(log), NEW n \in Nat
    PROVE  /\ PerIndex(log, n) \in Seq(Seq(PieceType)) /\ Len(PerIndex(log, n)) = n
           /\ \A i \in 1..n : /\ PerIndex(log, n)[i] = Said(log, {i - 1})
                             /\ PerIndex(log, n)[i] \in Seq(PieceType)
<1>1. \A i \in 1..n : Said(log, {i - 1}) \in Seq(PieceType)
  BY SaidIs
<1> QED BY <1>1 DEF PerIndex

\* One event more.
LEMMA ByIndexAppend ==
    ASSUME NEW log, IsLog(log), NEW e, Fits(e), NEW n \in Nat,
           Ordered(Append(log, e)), e.kind = "message" => e.index \in 0..(n - 1),
           \A a \in DOMAIN log : log[a].kind = "message" => log[a].index \in 0..(n - 1)
    PROVE  ByIndex(Append(log, e), n) = ByIndex(log, n) \o SaidBy(e, Int)
<1> DEFINE was == PerIndex(log, n)
           now == PerIndex(Append(log, e), n)
           d == SaidBy(e, Int)
<1>1. /\ IsLog(Append(log, e)) /\ Len(log) \in Nat /\ DOMAIN log = 1..Len(log)
      /\ DOMAIN Append(log, e) = 1..(Len(log) + 1)
      /\ Append(log, e)[Len(log) + 1] = e
      /\ \A a \in DOMAIN log : Append(log, e)[a] = log[a]
  BY AppendLog
<1>2. /\ was \in Seq(Seq(PieceType)) /\ Len(was) = n
      /\ \A i \in 1..n : was[i] = Said(log, {i - 1}) /\ was[i] \in Seq(PieceType)
      /\ ByIndex(log, n) = FlattenSeq(was)
  BY ByIndexIs DEF ByIndex
<1>3. /\ now \in Seq(Seq(PieceType)) /\ Len(now) = n
      /\ \A i \in 1..n : now[i] = Said(Append(log, e), {i - 1})
      /\ ByIndex(Append(log, e), n) = FlattenSeq(now)
  BY <1>1, ByIndexIs DEF ByIndex
<1> HIDE DEF was, now
<1>4. \A i \in 1..n : now[i] = was[i] \o SaidBy(e, {i - 1})
  <2> TAKE i \in 1..n
  <2>1. Said(Append(log, e), {i - 1}) = Said(log, {i - 1}) \o SaidBy(e, {i - 1})
    BY SaidAppend
  <2> QED BY <1>2, <1>3, <2>1
<1>5. d \in Seq(PieceType)
  BY SaidAppend
<1>8. \A i \in 1..n : was[i] \o <<>> = was[i]
  BY <1>2
<1>6. CASE ~(e.kind = "message" /\ e.type = "delta")
  <2>1. d = <<>> /\ \A i \in 1..n : SaidBy(e, {i - 1}) = <<>>
    BY <1>6 DEF SaidBy
  <2> HIDE DEF d
  <2>2. \A i \in 1..n : now[i] = was[i]
    BY <1>4, <1>8, <2>1
  <2>3. now = was
    <3>1. DOMAIN now = 1..n /\ DOMAIN was = 1..n
      BY <1>2, <1>3
    <3> QED BY ONLY <1>2, <1>3, <2>2, <3>1
  <2>4. FlattenSeq(was) \in Seq(PieceType)
    BY <1>2, FlattenType
  <2>5. FlattenSeq(was) \o <<>> = FlattenSeq(was)
    BY <2>4
  <2> QED BY <1>2, <1>3, <2>1, <2>3, <2>5 DEF d
<1>7. CASE e.kind = "message" /\ e.type = "delta"
  <2> DEFINE k == e.index + 1
  <2>1. k \in 1..n /\ e.index \in Int /\ k - 1 = e.index
    BY <1>7
  <2>2. SaidBy(e, {k - 1}) = d /\ \A i \in 1..n : i # k => SaidBy(e, {i - 1}) = <<>>
    <3>1. SaidBy(e, {k - 1}) = d
      BY <2>1, Zenon DEF SaidBy
    <3>2. ASSUME NEW i \in 1..n, i # k PROVE SaidBy(e, {i - 1}) = <<>>
      <4>1. e.index \notin {i - 1}
        BY <2>1, <3>2
      <4> QED BY <4>1 DEF SaidBy
    <3> QED BY <3>1, <3>2
  <2>3. ASSUME NEW i \in 1..n, i > k PROVE was[i] = <<>>
    <3>1. ASSUME NEW a \in DOMAIN log PROVE SaidBy(log[a], {i - 1}) = <<>>
      <4>1. CASE log[a].kind = "message"
        <5>1. /\ a \in DOMAIN Append(log, e) /\ Len(log) + 1 \in DOMAIN Append(log, e)
              /\ a < Len(log) + 1
          BY <1>1
        <5>2. log[a].index <= e.index
          BY <1>1, <1>7, <4>1, <5>1 DEF Ordered
        <5>3. log[a].index \in 0..(n - 1)
          BY <4>1
        <5>4. log[a].index \notin {i - 1}
          BY <2>1, <2>3, <5>2, <5>3
        <5> QED BY <5>4 DEF SaidBy
      <4>2. CASE log[a].kind # "message"
        BY <4>2 DEF SaidBy
      <4> QED BY <4>1, <4>2
    <3> QED BY <1>2, <3>1, SaidNothing
  <2> HIDE DEF k, d
  <2>4. now[k] = was[k] \o d
    BY <1>4, <2>1, <2>2
  <2>5. \A i \in 1..n : i # k => now[i] = was[i]
    BY <1>4, <1>8, <2>2
  <2>6. FlattenSeq(now) = FlattenSeq(was) \o d
    <3>1. /\ k \in 1..Len(was) /\ Len(now) = Len(was)
          /\ \A i \in 1..Len(was) : i # k => now[i] = was[i]
          /\ \A i \in 1..Len(was) : i > k => was[i] = <<>>
      BY <1>2, <1>3, <2>1, <2>3, <2>5
    <3> QED BY ONLY <1>2, <1>3, <1>5, <2>4, <3>1, FlattenMiddle
  <2> QED BY <1>2, <1>3, <2>6 DEF d
<1> QED BY <1>6, <1>7

\* Messages that come one after the other say the same index by index as in the
\* order of the log.
LEMMA IndexesAreInOrder ==
    ASSUME NEW log, IsLog(log), NEW n \in Nat, Ordered(log),
           \A a \in DOMAIN log : log[a].kind = "message" => log[a].index \in 0..(n - 1)
    PROVE  ByIndex(log, n) = Said(log, Int)
<1> DEFINE S == {log[a] : a \in DOMAIN log}
           Good(m) == ByIndex(Upto(log, m), n) = Said(Upto(log, m), Int)
           G == {m \in Nat : m <= Len(log) => Good(m)}
<1>1. log \in Seq(S) /\ Len(log) \in Nat /\ DOMAIN log = 1..Len(log)
  BY DEF IsLog
<1>2. ASSUME NEW m \in Nat, m <= Len(log)
      PROVE  /\ IsLog(Upto(log, m)) /\ Ordered(Upto(log, m)) /\ DOMAIN Upto(log, m) = 1..m
             /\ \A a \in 1..m : Upto(log, m)[a] = log[a] /\ a \in DOMAIN log
  <2> DEFINE new == Upto(log, m)
  <2>1. new \in Seq(S) /\ Len(new) = m /\ \A a \in 1..m : new[a] = log[a]
    <3> HIDE DEF S
    <3> QED BY <1>1, <1>2, UptoIs
  <2> HIDE DEF new, S
  <2>2. DOMAIN new = 1..m /\ \A a \in 1..m : a \in DOMAIN log
    BY <1>1, <1>2, <2>1
  <2>3. new \in Seq({new[a] : a \in DOMAIN new})
    BY <2>1, <2>2
  <2>4. IsLog(new)
    BY <2>1, <2>2, <2>3 DEF IsLog
  <2>5. Ordered(new)
    BY <2>1, <2>2 DEF Ordered
  <2> QED BY <2>1, <2>2, <2>4, <2>5 DEF new
<1>3. 0 \in G
  <2>1. IsLog(Upto(log, 0)) /\ DOMAIN Upto(log, 0) = 1..0
    BY <1>1, <1>2
  <2>2. \A I : Said(Upto(log, 0), I) = <<>>
    BY <2>1, SaidNothing
  <2> DEFINE was == PerIndex(Upto(log, 0), n)
  <2>3. /\ was \in Seq(Seq(PieceType)) /\ Len(was) = n
        /\ \A i \in 1..n : was[i] = Said(Upto(log, 0), {i - 1})
        /\ ByIndex(Upto(log, 0), n) = FlattenSeq(was)
    BY <2>1, ByIndexIs DEF ByIndex
  <2> HIDE DEF was
  <2>4. FlattenSeq(was) = <<>>
    BY <2>2, <2>3, FlattenNothing
  <2> QED BY <2>2, <2>3, <2>4
<1>4. ASSUME NEW m \in Nat, m \in G PROVE m + 1 \in G
  <2> HIDE DEF Good
  <2> SUFFICES ASSUME m + 1 <= Len(log) PROVE Good(m + 1)
    OBVIOUS
  <2>1. Good(m) /\ m <= Len(log)
    BY <1>1, <1>4
  <2> DEFINE old == Upto(log, m)
             e == log[m + 1]
  <2>2. Upto(log, m + 1) = Append(old, e)
    <3> HIDE DEF S
    <3> QED BY <1>1, UptoNext
  <2>3. m + 1 \in DOMAIN log
    BY <1>1
  <2>4. IsLog(old) /\ DOMAIN old = 1..m /\ \A a \in 1..m : old[a] = log[a] /\ a \in DOMAIN log
    BY <1>2, <2>1
  <2>5. Ordered(Append(old, e))
    <3>1. Ordered(Upto(log, m + 1))
      BY <1>2
    <3> QED BY <2>2, <3>1
  <2>6. Fits(e)
    BY <2>3 DEF Fits, IsLog
  <2> HIDE DEF old
  <2>7. ByIndex(Append(old, e), n) = ByIndex(old, n) \o SaidBy(e, Int)
    <3>1. e.kind = "message" => e.index \in 0..(n - 1)
      BY <2>3
    <3>2. \A a \in DOMAIN old : old[a].kind = "message" => old[a].index \in 0..(n - 1)
      BY <2>4
    <3> HIDE DEF e
    <3> QED BY <2>4, <2>5, <2>6, <3>1, <3>2, ByIndexAppend
  <2>8. Said(Append(old, e), Int) = Said(old, Int) \o SaidBy(e, Int)
    BY <2>4, <2>6, SaidAppend
  <2> QED BY <2>1, <2>2, <2>7, <2>8 DEF Good, old
<1> HIDE DEF Good
<1>5. G = Nat
  <2> HIDE DEF G
  <2>1. G \in SUBSET Nat
    BY DEF G
  <2> QED BY <1>3, <1>4, <2>1, Inductive
<1>6. Good(Len(log))
  BY <1>1, <1>5
<1>7. Upto(log, Len(log)) = log
  <2> HIDE DEF S
  <2> QED BY <1>1, UptoIs
<1> QED BY <1>6, <1>7 DEF Good

-----------------------------------------------------------------------------
(* What is kept of a stream                                                *)

\* The item is of an index that was announced and closed, and has what the client
\* has of it; a custom call is kept in another shape.
KeptRight(item, log, n) ==
    /\ item.index \in Nat /\ item.index < n
    /\ Ended(log, item.index)
    /\ \/ \E a \in EventsAt(log, item.index) : log[a].kind = "custom_tool_call"
       \/ item.data = DeltasAt(log, item.index)

OpenNames(X, s) == {x \in Names : Owned(X, s, x)}

\* No message in the log is of a later index: the one that is open, if one is.
Top(s) == IF s.accumulated_text # <<>> THEN s.msg_output_index ELSE s.next_output_index

\* Each index is that of one item, which is kept or open, and no other item is.
EachIsKept(X, s) ==
    /\ \A j \in DOMAIN s.completed_items :
          KeptRight(s.completed_items[j], s.log, s.next_output_index)
    /\ Len(s.completed_items) + Cardinality(OpenNames(X, s)) = s.next_output_index
    /\ \A i \in Nat : i < s.next_output_index =>
          \/ \E j \in DOMAIN s.completed_items : s.completed_items[j].index = i
          \/ \E x \in OpenNames(X, s) : Hand(s, x).at = i

OpenText(X, s) == IF -1 \in X THEN <<>> ELSE s.accumulated_text

\* P is the text received so far: the client was told it, and the messages that are
\* kept and the open one hold it, in its order.
Whole(X, s, P) ==
    /\ P \in Seq(PieceType)
    /\ Relays(s.log, P) /\ Below(s.log, Top(s))
    /\ MessageText(s.completed_items) \o OpenText(X, s) = P
    /\ Contract => EachIsKept(X, s)

LEMMA NamesAreFinite ==
    ASSUME NEW X, NEW s
    PROVE  IsFiniteSet(OpenNames(X, s)) /\ Cardinality(OpenNames(X, s)) \in Nat
<1>1. SlotCount \in Nat
  BY ChatStreamAssumption
<1>2. -2 \in Int /\ SlotCount - 1 \in Int
  BY <1>1
<1>3. IsFiniteSet(Names)
  BY <1>2, FS_Interval DEF Names
<1>4. OpenNames(X, s) \subseteq Names
  BY DEF OpenNames
<1> QED BY <1>3, <1>4, FS_Subset, FS_CardinalityType

LEMMA KeptElsewhere ==
    ASSUME NEW item, NEW log, NEW n \in Nat, KeptRight(item, log, n),
           NEW new, NEW i, LogStep(log, new, i), item.index # i, NEW m \in Nat, n <= m
    PROVE  KeptRight(item, new, m)
<1>1. /\ EventsAt(new, item.index) = EventsAt(log, item.index)
      /\ \A a \in EventsAt(log, item.index) : new[a] = log[a]
      /\ DeltasAt(new, item.index) = DeltasAt(log, item.index)
  BY StepElsewhere
<1>2. Ended(new, item.index)
  BY <1>1 DEF Ended, KeptRight
<1> QED BY <1>1, <1>2 DEF KeptRight

LEMMA TextAppend ==
    ASSUME NEW kept \in Seq(AnItem), NEW item \in AnItem
    PROVE  /\ MessageText(Append(kept, item)) =
                 MessageText(kept) \o (IF item.kind = "message" THEN item.data ELSE <<>>)
           /\ MessageText(kept) \in Seq(PieceType)
<1> DEFINE text(it) == IF it.kind = "message" THEN it.data ELSE <<>>
           new == Append(kept, item)
           was == [i \in DOMAIN kept |-> text(kept[i])]
           now == [i \in DOMAIN new |-> text(new[i])]
<1>1. \A it \in AnItem : text(it) \in Seq(PieceType)
  BY DEF AnItem
<1>2. /\ Len(kept) \in Nat /\ DOMAIN kept = 1..Len(kept) /\ \A i \in 1..Len(kept) : kept[i] \in AnItem
      /\ Len(new) = Len(kept) + 1 /\ DOMAIN new = 1..(Len(kept) + 1)
      /\ new[Len(kept) + 1] = item /\ \A i \in 1..Len(kept) : new[i] = kept[i]
      /\ \A i \in 1..(Len(kept) + 1) : new[i] \in AnItem
  OBVIOUS
<1>3. MessageText(kept) = FlattenSeq(was) /\ MessageText(new) = FlattenSeq(now)
  BY Zenon DEF MessageText
<1> HIDE DEF text, new
<1>4. was \in Seq(Seq(PieceType)) /\ Len(was) = Len(kept)
  BY <1>1, <1>2
<1>5. now \in Seq(Seq(PieceType)) /\ Len(now) = Len(kept) + 1
  BY <1>1, <1>2
<1>6. \A i \in 1..Len(was) : now[i] = was[i]
  BY <1>2, <1>4
<1>7. now[Len(now)] = text(item)
  BY <1>2, <1>5
<1> HIDE DEF was, now
<1>8. FlattenSeq(now) = FlattenSeq(was) \o now[Len(now)] /\ FlattenSeq(was) \in Seq(PieceType)
  BY <1>4, <1>5, <1>6, FlattenGrows
<1> QED BY <1>3, <1>7, <1>8 DEF text, new

LEMMA TextType ==
    ASSUME NEW kept \in Seq(AnItem)
    PROVE  MessageText(kept) \in Seq(PieceType)
<1> DEFINE text(it) == IF it.kind = "message" THEN it.data ELSE <<>>
           parts == [j \in DOMAIN kept |-> text(kept[j])]
<1>1. \A it \in AnItem : text(it) \in Seq(PieceType)
  BY DEF AnItem
<1>2. MessageText(kept) = FlattenSeq(parts)
  BY Zenon DEF MessageText
<1> HIDE DEF text
<1>3. parts \in Seq(Seq(PieceType))
  <2>1. DOMAIN kept = 1..Len(kept) /\ Len(kept) \in Nat /\ \A j \in DOMAIN kept : kept[j] \in AnItem
    OBVIOUS
  <2>2. \A j \in DOMAIN kept : text(kept[j]) \in Seq(PieceType)
    BY <1>1, <2>1
  <2> QED BY <2>1, <2>2
<1> HIDE DEF parts
<1> QED BY <1>2, <1>3, FlattenType

\* An end in the log.
EndsWith(log, i, kind, data) ==
    \E a \in EventsAt(log, i) :
        log[a].type = "item_done" /\ log[a].kind = kind /\ log[a].data = data

\* The item of an accumulator is closed and kept.
LEMMA WholeCloses ==
    ASSUME NEW base, NEW X, NEW s, Sound(base, X, s), NEW P, Whole(X, s, P),
           NEW x \in Names, Owned(X, s, x), NEW i, Hand(s, x).at = i,
           NEW u \in AState, Stays(s, u), LogStep(s.log, u.log, i), ClosedAt(u.log, i),
           NEW item \in AnItem, item.index = i,
           u.completed_items = Append(s.completed_items, item),
           Relays(u.log, P), Below(u.log, Top(s)),
           IF x = -1 THEN item.kind = "message" /\ item.data = s.accumulated_text
                     ELSE item.kind # "message",
           NEW kind, NEW data, EndsWith(u.log, i, kind, data),
           kind = "custom_tool_call" \/ item.data = data
    PROVE  Whole(X \cup {x}, u, P)
<1> DEFINE Y == X \cup {x}
           kept == s.completed_items
           n == s.next_output_index
<1>1. /\ s \in AState /\ kept \in Seq(AnItem) /\ n \in Nat /\ s.accumulated_text \in Seq(PieceType)
      /\ P \in Seq(PieceType) /\ Items(X, s)
  BY DEF Sound, AState, Whole
<1>2. /\ u.accumulated_text = s.accumulated_text /\ u.next_output_index = n
      /\ \A y : Hand(u, y) = Hand(s, y)
  BY SameHand DEF Stays
<1>3. Top(u) = Top(s)
  BY DEF Top, Stays
<1>4. i \in Nat /\ i < n
  BY <1>1 DEF Items
<1>5. MessageText(u.completed_items) \o OpenText(Y, u) = P
  <2>1. /\ MessageText(u.completed_items) =
              MessageText(kept) \o (IF item.kind = "message" THEN item.data ELSE <<>>)
        /\ MessageText(kept) \in Seq(PieceType)
    BY <1>1, TextAppend
  <2>2. MessageText(kept) \o OpenText(X, s) = P
    BY DEF Whole
  <2>3. CASE x = -1
    <3>1. OpenText(X, s) = s.accumulated_text /\ OpenText(Y, u) = <<>>
      BY <2>3 DEF OpenText, Owned
    <3>2. MessageText(u.completed_items) = P
      BY <2>1, <2>2, <2>3, <3>1
    <3>3. P \o <<>> = P
      BY <1>1
    <3> QED BY <3>1, <3>2, <3>3
  <2>4. CASE x # -1
    <3>1. OpenText(Y, u) = OpenText(X, s)
      BY <1>2, <2>4 DEF OpenText
    <3>2. MessageText(u.completed_items) = MessageText(kept)
      <4>1. MessageText(kept) \o <<>> = MessageText(kept)
        BY <2>1
      <4>2. item.kind # "message"
        BY <2>4
      <4> QED BY <2>1, <4>1, <4>2
    <3> QED BY <2>2, <3>1, <3>2
  <2> QED BY <2>3, <2>4
<1>6. ASSUME Contract PROVE EachIsKept(Y, u)
  <2>1. EachIsKept(X, s)
    BY <1>6 DEF Whole
  <2>2. /\ Len(kept) \in Nat /\ DOMAIN kept = 1..Len(kept)
        /\ Len(u.completed_items) = Len(kept) + 1
        /\ DOMAIN u.completed_items = 1..(Len(kept) + 1)
        /\ u.completed_items[Len(kept) + 1] = item
        /\ \A j \in 1..Len(kept) : u.completed_items[j] = kept[j]
    BY <1>1
  <2>3. ~Ended(s.log, i)
    <3>1. OpenAt(s.log, i, Hand(s, x).kind, Hand(s, x).data)
      BY <1>1 DEF Items
    <3> QED BY <3>1, NotEnded DEF OpenAt
  <2>4. \A j \in DOMAIN kept : KeptRight(kept[j], u.log, u.next_output_index)
    <3> TAKE j \in DOMAIN kept
    <3>1. KeptRight(kept[j], s.log, n)
      BY <2>1 DEF EachIsKept
    <3>2. kept[j].index # i
      BY <2>3, <3>1 DEF KeptRight
    <3> HIDE DEF n, kept
    <3> QED BY <1>1, <1>2, <3>1, <3>2, KeptElsewhere
  <2>5. KeptRight(item, u.log, u.next_output_index)
    <3>1. PICK a \in EventsAt(u.log, i) :
             u.log[a].type = "item_done" /\ u.log[a].kind = kind /\ u.log[a].data = data
      BY DEF EndsWith
    <3>2. u.log[a].data = DeltasAt(u.log, i)
      BY <1>6, <3>1 DEF ClosedAt
    <3>3. Ended(u.log, i)
      BY DEF ClosedAt
    <3> HIDE DEF n
    <3> QED BY <1>2, <1>4, <3>1, <3>2, <3>3 DEF KeptRight
  <2>6. OpenNames(Y, u) = OpenNames(X, s) \ {x} /\ x \in OpenNames(X, s)
    BY <1>2 DEF OpenNames, Owned
  <2>7. Cardinality(OpenNames(Y, u)) = Cardinality(OpenNames(X, s)) - 1
        /\ Cardinality(OpenNames(X, s)) \in Nat
    BY <2>6, NamesAreFinite, FS_RemoveElement
  <2>8. Len(kept) + Cardinality(OpenNames(X, s)) = n
    BY <2>1 DEF EachIsKept
  <2>9. Len(u.completed_items) + Cardinality(OpenNames(Y, u)) = u.next_output_index
    <3> HIDE DEF n, kept, Y
    <3> QED BY <1>1, <1>2, <2>2, <2>7, <2>8
  <2>10. ASSUME NEW k \in Nat, k < n
         PROVE  \/ \E j \in DOMAIN u.completed_items : u.completed_items[j].index = k
                \/ \E y \in OpenNames(Y, u) : Hand(u, y).at = k
    <3>1. \/ \E j \in DOMAIN kept : kept[j].index = k
          \/ \E y \in OpenNames(X, s) : Hand(s, y).at = k
      BY <2>1, <2>10 DEF EachIsKept
    <3>2. CASE \E j \in DOMAIN kept : kept[j].index = k
      <4>1. PICK j \in DOMAIN kept : kept[j].index = k
        BY <3>2
      <4>2. j \in DOMAIN u.completed_items /\ u.completed_items[j] = kept[j]
        BY <2>2, <4>1
      <4> QED BY <4>1, <4>2
    <3>3. CASE \E y \in OpenNames(X, s) : Hand(s, y).at = k
      <4>1. PICK y \in OpenNames(X, s) : Hand(s, y).at = k
        BY <3>3
      <4>2. CASE y = x
        <5>1. Len(kept) + 1 \in DOMAIN u.completed_items
          BY <2>2
        <5> QED BY <2>2, <4>1, <4>2, <5>1
      <4>3. CASE y # x
        BY <1>2, <2>6, <4>1, <4>3
      <4> QED BY <4>2, <4>3
    <3> QED BY <3>1, <3>2, <3>3
  <2>11. \A j \in DOMAIN u.completed_items : KeptRight(u.completed_items[j], u.log, u.next_output_index)
    <3> TAKE j \in DOMAIN u.completed_items
    <3>1. j \in DOMAIN kept \/ j = Len(kept) + 1
      BY <2>2
    <3> QED BY <2>2, <2>4, <2>5, <3>1
  <2> QED BY <1>2, <2>9, <2>10, <2>11 DEF EachIsKept
<1> HIDE DEF Y
<1>7. Whole(Y, u, P)
  BY <1>1, <1>3, <1>5, <1>6 DEF Whole
<1> QED BY <1>7 DEF Y

\* What has nothing open may as well count as closed.
LEMMA WholeNotHeld ==
    ASSUME NEW X, NEW s \in AState, NEW P, Whole(X, s, P), NEW x, ~Owned(X, s, x)
    PROVE  Whole(X \cup {x}, s, P)
<1> DEFINE Y == X \cup {x}
<1>1. OpenNames(Y, s) = OpenNames(X, s)
  BY DEF OpenNames, Owned
<1>2. OpenText(Y, s) = OpenText(X, s)
  BY HandOf DEF OpenText, Owned
<1> HIDE DEF Y
<1>3. Whole(Y, s, P)
  BY <1>1, <1>2 DEF Whole, EachIsKept
<1> QED BY <1>3 DEF Y

LEMMA BelowLater ==
    ASSUME NEW log, NEW m \in Nat, Below(log, m), NEW n \in Nat, m <= n,
           \A a \in DOMAIN log : log[a].index \in Int
    PROVE  Below(log, n)
BY DEF Below

\* Only x lets go.
LEMMA WholeClears ==
    ASSUME NEW X, NEW s, NEW x, x \notin X, NEW P, Whole(X \cup {x}, s, P),
           NEW t, Lets(X, s, t, x), t.completed_items = s.completed_items,
           s.msg_output_index \in Nat, s.next_output_index \in Nat,
           \A a \in DOMAIN s.log : s.log[a].index \in Int,
           s.accumulated_text # <<>> => s.msg_output_index <= s.next_output_index,
           IF x = -1 THEN t.accumulated_text = <<>>
           ELSE /\ t.accumulated_text = s.accumulated_text
                /\ t.msg_output_index = s.msg_output_index
    PROVE  Whole(X, t, P)
<1> DEFINE Y == X \cup {x}
<1>1. t.log = s.log /\ t.next_output_index = s.next_output_index
  BY DEF Lets
<1>2. OpenNames(X, t) = OpenNames(Y, s)
      /\ \A y \in OpenNames(X, t) : Hand(t, y) = Hand(s, y)
  <2>1. ASSUME NEW y \in Names
        PROVE  /\ Owned(X, t, y) <=> Owned(Y, s, y)
               /\ Owned(X, t, y) => Hand(t, y) = Hand(s, y)
    <3>1. CASE y = x
      BY <3>1 DEF Owned, Lets
    <3>2. CASE y # x
      BY <3>2 DEF Owned, Lets
    <3> QED BY <3>1, <3>2
  <2> HIDE DEF Y
  <2> QED BY <2>1 DEF OpenNames
<1>3. OpenText(X, t) = OpenText(Y, s)
  <2>1. CASE x = -1
    BY <2>1 DEF OpenText
  <2>2. CASE x # -1
    BY <2>2 DEF OpenText
  <2> QED BY <2>1, <2>2
<1> HIDE DEF Y
<1>4. Whole(Y, s, P)
  BY DEF Y
<1>5. Below(t.log, Top(t))
  <2>1. Below(s.log, Top(s)) /\ Relays(s.log, P)
    BY <1>4 DEF Whole
  <2>2. CASE x # -1
    BY <1>1, <2>1, <2>2 DEF Top
  <2>3. CASE x = -1 /\ s.accumulated_text = <<>>
    BY <1>1, <2>1, <2>3 DEF Top
  <2>4. CASE x = -1 /\ s.accumulated_text # <<>>
    <3>1. Below(s.log, s.msg_output_index)
      BY <2>1, <2>4 DEF Top
    <3>2. Top(t) = s.next_output_index /\ s.msg_output_index <= s.next_output_index
      BY <1>1, <2>4 DEF Top
    <3> QED BY <1>1, <3>1, <3>2, BelowLater
  <2> QED BY <2>2, <2>3, <2>4
<1>6. Contract => EachIsKept(X, t)
  BY <1>1, <1>2, <1>4 DEF Whole, EachIsKept
<1> QED BY <1>1, <1>3, <1>4, <1>5, <1>6 DEF Whole

\* An item is opened, or more of it comes.
LEMMA WholeGrows ==
    ASSUME NEW base, NEW s, Sound(base, {}, s), NEW P, Whole({}, s, P),
           NEW x \in Names, NEW i, NEW t \in AState, LogStep(s.log, t.log, i),
           IF Hand(s, x).open
           THEN Hand(s, x).at = i /\ t.next_output_index = s.next_output_index
           ELSE s.next_output_index = i /\ t.next_output_index = i + 1,
           \A y \in Names : y # x => Hand(t, y) = Hand(s, y),
           Contract => Hand(t, x).open /\ Hand(t, x).at = i,
           t.completed_items = s.completed_items,
           NEW d \in Seq(PieceType), t.accumulated_text = s.accumulated_text \o d,
           Relays(t.log, P \o d), Below(t.log, Top(t))
    PROVE  Whole({}, t, P \o d)
<1> DEFINE kept == s.completed_items
           n == s.next_output_index
           m == t.next_output_index
           E == OpenNames({}, s)
           F == OpenNames({}, t)
<1>1. /\ s \in AState /\ kept \in Seq(AnItem) /\ n \in Nat /\ m \in Nat
      /\ s.accumulated_text \in Seq(PieceType) /\ P \in Seq(PieceType) /\ Items({}, s)
  BY DEF Sound, AState, Whole
<1>2. MessageText(kept) \in Seq(PieceType)
  BY <1>1, TextType
<1>3. MessageText(t.completed_items) \o OpenText({}, t) = P \o d
  <2> DEFINE a == MessageText(kept)
             b == s.accumulated_text
  <2>1. a \o b = P
    BY DEF Whole, OpenText
  <2>2. a \in Seq(PieceType) /\ b \in Seq(PieceType)
    BY <1>1, <1>2
  <2>3. MessageText(t.completed_items) = a /\ OpenText({}, t) = b \o d
    BY DEF OpenText
  <2> HIDE DEF a, b
  <2>4. d \in Seq(PieceType)
    OBVIOUS
  <2>5. (a \o b) \o d = a \o (b \o d)
    BY ONLY <2>2, <2>4, Regroup
  <2> QED BY <2>1, <2>3, <2>5
<1>4. ASSUME Contract PROVE EachIsKept({}, t)
  <2>1. EachIsKept({}, s) /\ x \in F /\ Hand(t, x).at = i
    BY <1>4 DEF Whole, OpenNames, Owned
  <2>2. \A j \in DOMAIN kept : KeptRight(kept[j], t.log, m)
    <3> TAKE j \in DOMAIN kept
    <3>1. KeptRight(kept[j], s.log, n)
      BY <2>1 DEF EachIsKept
    <3>2. kept[j].index # i
      <4>1. CASE Hand(s, x).open
        <5>1. OpenAt(s.log, i, Hand(s, x).kind, Hand(s, x).data)
          BY <1>1, <4>1 DEF Items, Owned
        <5>2. ~Ended(s.log, i)
          BY <5>1, NotEnded DEF OpenAt
        <5> QED BY <3>1, <5>2 DEF KeptRight
      <4>2. CASE ~Hand(s, x).open
        <5>1. kept[j].index \in Nat /\ kept[j].index < n /\ n = i
          BY <3>1, <4>2 DEF KeptRight
        <5> HIDE DEF n
        <5> QED BY <1>1, <5>1
      <4> QED BY <4>1, <4>2
    <3>3. n <= m
      BY <1>1
    <3> HIDE DEF n, kept, m
    <3> QED BY <1>1, <3>1, <3>2, <3>3, KeptElsewhere
  <2>3. \A y \in Names : y # x => (y \in E <=> y \in F)
    BY DEF OpenNames, Owned
  <2>4. E \subseteq Names /\ F \subseteq Names /\ (x \in E <=> Hand(s, x).open)
    BY DEF OpenNames, Owned
  <2>5. Len(kept) + Cardinality(E) = n
    BY <2>1 DEF EachIsKept
  <2>6. IsFiniteSet(E) /\ Cardinality(E) \in Nat
    BY NamesAreFinite
  <2>7. Len(kept) \in Nat
    BY <1>1
  <2>8. \A y \in E : y # x => y \in F /\ Hand(t, y) = Hand(s, y)
    BY <2>3, <2>4
  <2> HIDE DEF E, F, kept
  <2>9. Len(kept) + Cardinality(F) = m
    <3>1. CASE Hand(s, x).open
      <4>1. F = E
        <5>1. \A y \in Names : y \in E <=> y \in F
          BY <2>1, <2>3, <2>4, <3>1
        <5> QED BY <2>4, <5>1
      <4> QED BY <2>5, <3>1, <4>1
    <3>2. CASE ~Hand(s, x).open
      <4>1. F = E \cup {x} /\ x \notin E
        BY <2>1, <2>3, <2>4, <3>2
      <4>2. Cardinality(F) = Cardinality(E) + 1
        BY <2>6, <4>1, FS_AddElement
      <4>3. n = i /\ m = i + 1
        BY <3>2
      <4> HIDE DEF n, m
      <4> QED BY <1>1, <2>5, <2>6, <2>7, <4>2, <4>3
    <3> QED BY <3>1, <3>2
  <2>10. ASSUME NEW k \in Nat, k < m
         PROVE  \/ \E j \in DOMAIN kept : kept[j].index = k
                \/ \E y \in F : Hand(t, y).at = k
    <3>1. CASE k = i
      BY <2>1, <3>1
    <3>2. CASE k # i
      <4>1. k < n
        BY <1>1, <2>10, <3>2
      <4>2. \/ \E j \in DOMAIN kept : kept[j].index = k
            \/ \E y \in E : Hand(s, y).at = k
        BY <2>1, <4>1 DEF EachIsKept, kept, E
      <4>3. ASSUME NEW y \in E, Hand(s, y).at = k PROVE y \in F /\ Hand(t, y).at = k
        <5>1. y # x
          BY <2>4, <3>2, <4>3
        <5> QED BY <2>8, <4>3, <5>1
      <4> QED BY <4>2, <4>3
    <3> QED BY <3>1, <3>2
  <2> QED BY <2>2, <2>9, <2>10 DEF EachIsKept, kept, F
<1>5. P \o d \in Seq(PieceType)
  BY <1>1
<1> QED BY <1>3, <1>4, <1>5 DEF Whole

-----------------------------------------------------------------------------
(* Closing keeps                                                           *)

LEMMA LastIs ==
    ASSUME NEW z \in AState, NEW i \in Nat, NEW kind \in Kinds, NEW data \in Seq(PieceType)
    PROVE  EndsWith(Emit(z, Event("item_done", i, kind, data)).log, i, kind, data)
<1> DEFINE e == Event("item_done", i, kind, data)
           f == Num(e, z.next_sequence_number)
           new == Append(z.log, f)
<1>1. e \in Plain /\ e.type = "item_done" /\ e.index = i /\ e.kind = kind /\ e.data = data
  BY EventIs DEF Types
<1> HIDE DEF e
<1>2. Emit(z, e).log = new /\ z.next_sequence_number \in Nat /\ z.log \in Seq(AnEvent)
  BY <1>1, EmitStep DEF AState
<1>3. /\ Fits(f) /\ f.type = "item_done" /\ f.index = i /\ f.kind = kind /\ f.data = data
  BY <1>1, <1>2, NumIs
<1>4. IsLog(z.log)
  BY <1>2, LogIs
<1> HIDE DEF f
<1>5. Len(z.log) + 1 \in DOMAIN new /\ new[Len(z.log) + 1] = f
  BY <1>3, <1>4, AppendLog
<1> HIDE DEF new
<1>6. Len(z.log) + 1 \in EventsAt(new, i)
  BY <1>3, <1>5 DEF EventsAt
<1>7. EndsWith(new, i, kind, data)
  BY <1>3, <1>5, <1>6 DEF EndsWith
<1> QED BY <1>2, <1>7 DEF e

LEMMA TopIs ==
    ASSUME NEW s \in AState
    PROVE  Top(s) \in Nat /\ (s.accumulated_text # <<>> => Top(s) = s.msg_output_index)
BY DEF Top, AState

\* What the three ways to close an item have in common.
LEMMA DoneIs ==
    ASSUME NEW s \in AState, NEW P \in Seq(PieceType), Relays(s.log, P), Below(s.log, Top(s)),
           NEW i \in Nat, NEW kind \in Kinds, NEW data \in Seq(PieceType),
           kind = "message" => i = Top(s)
    PROVE  /\ LET t == DoneParts(s, i, kind, data)
              IN  Relays(t.log, P) /\ Below(t.log, Top(s)) /\ EndsWith(t.log, i, kind, data)
           /\ kind # "message" =>
                 LET t == DoneCall(s, i, kind, data)
                 IN  Relays(t.log, P) /\ Below(t.log, Top(s)) /\ EndsWith(t.log, i, kind, data)
           /\ kind # "message" =>
                 LET t == DoneCustom(s, i, kind, data)
                 IN  Relays(t.log, P) /\ Below(t.log, Top(s)) /\ EndsWith(t.log, i, kind, data)
<1> DEFINE a == Event("content_done", i, kind, data)
           b == Event("part_done", i, kind, data)
           c == Event("item_done", i, kind, data)
           d == Event("delta", i, kind, data)
           m == Top(s)
<1>1. /\ a \in Plain /\ a.kind = kind /\ a.index = i /\ a.type = "content_done"
      /\ b \in Plain /\ b.kind = kind /\ b.index = i /\ b.type = "part_done"
      /\ c \in Plain /\ c.kind = kind /\ c.index = i /\ c.type = "item_done"
      /\ d \in Plain /\ d.kind = kind /\ d.index = i /\ d.type = "delta"
  BY EventIs DEF Types
<1>2. m \in Nat
  BY TopIs
<1>3. \A z \in AState : EndsWith(Emit(z, c).log, i, kind, data)
  BY LastIs
<1>4. /\ DoneParts(s, i, kind, data) = EmitAll(s, <<a, b, c>>)
      /\ DoneCall(s, i, kind, data) = EmitAll(s, <<a, c>>)
      /\ DoneCustom(s, i, kind, data) = EmitAll(s, <<d, a, c>>)
  BY DEF DoneParts, DoneCall, DoneCustom
<1> HIDE DEF a, b, c, d, m
<1>5. /\ EmitAll(s, <<a, b, c>>) = Emit(Emit(Emit(s, a), b), c)
      /\ EmitAll(s, <<a, c>>) = Emit(Emit(s, a), c)
      /\ EmitAll(s, <<d, a, c>>) = Emit(Emit(Emit(s, d), a), c)
  BY <1>1, EmitTwo, EmitThree
<1>6. Emit(Emit(s, a), b) \in AState /\ Emit(s, a) \in AState /\ Emit(Emit(s, d), a) \in AState
  <2>1. Emit(s, a) \in AState /\ Emit(s, d) \in AState
    BY <1>1, EmitStep
  <2> QED BY <1>1, <2>1, EmitStep
<1>7. Relays(EmitAll(s, <<a, b, c>>).log, P) /\ Below(EmitAll(s, <<a, b, c>>).log, m)
  <2>1. \A e \in {a, b, c} : e.kind = "message" => e.index = m /\ e.type # "delta"
    BY <1>1 DEF m
  <2> QED BY <1>1, <1>2, <2>1, RelaysThree DEF m
<1>8. kind # "message" => Relays(EmitAll(s, <<a, c>>).log, P) /\ Below(EmitAll(s, <<a, c>>).log, m)
  <2> SUFFICES ASSUME kind # "message"
               PROVE  Relays(EmitAll(s, <<a, c>>).log, P) /\ Below(EmitAll(s, <<a, c>>).log, m)
    OBVIOUS
  <2>1. \A e \in {a, c} : e.kind = "message" => e.index = m /\ e.type # "delta"
    BY <1>1
  <2> QED BY <1>1, <1>2, <2>1, RelaysTwo DEF m
<1>9. kind # "message" => Relays(EmitAll(s, <<d, a, c>>).log, P) /\ Below(EmitAll(s, <<d, a, c>>).log, m)
  <2> SUFFICES ASSUME kind # "message"
               PROVE  Relays(EmitAll(s, <<d, a, c>>).log, P) /\ Below(EmitAll(s, <<d, a, c>>).log, m)
    OBVIOUS
  <2>1. \A e \in {d, a, c} : e.kind = "message" => e.index = m /\ e.type # "delta"
    BY <1>1
  <2> QED BY <1>1, <1>2, <2>1, RelaysThree DEF m
<1> QED BY <1>3, <1>4, <1>5, <1>6, <1>7, <1>8, <1>9 DEF m

\* The item of accumulator x goes to the items kept.
LEMMA KeepingIsWhole ==
    ASSUME NEW base, NEW X, NEW s, Sound(base, X, s), NEW P, Whole(X, s, P),
           NEW x, NEW i, NEW kind, NEW said, Has(X, s, x, i, kind, said),
           NEW t, Gone(base, s.log, t, s.next_output_index, i), Grown(s, t),
           Relays(t.log, P), Below(t.log, Top(s)),
           NEW end, NEW data, EndsWith(t.log, i, end, data),
           NEW item \in AnItem, item.index = i,
           end = "custom_tool_call" \/ item.data = data,
           IF x = -1 THEN item.kind = "message" /\ item.data = s.accumulated_text
                     ELSE item.kind # "message",
           NEW u, u = Keeping(t, Append(s.completed_items, item))
    PROVE  Whole(X \cup {x}, u, P)
<1>1. s \in AState /\ s.completed_items \in Seq(AnItem) /\ t \in AState
  BY DEF Sound, AState, Gone
<1>2. Append(s.completed_items, item) \in Seq(AnItem)
  BY <1>1, KeepsItem
<1>3. Stays(s, u)
  BY <1>2, Releases
<1>4. /\ u \in AState /\ u.log = t.log /\ u.completed_items = Append(s.completed_items, item)
  BY <1>1, <1>2 DEF Keeping, AState
<1>5. x \in Names /\ Owned(X, s, x) /\ Hand(s, x).at = i
  BY DEF Has
<1>6. LogStep(s.log, u.log, i) /\ ClosedAt(u.log, i)
  BY <1>4 DEF Gone
<1> QED BY <1>3, <1>4, <1>5, <1>6, WholeCloses

LEMMA MessageItemIs ==
    ASSUME NEW s \in AState
    PROVE  /\ MessageItem(s) \in AnItem /\ MessageItem(s).index = s.msg_output_index
           /\ MessageItem(s).kind = "message" /\ MessageItem(s).data = s.accumulated_text
           /\ "message" \in Kinds
<1> DEFINE i == s.msg_output_index
           text == s.accumulated_text
           plain == Item("message", i, -1, text)
           logprobs == IF s.has_refusal THEN <<>> ELSE s.text_logprobs
           refused == s.has_refusal
           item == MessageItem(s)
<1>1. /\ s.has_refusal \in BOOLEAN /\ s.text_logprobs \in Seq(PieceType)
      /\ <<>> \in Seq(PieceType) /\ text \in Seq(PieceType) /\ i \in Nat
  BY DEF AState
<1>2. plain \in AnItem /\ plain.kind = "message" /\ plain.index = i /\ plain.data = text
  BY <1>1 DEF Item, AnItem, Kinds
<1>3. logprobs \in Seq(PieceType) /\ refused \in BOOLEAN
  BY <1>1
<1>4. item = [plain EXCEPT !.refused = refused, !.logprobs = logprobs]
  BY DEF MessageItem
<1>5. "message" \in Kinds
  BY DEF Kinds
<1> HIDE DEF plain, logprobs, refused, item
<1>6. item \in AnItem
  BY <1>2, <1>3, <1>4 DEF AnItem
<1>7. item.kind = plain.kind /\ item.index = plain.index /\ item.data = plain.data
  BY <1>2, <1>3, <1>4 DEF AnItem
<1> QED BY <1>2, <1>5, <1>6, <1>7 DEF item

LEMMA ReasoningKept ==
    ASSUME NEW base, NEW X, NEW s, Sound(base, X, s), -2 \notin X, s.reasoning_content # <<>>,
           NEW P, Whole(X, s, P)
    PROVE  Whole(X \cup {-2}, close_reasoning_item(s), P)
<1> DEFINE i == s.reasoning_output_index
           text == s.reasoning_content
           kind == "reasoning"
           t == DoneParts(s, i, kind, text)
           item == Item(kind, i, -1, text)
<1>1. s \in AState /\ text \in Seq(PieceType) /\ s.completed_items \in Seq(AnItem) /\ i \in Nat
  BY DEF Sound, AState
<1>2. Has(X, s, -2, i, kind, text)
  BY HandOf, NamesAre DEF Owned, Has
<1>3. /\ Going(base, s.log, s, s.next_output_index, i, kind, 3, DeltasAt(s.log, i))
      /\ Contract => text = DeltasAt(s.log, i)
  BY <1>2, Holding
<1>4. /\ Gone(base, s.log, t, s.next_output_index, i)
      /\ Grown(s, t)
  <2> HIDE DEF t, i, text, kind
  <2> QED BY <1>1, <1>3, CloseParts DEF t
<1>5. kind \in Kinds /\ kind # "message" /\ item \in AnItem /\ item.index = i /\ item.kind = kind
      /\ item.data = text
  BY <1>1 DEF Item, AnItem, Kinds
<1>6. t.completed_items = s.completed_items /\ t \in AState
  BY <1>1, <1>4 DEF Grown, With, AState, Gone
<1>7. close_reasoning_item(s) = Keeping(t, Append(s.completed_items, item))
  <2>1. close_reasoning_item(s) = [t EXCEPT !.completed_items = Append(@, item)]
    BY DEF close_reasoning_item, DoneParts
  <2> HIDE DEF t, item
  <2> QED BY <1>6, <2>1 DEF Keeping
<1>8. P \in Seq(PieceType) /\ Relays(s.log, P) /\ Below(s.log, Top(s))
  BY DEF Whole
<1> HIDE DEF t, item, i, text, kind
<1>9. Relays(t.log, P) /\ Below(t.log, Top(s)) /\ EndsWith(t.log, i, kind, text)
  BY <1>1, <1>5, <1>8, DoneIs DEF t
<1>10. -2 # -1
  OBVIOUS
<1> QED BY <1>2, <1>4, <1>5, <1>7, <1>9, <1>10, KeepingIsWhole

LEMMA MessageKept ==
    ASSUME NEW base, NEW X, NEW s, Sound(base, X, s), -1 \notin X, s.accumulated_text # <<>>,
           NEW P, Whole(X, s, P)
    PROVE  Whole(X \cup {-1}, close_message_item(s), P)
<1> DEFINE i == s.msg_output_index
           text == s.accumulated_text
           kind == "message"
           t == DoneParts(s, i, kind, text)
           item == MessageItem(s)
<1>1. s \in AState /\ text \in Seq(PieceType) /\ s.completed_items \in Seq(AnItem) /\ i \in Nat
  BY DEF Sound, AState
<1>2. Has(X, s, -1, i, kind, text)
  BY HandOf, NamesAre DEF Owned, Has
<1>3. /\ Going(base, s.log, s, s.next_output_index, i, kind, 3, DeltasAt(s.log, i))
      /\ Contract => text = DeltasAt(s.log, i)
  BY <1>2, Holding
<1>4. /\ Gone(base, s.log, t, s.next_output_index, i)
      /\ Grown(s, t)
  <2> HIDE DEF t, i, text, kind
  <2> QED BY <1>1, <1>3, CloseParts DEF t
<1>5. kind \in Kinds /\ item \in AnItem /\ item.index = i /\ item.kind = kind /\ item.data = text
  BY <1>1, MessageItemIs
<1>6. t.completed_items = s.completed_items /\ t \in AState
  BY <1>1, <1>4 DEF Grown, With, AState, Gone
<1>7. close_message_item(s) = Keeping(t, Append(s.completed_items, item))
  <2>1. close_message_item(s) = [t EXCEPT !.completed_items = Append(@, item)]
    BY DEF close_message_item, DoneParts
  <2> HIDE DEF t, item
  <2> QED BY <1>6, <2>1 DEF Keeping
<1>8. P \in Seq(PieceType) /\ Relays(s.log, P) /\ Below(s.log, Top(s))
  BY DEF Whole
<1>9. i = Top(s)
  BY DEF Top
<1> HIDE DEF t, item, i, text
<1>10. Relays(t.log, P) /\ Below(t.log, Top(s)) /\ EndsWith(t.log, i, kind, text)
  <2> HIDE DEF kind
  <2> QED BY <1>1, <1>5, <1>8, <1>9, DoneIs DEF t
<1>11. item.kind = "message" /\ item.data = s.accumulated_text
  BY <1>5 DEF text
<1> HIDE DEF kind
<1> QED BY <1>2, <1>4, <1>5, <1>7, <1>10, <1>11, KeepingIsWhole

LEMMA CallKept ==
    ASSUME NEW base, NEW X, NEW s, Sound(base, X, s), NEW k \in Slots, k \notin X,
           s.tool_calls[k].id # "", NEW P, Whole(X, s, P)
    PROVE  Whole(X \cup {k}, close_tool_call_item(s, k), P)
<1> DEFINE slot == s.tool_calls[k]
           i == slot.output_index
           kind == ToolKind(slot.is_custom)
           args == slot.arguments
           input == unwrap_custom_input(args)
           said == IF slot.is_custom THEN <<>> ELSE args
           data == IF slot.is_custom THEN input ELSE args
           t == IF slot.is_custom THEN DoneCustom(s, i, kind, input)
                ELSE DoneCall(s, i, kind, args)
           item == Item("function_call", i, k, args)
<1>1. s \in AState /\ slot \in ASlot /\ s.completed_items \in Seq(AnItem)
  BY DEF Sound, AState
<1>2. args \in Seq(PieceType) /\ input \in Seq(PieceType) /\ i \in Nat /\ slot.is_custom \in BOOLEAN
  BY <1>1, UnwrapType DEF ASlot
<1>3. Has(X, s, k, i, kind, said)
  <2>1. /\ Hand(s, k).open /\ Hand(s, k).at = i /\ Hand(s, k).kind = kind
        /\ Hand(s, k).data = said
    BY SlotHand
  <2>2. k \in Names
    BY NamesAre
  <2> HIDE DEF i, kind, args, slot, said
  <2> QED BY <2>1, <2>2 DEF Owned, Has
<1>4. close_tool_call_item(s, k) = [t EXCEPT !.completed_items = Append(@, item)]
  <2>1. CASE slot.is_custom
    BY <2>1 DEF close_tool_call_item, DoneCustom, ToolKind
  <2>2. CASE ~slot.is_custom
    BY <2>2 DEF close_tool_call_item, DoneCall, ToolKind
  <2> QED BY <2>1, <2>2
<1> HIDE DEF slot
<1>5. /\ Going(base, s.log, s, s.next_output_index, i, kind, 3, DeltasAt(s.log, i))
      /\ Contract => DeltasAt(s.log, i) = said
  <2> HIDE DEF i, kind, args, said
  <2> QED BY <1>3, Holding
<1>6. kind = (IF slot.is_custom THEN "custom_tool_call" ELSE "function_call")
      /\ kind \in Kinds /\ kind # "message"
  BY DEF ToolKind, Kinds
<1>7. P \in Seq(PieceType) /\ Relays(s.log, P) /\ Below(s.log, Top(s))
  BY DEF Whole
<1>8. item \in AnItem /\ item.index = i /\ item.kind = "function_call" /\ item.data = args
  <2>1. item.index = i /\ item.kind = "function_call" /\ item.data = args
    BY DEF Item
  <2> HIDE DEF i, args, t, input, kind
  <2> QED BY <1>2, <2>1, CallItemIs
<1> HIDE DEF i, args, input, kind, item
<1>9. /\ Gone(base, s.log, t, s.next_output_index, i) /\ Grown(s, t)
      /\ Relays(t.log, P) /\ Below(t.log, Top(s)) /\ EndsWith(t.log, i, kind, data)
  <2>1. CASE slot.is_custom
    <3>1. t = DoneCustom(s, i, kind, input) /\ data = input
      BY <2>1
    <3>2. Contract => DeltasAt(s.log, i) = <<>>
      BY <1>5, <2>1
    <3> HIDE DEF t, data
    <3>3. Gone(base, s.log, t, s.next_output_index, i) /\ Grown(s, t)
      BY <1>2, <1>5, <3>1, <3>2, CloseCustom
    <3> QED BY <1>1, <1>2, <1>6, <1>7, <3>1, <3>3, DoneIs
  <2>2. CASE ~slot.is_custom
    <3>1. t = DoneCall(s, i, kind, args) /\ data = args
      BY <2>2
    <3>2. Contract => args = DeltasAt(s.log, i)
      BY <1>5, <2>2
    <3> HIDE DEF t, data
    <3>3. Gone(base, s.log, t, s.next_output_index, i) /\ Grown(s, t)
      BY <1>2, <1>5, <3>1, <3>2, CloseCall
    <3> QED BY <1>1, <1>2, <1>6, <1>7, <3>1, <3>3, DoneIs
  <2> QED BY <2>1, <2>2
<1>10. kind = "custom_tool_call" \/ item.data = data
  BY <1>6, <1>8
<1> HIDE DEF t, data, said
<1>11. t.completed_items = s.completed_items /\ t \in AState
  BY <1>1, <1>9 DEF Grown, With, AState, Gone
<1>12. close_tool_call_item(s, k) = Keeping(t, Append(s.completed_items, item))
  BY <1>4, <1>11 DEF Keeping
<1>13. k # -1 /\ item.kind # "message"
  <2>1. k # -1
    <3>1. \A j \in Slots : j # -1
      BY ONLY NamesAre
    <3> QED BY <3>1, Zenon
  <2>2. item.kind # "message"
    BY <1>8
  <2> QED BY <2>1, <2>2, Zenon
<1> QED BY <1>3, <1>8, <1>9, <1>10, <1>12, <1>13, KeepingIsWhole

LEMMA SlotsKept ==
    ASSUME NEW base, NEW X, NEW s, Sound(base, X, s), \A k \in Slots : k \notin X,
           NEW P, Whole(X, s, P)
    PROVE  Whole(X \cup Slots, CloseOpenSlots(s), P)
<1> DEFINE n == SlotCount
           Y(i) == X \cup {k \in Slots : k < i}
           R == [i \in 0..n |-> {t \in AState : Sound(base, Y(i), t) /\ Whole(Y(i), t, P)}]
<1>1. /\ n \in Nat /\ \A i \in 1..n : i - 1 \in 0..n /\ i \in 0..n /\ i - 1 \in Slots
  BY DEF Slots
<1>2. s \in R[0]
  <2>1. Y(0) = X
    BY DEF Slots
  <2>2. 0 \in 0..n
    BY <1>1
  <2> HIDE DEF Y, n
  <2> QED BY <2>1, <2>2 DEF Sound
<1>3. ASSUME NEW i \in 1..n, NEW t \in R[i - 1] PROVE CloseOpenSlot(t, i - 1) \in R[i]
  <2> DEFINE k == i - 1
             u == CloseOpenSlot(t, k)
  <2>1. k \in Slots /\ k \in 0..n /\ i \in 0..n
    BY <1>1
  <2>2. t \in AState /\ Sound(base, Y(k), t) /\ Whole(Y(k), t, P)
    <3> HIDE DEF Y, n, k
    <3>1. t \in R[k]
      BY <1>3 DEF k
    <3> QED BY <2>1, <3>1
  <2>3. Y(i) = Y(k) \cup {k} /\ k \notin Y(k)
    BY <1>1, <2>1 DEF Slots
  <2> HIDE DEF Y, k
  <2>4. Sound(base, Y(i), u) /\ Whole(Y(i), u, P)
    <3> DEFINE Z == Y(k)
    <3>0. /\ k \in Slots /\ k \notin Z /\ Sound(base, Z, t) /\ Whole(Z, t, P) /\ t \in AState
          /\ Y(i) = Z \cup {k}
      BY <2>1, <2>2, <2>3
    <3> HIDE DEF Z
    <3>1. CASE t.tool_calls[k].id = ""
      <4>1. u = t
        BY <3>1 DEF CloseOpenSlot
      <4>2. ~Owned(Z, t, k)
        BY <2>1, <3>1, SlotHand DEF Owned
      <4> QED BY <3>0, <4>1, <4>2, NotHeld, WholeNotHeld
    <3>2. CASE t.tool_calls[k].id # ""
      <4>1. u = close_tool_call_item(t, k)
        BY <3>2 DEF CloseOpenSlot
      <4>2. Sound(base, Z \cup {k}, close_tool_call_item(t, k))
        BY ONLY <3>0, <3>2, CallCloses
      <4>3. Whole(Z \cup {k}, close_tool_call_item(t, k), P)
        BY ONLY <3>0, <3>2, CallKept
      <4> QED BY <3>0, <4>1, <4>2, <4>3
    <3> QED BY <3>1, <3>2
  <2>5. u \in AState
    BY <2>4 DEF Sound
  <2> HIDE DEF u, n
  <2>6. u \in R[i]
    BY <2>1, <2>4, <2>5
  <2> QED BY <2>6 DEF u, k
<1>4. \A i \in 0..n : R[i] \subseteq AState
  <2> HIDE DEF Y, n
  <2> QED OBVIOUS
<1> HIDE DEF R
<1>5. CloseOpenSlots(s) \in R[n]
  BY <1>2, <1>3, <1>4, CloseWalk
<1>6. Y(n) = X \cup Slots
  BY DEF Slots
<1> HIDE DEF Y
<1>7. Whole(Y(n), CloseOpenSlots(s), P)
  <2> HIDE DEF n
  <2> QED BY <1>1, <1>5 DEF R
<1> QED BY <1>6, <1>7

\* The message that is open was announced.
LEMMA OpenWasAnnounced ==
    ASSUME NEW base, NEW X, NEW s, Sound(base, X, s), -1 \notin X, s.accumulated_text # <<>>
    PROVE  s.msg_output_index < s.next_output_index
<1>1. -1 \in Names /\ Owned(X, s, -1) /\ Hand(s, -1).at = s.msg_output_index
  BY NamesAre, HandOf DEF Owned
<1> QED BY <1>1 DEF Sound, Items

\* What WholeClears asks of the state that is cleared.
LEMMA ClearingIsWhole ==
    ASSUME NEW base, NEW X, NEW u, NEW x, x \notin X, Sound(base, X \cup {x}, u),
           NEW P, Whole(X \cup {x}, u, P),
           NEW t, Lets(X, u, t, x), t.completed_items = u.completed_items,
           u.accumulated_text # <<>> => u.msg_output_index <= u.next_output_index,
           IF x = -1 THEN t.accumulated_text = <<>>
           ELSE /\ t.accumulated_text = u.accumulated_text
                /\ t.msg_output_index = u.msg_output_index
    PROVE  Whole(X, t, P)
<1>1. u \in AState
  BY DEF Sound
<1>2. u.msg_output_index \in Nat /\ u.next_output_index \in Nat /\ u.log \in Seq(AnEvent)
  BY <1>1 DEF AState
<1>3. \A a \in DOMAIN u.log : u.log[a].index \in Int
  <2> TAKE a \in DOMAIN u.log
  <2>1. u.log[a] \in AnEvent
    BY <1>2
  <2> QED BY <2>1 DEF AnEvent
<1> QED BY <1>2, <1>3, WholeClears

LEMMA CallForgotten ==
    ASSUME NEW base, NEW s, Sound(base, {}, s), NEW k \in Slots, NEW P, Whole({}, s, P)
    PROVE  Whole({}, CloseAndClearSlot(s, k), P)
<1>1. CASE s.tool_calls[k].id = ""
  BY <1>1 DEF CloseAndClearSlot
<1>2. CASE s.tool_calls[k].id # ""
  <2> DEFINE u == close_tool_call_item(s, k)
             v == CloseAndClearSlot(s, k)
             slot == [u.tool_calls[k] EXCEPT !.id = "", !.arguments = <<>>]
             X == {}
  <2>1. Sound(base, X \cup {k}, u) /\ k \notin X
    <3>1. Sound(base, X, s) /\ k \notin X
      OBVIOUS
    <3> HIDE DEF X, u
    <3>2. Sound(base, X \cup {k}, close_tool_call_item(s, k))
      BY <1>2, <3>1, CallCloses
    <3> QED BY <3>1, <3>2 DEF u
  <2>0. Whole(X \cup {k}, u, P)
    <3>1. Whole(X, s, P) /\ Sound(base, X, s) /\ k \notin X
      OBVIOUS
    <3> HIDE DEF X, u
    <3>2. Whole(X \cup {k}, close_tool_call_item(s, k), P)
      BY <1>2, <3>1, CallKept
    <3> QED BY <3>2 DEF u
  <2>2. v = [u EXCEPT !.tool_calls[k].id = "", !.tool_calls[k].arguments = <<>>]
    BY <1>2 DEF CloseAndClearSlot
  <2> HIDE DEF u, v
  <2>3. u \in AState /\ u.tool_calls[k] \in ASlot /\ SlotsFit(u)
    BY <2>1 DEF Sound, AState
  <2>4. v = Slotted(u, k, slot)
    BY <2>2, <2>3 DEF Slotted, AState, ASlot
  <2>5. /\ slot \in ASlot /\ slot.id = "" /\ slot.arguments = <<>>
        /\ slot.is_custom = u.tool_calls[k].is_custom
    <3> DEFINE old == u.tool_calls[k]
    <3>1. old \in ASlot /\ <<>> \in Seq(PieceType) /\ "" \in {"", "call"}
      BY <2>3
    <3> HIDE DEF old
    <3>2. [old EXCEPT !.id = "", !.arguments = <<>>] \in ASlot
      BY <3>1 DEF ASlot
    <3>3. slot = [old EXCEPT !.id = "", !.arguments = <<>>]
      BY DEF old
    <3>4. slot.id = "" /\ slot.arguments = <<>> /\ slot.is_custom = old.is_custom
      BY <3>1, <3>3 DEF ASlot
    <3> QED BY <3>2, <3>3, <3>4 DEF old
  <2>11. /\ v.completed_items = u.completed_items /\ v.accumulated_text = u.accumulated_text
         /\ v.msg_output_index = u.msg_output_index
    BY <2>3, <2>4 DEF Slotted, AState
  <2> HIDE DEF slot
  <2>6. /\ v \in AState /\ v.log = u.log /\ v.next_sequence_number = u.next_sequence_number
        /\ v.next_output_index = u.next_output_index /\ v.has_started = u.has_started
        /\ v.tool_calls[k] = slot /\ \A j \in Slots : j # k => v.tool_calls[j] = u.tool_calls[j]
        /\ \A y \in Names : y # k => Hand(v, y) = Hand(u, y)
    <3> DEFINE w == Slotted(u, k, slot)
    <3>0. u \in AState /\ slot \in ASlot
      BY <2>3, <2>5
    <3>1. IsSlotted(u, k, slot, w)
      BY <3>0, SlottedIs
    <3>2. v = w
      BY <2>4
    <3> HIDE DEF w
    <3> QED BY <3>1, <3>2, Zenon DEF IsSlotted
  <2>7. SlotsFit(v)
    <3> SUFFICES ASSUME NEW j \in Slots
                 PROVE  /\ v.tool_calls[j].is_custom => j \in CustomSlots
                        /\ v.tool_calls[j].id # "" /\ j \in CustomSlots => v.tool_calls[j].is_custom
                        /\ Contract /\ v.tool_calls[j].id = "" => v.tool_calls[j].arguments = <<>>
      BY DEF SlotsFit
    <3>1. CASE j = k
      BY <2>3, <2>5, <2>6, <3>1 DEF SlotsFit
    <3>2. CASE j # k
      BY <2>3, <2>6, <3>2 DEF SlotsFit
    <3> QED BY <3>1, <3>2
  <2>8. ~Hand(v, k).open
    BY <2>5, <2>6, SlotHand
  <2>9. Lets(X, u, v, k)
    BY <2>6, <2>7, <2>8 DEF Lets
  <2>12. u.accumulated_text # <<>> => u.msg_output_index <= u.next_output_index
    <3>1. SUFFICES ASSUME u.accumulated_text # <<>>
                   PROVE  u.msg_output_index <= u.next_output_index
      OBVIOUS
    <3>2. -1 \notin X \cup {k}
      <4>1. \A j \in Slots : j # -1
        BY ONLY NamesAre
      <4> QED BY <4>1, Zenon
    <3>3. u.msg_output_index < u.next_output_index
      <4> DEFINE Y == X \cup {k}
      <4>1. Sound(base, Y, u) /\ -1 \notin Y
        BY <2>1, <3>2
      <4> HIDE DEF Y
      <4> QED BY <3>1, <4>1, OpenWasAnnounced
    <3>4. u.msg_output_index \in Nat /\ u.next_output_index \in Nat
      BY <2>3 DEF AState
    <3> QED BY <3>3, <3>4
  <2>13. k # -1
    <3>1. \A j \in Slots : j # -1
      BY ONLY NamesAre
    <3> QED BY <3>1, Zenon
  <2> HIDE DEF X
  <2>10. Whole(X, v, P)
    BY <2>0, <2>1, <2>9, <2>11, <2>12, <2>13, ClearingIsWhole
  <2> QED BY <2>10 DEF X, v
<1> QED BY <1>1, <1>2

LEMMA SlotsForgotten ==
    ASSUME NEW base, NEW s, Sound(base, {}, s), NEW P, Whole({}, s, P)
    PROVE  Whole({}, CloseAndClearSlots(s), P)
<1> DEFINE n == SlotCount
           D == {t \in AState : Sound(base, {}, t) /\ Whole({}, t, P)}
           R == [i \in 0..n |-> D]
<1>1. /\ n \in Nat /\ \A i \in 1..n : i - 1 \in 0..n /\ i \in 0..n /\ i - 1 \in Slots
  BY DEF Slots
<1>2. s \in D /\ D \subseteq AState /\ \A t \in D : Sound(base, {}, t) /\ Whole({}, t, P)
  BY DEF Sound
<1>3. ASSUME NEW i \in 1..n, NEW t \in D PROVE CloseAndClearSlot(t, i - 1) \in D
  <2>1. Sound(base, {}, CloseAndClearSlot(t, i - 1))
    BY <1>1, <1>2, CallClears
  <2>2. Whole({}, CloseAndClearSlot(t, i - 1), P)
    BY <1>1, <1>2, CallForgotten
  <2> QED BY <2>1, <2>2 DEF Sound
<1> HIDE DEF D
<1>4. \A i \in 0..n : R[i] = D
  OBVIOUS
<1> HIDE DEF R
<1>5. CloseAndClearSlots(s) \in R[n]
  BY <1>1, <1>2, <1>3, <1>4, ClearWalk
<1> QED BY <1>1, <1>2, <1>4, <1>5

LEMMA ReasoningForgotten ==
    ASSUME NEW base, NEW s, Sound(base, {}, s), s.reasoning_content # <<>>, NEW P, Whole({}, s, P),
           NEW t, t = [close_reasoning_item(s) EXCEPT !.reasoning_content = <<>>]
    PROVE  Whole({}, t, P)
<1> DEFINE u == close_reasoning_item(s)
           X == {}
<1>1. Sound(base, X \cup {-2}, u) /\ -2 \notin X
  BY ReasoningCloses
<1>10. Whole(X \cup {-2}, u, P)
  <2>1. Sound(base, X, s) /\ Whole(X, s, P) /\ -2 \notin X
    OBVIOUS
  <2> HIDE DEF X, u
  <2>2. Whole(X \cup {-2}, close_reasoning_item(s), P)
    BY <2>1, ReasoningKept
  <2> QED BY <2>2 DEF u
<1> HIDE DEF u
<1>2. u \in AState /\ SlotsFit(u)
  BY <1>1 DEF Sound
<1>3. <<>> \in Seq(PieceType)
  OBVIOUS
<1>4. /\ t \in AState /\ t.log = u.log /\ t.next_sequence_number = u.next_sequence_number
      /\ t.next_output_index = u.next_output_index /\ t.has_started = u.has_started
      /\ t.tool_calls = u.tool_calls /\ t.reasoning_content = <<>>
      /\ t.accumulated_text = u.accumulated_text /\ t.msg_output_index = u.msg_output_index
      /\ t.completed_items = u.completed_items
  BY <1>2, <1>3 DEF AState, u
<1>5. \A y \in Names : y # -2 => Hand(t, y) = Hand(u, y)
  BY <1>4 DEF Hand
<1>6. ~Hand(t, -2).open /\ SlotsFit(t)
  <2>1. Hand(t, -2).open = (t.reasoning_content # <<>>) /\ t.reasoning_content = <<>>
    BY <1>4, HandOf
  <2>2. t.tool_calls = u.tool_calls
    BY <1>4
  <2>3. SlotsFit(t)
    BY <1>2, <2>2, Zenon DEF SlotsFit
  <2> QED BY <2>1, <2>3, Zenon
<1>7. Lets(X, u, t, -2)
  BY <1>4, <1>5, <1>6 DEF Lets
<1>8. u.accumulated_text # <<>> => u.msg_output_index <= u.next_output_index
  <2> SUFFICES ASSUME u.accumulated_text # <<>> PROVE u.msg_output_index <= u.next_output_index
    OBVIOUS
  <2>1. -1 \notin X \cup {-2}
    OBVIOUS
  <2> HIDE DEF X
  <2>2. u.msg_output_index < u.next_output_index
    BY <1>1, <2>1, OpenWasAnnounced
  <2>3. u.msg_output_index \in Nat /\ u.next_output_index \in Nat
    BY <1>2 DEF AState
  <2> QED BY <2>2, <2>3
<1>9. -2 # -1
  OBVIOUS
<1> HIDE DEF X
<1>11. Whole(X, t, P)
  BY <1>1, <1>4, <1>7, <1>8, <1>9, <1>10, ClearingIsWhole
<1> QED BY <1>11 DEF X

LEMMA MessageForgotten ==
    ASSUME NEW base, NEW s, Sound(base, {}, s), s.accumulated_text # <<>>, NEW P, Whole({}, s, P),
           NEW t, t = [close_message_item(s) EXCEPT !.accumulated_text = <<>>, !.has_refusal = FALSE]
    PROVE  Whole({}, t, P)
<1> DEFINE u == close_message_item(s)
           X == {}
<1>1. Sound(base, X \cup {-1}, u) /\ Stays(s, u) /\ -1 \notin X
  BY MessageCloses
<1>10. Whole(X \cup {-1}, u, P)
  <2>1. Sound(base, X, s) /\ Whole(X, s, P) /\ -1 \notin X
    OBVIOUS
  <2> HIDE DEF X, u
  <2>2. Whole(X \cup {-1}, close_message_item(s), P)
    BY <2>1, MessageKept
  <2> QED BY <2>2 DEF u
<1> HIDE DEF u
<1>2. u \in AState /\ SlotsFit(u)
  BY <1>1 DEF Sound
<1>3. <<>> \in Seq(PieceType)
  OBVIOUS
<1>4. /\ t \in AState /\ t.log = u.log /\ t.next_sequence_number = u.next_sequence_number
      /\ t.next_output_index = u.next_output_index /\ t.has_started = u.has_started
      /\ t.tool_calls = u.tool_calls /\ t.accumulated_text = <<>>
      /\ t.reasoning_content = u.reasoning_content
      /\ t.reasoning_output_index = u.reasoning_output_index
      /\ t.completed_items = u.completed_items
  BY <1>2, <1>3 DEF AState, u
<1>5. \A y \in Names : y # -1 => Hand(t, y) = Hand(u, y)
  BY <1>4 DEF Hand
<1>6. ~Hand(t, -1).open /\ SlotsFit(t)
  <2>1. Hand(t, -1).open = (t.accumulated_text # <<>>) /\ t.accumulated_text = <<>>
    BY <1>4, HandOf
  <2>2. t.tool_calls = u.tool_calls
    BY <1>4
  <2>3. SlotsFit(t)
    BY <1>2, <2>2, Zenon DEF SlotsFit
  <2> QED BY <2>1, <2>3, Zenon
<1>7. Lets(X, u, t, -1)
  BY <1>4, <1>5, <1>6 DEF Lets
<1>8. u.msg_output_index <= u.next_output_index
  <2>1. Sound(base, {}, s) /\ -1 \notin {}
    OBVIOUS
  <2>2. s.msg_output_index < s.next_output_index
    BY <2>1, OpenWasAnnounced
  <2>3. s \in AState
    BY DEF Sound
  <2>4. s.msg_output_index \in Nat /\ s.next_output_index \in Nat
    BY <2>3 DEF AState
  <2> QED BY <1>1, <2>2, <2>4 DEF Stays
<1> HIDE DEF X
<1>11. Whole(X, t, P)
  BY <1>1, <1>4, <1>7, <1>8, <1>10, ClearingIsWhole
<1> QED BY <1>11 DEF X

\* Closing the items whose deltas stopped loses no text.
LEMMA TransitionsAreWhole ==
    ASSUME NEW base, NEW s, Sound(base, {}, s), NEW c, NEW P, Whole({}, s, P)
    PROVE  Whole({}, Transitions(s, c), P)
<1> DEFINE s1 == IF s.reasoning_content # <<>> /\ ~c.reasoning
                 THEN [close_reasoning_item(s) EXCEPT !.reasoning_content = <<>>]
                 ELSE s
           s2 == IF s1.accumulated_text # <<>> /\ ~HasText(c) /\ c.has_tools
                 THEN [close_message_item(s1) EXCEPT !.accumulated_text = <<>>,
                                                     !.has_refusal = FALSE]
                 ELSE s1
           s3 == IF HasText(c) THEN CloseAndClearSlots(s2) ELSE s2
<1>1. Sound(base, {}, s1) /\ Whole({}, s1, P)
  <2>1. CASE s.reasoning_content # <<>> /\ ~c.reasoning
    BY <2>1, ReasoningClears, ReasoningForgotten
  <2>2. CASE ~(s.reasoning_content # <<>> /\ ~c.reasoning)
    BY <2>2
  <2> QED BY <2>1, <2>2
<1>2. Transitions(s, c) = s3
  BY DEF Transitions
<1> HIDE DEF s1
<1>3. Sound(base, {}, s2) /\ Whole({}, s2, P)
  <2> DEFINE p == s1.accumulated_text # <<>> /\ ~HasText(c) /\ c.has_tools
  <2>1. CASE p
    BY <1>1, <2>1, MessageClears, MessageForgotten
  <2>2. CASE ~p
    BY <1>1, <2>2
  <2> QED BY <2>1, <2>2
<1> HIDE DEF s2
<1>4. Whole({}, s3, P)
  BY <1>3, SlotsForgotten
<1> QED BY <1>2, <1>4

-----------------------------------------------------------------------------
(* What comes keeps                                                        *)

\* The text grows by d, which the client is told.
LEMMA AdvanceIsWhole ==
    ASSUME NEW base, NEW s, Sound(base, {}, s), NEW P, Whole({}, s, P),
           NEW t, NEW x, Advances(base, s, t, x), t.completed_items = s.completed_items,
           NEW d \in Seq(PieceType), t.accumulated_text = s.accumulated_text \o d,
           Relays(t.log, P \o d), Below(t.log, Top(t))
    PROVE  Whole({}, t, P \o d)
<1>1. PICK i, kind, said, r : /\ Going(base, s.log, t, t.next_output_index, i, kind, r, said)
                              /\ Extends(s, t, x, i, kind, said)
  BY Zenon DEF Advances
<1>2. x \in Names /\ t \in AState
  BY <1>1 DEF Extends
<1>3. LogStep(s.log, t.log, i)
  BY <1>1 DEF Going, Life
<1>4. IF Hand(s, x).open
      THEN Hand(s, x).at = i /\ t.next_output_index = s.next_output_index
      ELSE s.next_output_index = i /\ t.next_output_index = i + 1
  BY <1>1 DEF Extends
<1>5. \A y \in Names : y # x => Hand(t, y) = Hand(s, y)
  BY <1>1 DEF Extends
<1>6. Contract => Hand(t, x).open /\ Hand(t, x).at = i
  BY <1>1 DEF Extends
<1> QED BY <1>2, <1>3, <1>4, <1>5, <1>6, WholeGrows

\* An event that says nothing of the messages changes nothing of this.
LEMMA QuietStep ==
    ASSUME NEW s \in AState, NEW P \in Seq(PieceType), Relays(s.log, P), NEW m \in Nat,
           Below(s.log, m), NEW e \in Plain, e.kind # "message"
    PROVE  Relays(Emit(s, e).log, P) /\ Below(Emit(s, e).log, m)
<1>1. SaidBy(e, Int) = <<>> /\ P \o <<>> = P
  BY DEF SaidBy
<1> QED BY <1>1, RelaysOn

\* An item that is not a message leaves Top where it is or moves it on.
LEMMA StillBelow ==
    ASSUME NEW s \in AState, NEW t \in AState, Below(t.log, Top(s)),
           t.accumulated_text = s.accumulated_text, t.msg_output_index = s.msg_output_index,
           s.next_output_index <= t.next_output_index
    PROVE  Below(t.log, Top(t))
<1>1. \A a \in DOMAIN t.log : t.log[a].index \in Int
  <2>1. t.log \in Seq(AnEvent)
    BY DEF AState
  <2> TAKE a \in DOMAIN t.log
  <2>2. t.log[a] \in AnEvent
    BY <2>1
  <2> QED BY <2>2 DEF AnEvent
<1>2. /\ s.next_output_index \in Nat /\ t.next_output_index \in Nat /\ s.msg_output_index \in Nat
  BY DEF AState
<1>3. CASE s.accumulated_text # <<>>
  BY <1>3 DEF Top
<1>4. CASE s.accumulated_text = <<>>
  <2>1. Top(s) = s.next_output_index /\ Top(t) = t.next_output_index
    BY <1>4 DEF Top
  <2> QED BY <1>1, <1>2, <2>1, BelowLater
<1> QED BY <1>3, <1>4

\* The events of an item that grows.
LEMMA GrowingEvents ==
    ASSUME NEW n \in Nat, NEW kind \in Kinds
    PROVE  /\ Event("item_added", n, kind, <<>>) \in Plain
           /\ Event("item_added", n, kind, <<>>).kind = kind
           /\ Event("item_added", n, kind, <<>>).index = n
           /\ Event("item_added", n, kind, <<>>).type # "delta"
           /\ Event("part_added", n, kind, <<>>) \in Plain
           /\ Event("part_added", n, kind, <<>>).kind = kind
           /\ Event("part_added", n, kind, <<>>).index = n
           /\ Event("part_added", n, kind, <<>>).type # "delta"
           /\ \A piece \in PieceType : LET e == Event("delta", n, kind, <<piece>>)
                                       IN  /\ e \in Plain /\ e.kind = kind /\ e.index = n
                                           /\ e.type = "delta" /\ e.data = <<piece>>
<1>1. "item_added" \in Types /\ "part_added" \in Types /\ "delta" \in Types
  BY DEF Types
<1> DEFINE none == <<>>
<1>2. none \in Seq(PieceType)
  OBVIOUS
<1> HIDE DEF none
<1>3. \A type \in Types : \A data \in Seq(PieceType) :
         /\ Event(type, n, kind, data) \in Plain /\ Event(type, n, kind, data).kind = kind
         /\ Event(type, n, kind, data).index = n /\ Event(type, n, kind, data).type = type
         /\ Event(type, n, kind, data).data = data
  BY EventIs
<1>4. ASSUME NEW piece \in PieceType
      PROVE  LET e == Event("delta", n, kind, <<piece>>)
             IN  /\ e \in Plain /\ e.kind = kind /\ e.index = n
                 /\ e.type = "delta" /\ e.data = <<piece>>
  <2> DEFINE data == <<piece>>
  <2>1. data \in Seq(PieceType)
    OBVIOUS
  <2> HIDE DEF data
  <2>2. LET e == Event("delta", n, kind, data)
        IN  /\ e \in Plain /\ e.kind = kind /\ e.index = n /\ e.type = "delta" /\ e.data = data
    BY <1>1, <1>3, <2>1
  <2> QED BY <2>2 DEF data
<1>5. /\ Event("item_added", n, kind, none) \in Plain
      /\ Event("item_added", n, kind, none).kind = kind
      /\ Event("item_added", n, kind, none).index = n
      /\ Event("item_added", n, kind, none).type = "item_added"
  BY <1>1, <1>2, <1>3
<1>6. /\ Event("part_added", n, kind, none) \in Plain
      /\ Event("part_added", n, kind, none).kind = kind
      /\ Event("part_added", n, kind, none).index = n
      /\ Event("part_added", n, kind, none).type = "part_added"
  BY <1>1, <1>2, <1>3
<1> QED BY <1>4, <1>5, <1>6 DEF none

LEMMA ReasoningIsWhole ==
    ASSUME NEW base, NEW s, Sound(base, {}, s), NEW P, Whole({}, s, P), NEW piece \in PieceType,
           NEW t, t = emit_reasoning_delta(s, piece)
    PROVE  Whole({}, t, P)
<1> DEFINE n == s.next_output_index
           kind == "reasoning"
           u == [s EXCEPT !.next_output_index = n + 1, !.reasoning_output_index = n]
           a == Event("item_added", n, kind, <<>>)
           b == Event("part_added", n, kind, <<>>)
           s1 == IF s.reasoning_content # <<>> THEN s ELSE EmitAll(u, <<a, b>>)
           s2 == [s1 EXCEPT !.reasoning_content = Append(s1.reasoning_content, piece)]
           e == Event("delta", s2.reasoning_output_index, kind, <<piece>>)
           m == Top(s)
<1>1. t = Emit(s2, e)
  BY DEF emit_reasoning_delta
<1>2. s \in AState /\ n \in Nat /\ m \in Nat
  BY TopIs DEF Sound, AState
<1>3. P \in Seq(PieceType) /\ Relays(s.log, P) /\ Below(s.log, m)
  BY DEF Whole
<1>4. /\ a \in Plain /\ a.kind = kind /\ b \in Plain /\ b.kind = kind
  <2>1. kind \in Kinds
    BY DEF Kinds
  <2> HIDE DEF kind, n
  <2> QED BY <1>2, <2>1, GrowingEvents
<1>5. /\ u \in AState /\ u.log = s.log /\ u.completed_items = s.completed_items
      /\ u.accumulated_text = s.accumulated_text /\ u.msg_output_index = s.msg_output_index
      /\ s.next_output_index <= u.next_output_index
  <2>1. n + 1 \in Nat /\ n <= n + 1
    BY <1>2
  <2> DEFINE l == n + 1
  <2> HIDE DEF n, l
  <2>2. /\ u \in AState /\ u.log = s.log /\ u.completed_items = s.completed_items
        /\ u.accumulated_text = s.accumulated_text /\ u.msg_output_index = s.msg_output_index
        /\ u.next_output_index = l
    BY <1>2, <2>1 DEF AState, l
  <2> QED BY <2>1, <2>2 DEF n, l
<1> HIDE DEF a, b, u, m, kind
<1>6. /\ s1 \in AState /\ s1.completed_items = s.completed_items
      /\ s1.accumulated_text = s.accumulated_text /\ s1.msg_output_index = s.msg_output_index
      /\ s.next_output_index <= s1.next_output_index
      /\ Relays(s1.log, P) /\ Below(s1.log, m)
  <2>1. CASE s.reasoning_content # <<>>
    BY <1>2, <1>3, <2>1
  <2>2. CASE s.reasoning_content = <<>>
    <3> DEFINE w == EmitAll(u, <<a, b>>)
    <3>1. s1 = w
      BY <2>2
    <3>2. Relays(w.log, P) /\ Below(w.log, m)
      <4>1. \A f \in {a, b} : f.kind = "message" => f.index = m /\ f.type # "delta"
        BY <1>4 DEF kind
      <4> QED BY <1>2, <1>3, <1>4, <1>5, <4>1, RelaysTwo
    <3>3. w = Emit(Emit(u, a), b) /\ Emit(u, a) \in AState /\ Grown(u, Emit(u, a))
      BY <1>4, <1>5, EmitTwo, EmitStep
    <3> HIDE DEF w
    <3>4. w \in AState /\ Grown(u, w)
      <4>1. w \in AState /\ Grown(Emit(u, a), w)
        BY <1>4, <3>3, EmitStep
      <4> QED BY <3>3, <4>1, GrownTwice
    <3>5. /\ w.completed_items = u.completed_items /\ w.next_output_index = u.next_output_index
          /\ w.accumulated_text = u.accumulated_text /\ w.msg_output_index = u.msg_output_index
      BY <1>5, <3>4, GrownIs
    <3> HIDE DEF n, s1
    <3> QED BY <1>5, <3>1, <3>2, <3>4, <3>5
  <2> QED BY <2>1, <2>2
<1> HIDE DEF s1
<1>7. /\ s2 \in AState /\ s2.log = s1.log /\ s2.completed_items = s.completed_items
      /\ s2.accumulated_text = s.accumulated_text /\ s2.msg_output_index = s.msg_output_index
      /\ s.next_output_index <= s2.next_output_index /\ s2.reasoning_output_index \in Nat
  <2>1. Append(s1.reasoning_content, piece) \in Seq(PieceType)
    BY <1>6 DEF AState
  <2> HIDE DEF n
  <2> QED BY <1>6, <2>1 DEF AState
<1> HIDE DEF s2
<1>8. e \in Plain /\ e.kind # "message"
  <2>1. kind \in Kinds /\ kind # "message"
    BY DEF Kinds, kind
  <2> QED BY <1>7, <2>1, GrowingEvents
<1> HIDE DEF e
<1>9. Relays(t.log, P) /\ Below(t.log, m)
  BY <1>1, <1>2, <1>3, <1>6, <1>7, <1>8, QuietStep
<1>10. t \in AState /\ Grown(s2, t)
  BY <1>1, <1>7, <1>8, EmitStep
<1>11. /\ t.completed_items = s.completed_items /\ t.accumulated_text = s.accumulated_text
       /\ t.msg_output_index = s.msg_output_index /\ s.next_output_index <= t.next_output_index
  BY <1>7, <1>10, GrownIs
<1>12. Below(t.log, Top(t))
  BY <1>2, <1>9, <1>10, <1>11, StillBelow DEF m
<1>13. Advances(base, s, t, -2)
  BY ReasoningGrows
<1>14. <<>> \in Seq(PieceType) /\ P \o <<>> = P /\ s.accumulated_text \o <<>> = s.accumulated_text
  <2>1. s.accumulated_text \in Seq(PieceType)
    BY <1>2 DEF AState
  <2> QED BY <1>3, <2>1
<1> DEFINE d == <<>>
<1>15. d \in Seq(PieceType) /\ P \o d = P /\ t.accumulated_text = s.accumulated_text \o d
  BY <1>11, <1>14
<1> HIDE DEF d
<1>16. Relays(t.log, P \o d)
  BY <1>9, <1>15
<1>17. Whole({}, t, P \o d)
  BY <1>11, <1>12, <1>13, <1>15, <1>16, AdvanceIsWhole
<1> QED BY <1>15, <1>17

\* A piece of text or of refusal is one more at the end.
LEMMA MessageIsWhole ==
    ASSUME NEW base, NEW s, Sound(base, {}, s), NEW P, Whole({}, s, P), NEW piece \in PieceType,
           NEW refused, NEW t, Added(s, piece, refused, t)
    PROVE  Whole({}, t, P \o <<piece>>)
<1> DEFINE n == s.next_output_index
           kind == "message"
           u == [s EXCEPT !.next_output_index = n + 1, !.msg_output_index = n]
           a == Event("item_added", n, kind, <<>>)
           b == Event("part_added", n, kind, <<>>)
           s1 == IF s.accumulated_text # <<>> THEN s ELSE EmitAll(u, <<a, b>>)
           text == Append(s1.accumulated_text, piece)
           s2 == [s1 EXCEPT !.accumulated_text = text, !.has_refusal = refused]
           m == s1.msg_output_index
           e == Event("delta", m, kind, <<piece>>)
           d == <<piece>>
<1>1. s \in AState /\ n \in Nat
  BY DEF Sound, AState
<1>2. P \in Seq(PieceType) /\ Relays(s.log, P) /\ Below(s.log, Top(s))
  BY DEF Whole
<1>3. kind \in Kinds
  BY DEF Kinds
<1>4. /\ a \in Plain /\ a.kind = kind /\ a.index = n /\ a.type # "delta"
      /\ b \in Plain /\ b.kind = kind /\ b.index = n /\ b.type # "delta"
  <2> HIDE DEF kind, n
  <2> QED BY <1>1, <1>3, GrowingEvents
<1>5. refused \in BOOLEAN
  BY DEF Added
<1>6. s1 = OpenMessage(s) /\ s2 = Addition(s, piece, refused)
  BY DEF OpenMessage, Addition
<1>7. /\ u \in AState /\ u.log = s.log /\ u.completed_items = s.completed_items
      /\ u.accumulated_text = s.accumulated_text /\ u.msg_output_index = n
  <2>1. n + 1 \in Nat
    BY <1>1
  <2> DEFINE l == n + 1
  <2> HIDE DEF n, l
  <2> QED BY <1>1, <2>1 DEF AState, l
<1> HIDE DEF a, b, u, kind
<1>8. /\ s1 \in AState /\ s1.completed_items = s.completed_items
      /\ s1.accumulated_text = s.accumulated_text
      /\ Relays(s1.log, P) /\ Below(s1.log, s1.msg_output_index)
  <2>1. CASE s.accumulated_text # <<>>
    BY <1>1, <1>2, <2>1 DEF Top
  <2>2. CASE s.accumulated_text = <<>>
    <3> DEFINE w == EmitAll(u, <<a, b>>)
    <3>1. s1 = w
      BY <2>2
    <3>2. Relays(w.log, P) /\ Below(w.log, n)
      <4>1. \A f \in {a, b} : f.kind = "message" => f.index = n /\ f.type # "delta"
        BY <1>4
      <4>2. Below(u.log, n) /\ n \in Nat
        BY <1>1, <1>2, <1>7, <2>2 DEF Top
      <4> QED BY <1>2, <1>4, <1>7, <4>1, <4>2, RelaysTwo
    <3>3. w = Emit(Emit(u, a), b) /\ Emit(u, a) \in AState /\ Grown(u, Emit(u, a))
      BY <1>4, <1>7, EmitTwo, EmitStep
    <3> HIDE DEF w
    <3>4. w \in AState /\ Grown(u, w)
      <4>1. w \in AState /\ Grown(Emit(u, a), w)
        BY <1>4, <3>3, EmitStep
      <4> QED BY <3>3, <4>1, GrownTwice
    <3>5. /\ w.completed_items = u.completed_items
          /\ w.accumulated_text = u.accumulated_text /\ w.msg_output_index = u.msg_output_index
      BY <1>7, <3>4, GrownIs
    <3> HIDE DEF n, s1
    <3> QED BY <1>7, <3>1, <3>2, <3>4, <3>5
  <2> QED BY <2>1, <2>2
<1> HIDE DEF s1
<1>9. text \in Seq(PieceType) /\ text # <<>> /\ text = s.accumulated_text \o d /\ d \in Seq(PieceType)
  <2>1. s1.accumulated_text \in Seq(PieceType)
    BY <1>8 DEF AState
  <2> QED BY <1>8, <2>1
<1> HIDE DEF text, d
<1>10. /\ s2 \in AState /\ s2.log = s1.log /\ s2.completed_items = s.completed_items
       /\ s2.accumulated_text = text /\ s2.msg_output_index = m /\ m \in Nat
  BY <1>5, <1>8, <1>9 DEF AState
<1> HIDE DEF s2, m
<1>11. t = Emit(s2, e)
  BY <1>6, <1>10 DEF Added, kind
<1>12. e \in Plain /\ e.kind = "message" /\ e.index = m /\ e.type = "delta" /\ e.data = d
  <2>1. e \in Plain /\ e.kind = kind /\ e.index = m /\ e.type = "delta" /\ e.data = d
    <3>1. m \in Nat /\ kind \in Kinds /\ piece \in PieceType
      BY <1>3, <1>10 DEF kind
    <3> QED BY ONLY <3>1, GrowingEvents DEF d, e
  <2> QED BY <2>1 DEF kind
<1>13. SaidBy(e, Int) = d
  BY <1>10, <1>12 DEF SaidBy
<1> HIDE DEF e
<1>14. m \in Nat /\ Relays(s2.log, P) /\ Below(s2.log, m)
  BY <1>8, <1>10 DEF m
<1>15. Relays(t.log, P \o d) /\ Below(t.log, m)
  BY <1>10, <1>11, <1>12, <1>13, <1>14, RelaysOn
<1>16. t \in AState /\ Grown(s2, t)
  BY <1>10, <1>11, <1>12, EmitStep
<1>17. /\ t.completed_items = s.completed_items /\ t.accumulated_text = text
       /\ t.msg_output_index = m
  BY <1>10, <1>16, GrownIs
<1>18. Below(t.log, Top(t))
  BY <1>9, <1>15, <1>17 DEF Top
<1>19. Advances(base, s, t, -1)
  <2>1. \E r : Added(s, piece, r, t)
    OBVIOUS
  <2> QED BY <2>1, TextGrows
<1>20. Whole({}, t, P \o d)
  BY <1>9, <1>15, <1>17, <1>18, <1>19, AdvanceIsWhole
<1> QED BY <1>20 DEF d

\* One delta of a call.
LEMMA CallIsWhole ==
    ASSUME NEW base, NEW s, Sound(base, {}, s), NEW P, Whole({}, s, P), NEW tc \in ToolDelta,
           NEW piece, tc.args # "none" => piece \in PieceType, Follows(s, tc)
    PROVE  Whole({}, emit_tool_call_delta(s, tc, piece), P)
<1> DEFINE t == emit_tool_call_delta(s, tc, piece)
           k == tc.index
           old == s.tool_calls[k]
           new == NewSlot(s, tc, piece)
           u == Placed(s, k, new)
           v == PlacedAndTold(s, k, new)
           at == new.output_index
           kind == ToolKind(new.is_custom)
           a == Event("item_added", at, kind, <<>>)
           e == Event("delta", at, "function_call", <<piece>>)
           m == Top(s)
           n == s.next_output_index
           next == IF old.id = "" THEN n + 1 ELSE n
           tools == [s.tool_calls EXCEPT ![k] = new]
<1>1. s \in AState /\ SlotsFit(s) /\ n \in Nat /\ m \in Nat /\ s.tool_calls \in [Slots -> ASlot]
  BY TopIs DEF Sound, AState
<1>2. k \in Slots /\ new \in ASlot
  BY <1>1, NewSlotIs DEF ToolDelta
<1>3. P \in Seq(PieceType) /\ Relays(s.log, P) /\ Below(s.log, m)
  BY DEF Whole
<1>4. t = IF ~new.is_custom /\ tc.args # "none" THEN Emit(v, e) ELSE v
  BY DeltaIs
<1>5. at \in Nat /\ kind \in Kinds /\ kind # "message"
  <2>1. at \in Nat
    <3> HIDE DEF new
    <3> QED BY <1>2 DEF ASlot
  <2> QED BY <2>1 DEF ToolKind, Kinds
<1>6. a \in Plain /\ a.kind # "message"
  <2> HIDE DEF at, kind
  <2> QED BY <1>5, GrowingEvents
<1>7. tc.args # "none" => e \in Plain /\ e.kind # "message"
  <2> SUFFICES ASSUME tc.args # "none" PROVE e \in Plain /\ e.kind # "message"
    OBVIOUS
  <2> DEFINE call == "function_call"
  <2>1. call \in Kinds /\ call # "message" /\ piece \in PieceType
    BY DEF Kinds
  <2> HIDE DEF at, call, e
  <2> QED BY <1>5, <2>1, GrowingEvents DEF e, call
<1>8. u = [s EXCEPT !.tool_calls = tools, !.next_output_index = next]
  BY DEF Placed
<1>9. tools \in [Slots -> ASlot] /\ next \in Nat /\ n <= next
  <2> HIDE DEF new, old
  <2>1. tools \in [Slots -> ASlot]
    BY <1>1, <1>2
  <2>2. n \in Nat /\ n + 1 \in Nat /\ n <= n + 1 /\ n <= n
    BY <1>1
  <2> HIDE DEF tools, n, next
  <2>3. next = n \/ next = n + 1
    BY DEF next
  <2> QED BY <2>1, <2>2, <2>3
<1> HIDE DEF u, tools, next, at, kind, a, e, m, new
<1>10. /\ u \in AState /\ u.log = s.log /\ u.completed_items = s.completed_items
       /\ u.accumulated_text = s.accumulated_text /\ u.msg_output_index = s.msg_output_index
       /\ u.next_output_index = next
  BY <1>1, <1>8, <1>9 DEF AState
<1>11. /\ v \in AState /\ Relays(v.log, P) /\ Below(v.log, m)
       /\ v.completed_items = u.completed_items /\ v.next_output_index = u.next_output_index
       /\ v.accumulated_text = u.accumulated_text /\ v.msg_output_index = u.msg_output_index
  <2>1. CASE old.id = ""
    <3>1. v = Emit(u, a)
      BY <2>1 DEF PlacedAndTold, u, a, at, kind
    <3> HIDE DEF v
    <3>2. v \in AState /\ Grown(u, v)
      BY <1>6, <1>10, <3>1, EmitStep
    <3>3. Relays(v.log, P) /\ Below(v.log, m)
      BY <1>1, <1>3, <1>6, <1>10, <3>1, QuietStep
    <3> QED BY <1>10, <3>2, <3>3, GrownIs
  <2>2. CASE old.id # ""
    <3>1. v = u
      BY <2>2 DEF PlacedAndTold, u
    <3> QED BY <1>3, <1>10, <3>1
  <2> QED BY <2>1, <2>2
<1> HIDE DEF v, t
<1>12. /\ t \in AState /\ Relays(t.log, P) /\ Below(t.log, m)
       /\ t.completed_items = u.completed_items /\ t.next_output_index = u.next_output_index
       /\ t.accumulated_text = u.accumulated_text /\ t.msg_output_index = u.msg_output_index
  <2>1. CASE ~new.is_custom /\ tc.args # "none"
    <3>1. t = Emit(v, e) /\ e \in Plain /\ e.kind # "message"
      BY <1>4, <1>7, <2>1
    <3>2. t \in AState /\ Grown(v, t)
      BY <1>11, <3>1, EmitStep
    <3>3. Relays(t.log, P) /\ Below(t.log, m)
      BY <1>1, <1>3, <1>11, <3>1, QuietStep
    <3> QED BY <1>11, <3>2, <3>3, GrownIs
  <2>2. CASE ~(~new.is_custom /\ tc.args # "none")
    <3>1. t = v
      BY <1>4, <2>2
    <3> QED BY <1>11, <3>1
  <2> QED BY <2>1, <2>2
<1>13. Below(t.log, Top(t))
  BY <1>1, <1>9, <1>10, <1>12, StillBelow DEF m
<1>14. Advances(base, s, t, k)
  BY CallGrows DEF t
<1> DEFINE d == <<>>
<1>15. d \in Seq(PieceType) /\ P \o d = P /\ t.accumulated_text = s.accumulated_text \o d
  <2>1. s.accumulated_text \in Seq(PieceType)
    BY <1>1 DEF AState
  <2>2. s.accumulated_text \o <<>> = s.accumulated_text
    BY <2>1
  <2> QED BY <1>3, <1>10, <1>12, <2>2
<1> HIDE DEF d, k, n
<1>16. Relays(t.log, P \o d) /\ t.completed_items = s.completed_items
  BY <1>10, <1>12, <1>15
<1>17. Whole({}, t, P \o d)
  BY <1>13, <1>14, <1>15, <1>16, AdvanceIsWhole
<1> QED BY <1>15, <1>17 DEF t

LEMMA CallsAreWhole ==
    ASSUME NEW base, NEW s, Sound(base, {}, s), NEW T, Whole({}, s, T),
           NEW tools \in Seq(ToolDelta), ToolsFollow(s, tools), NEW m \in 1..MaxChunks
    PROVE  Whole({}, emit_tool_call_deltas(s, tools, m), T)
<1> DEFINE n == Len(tools)
           step(t, i) == emit_tool_call_delta(t, tools[i], ArgsPiece(m, tools, i))
           P == [i \in 0..n |-> {t \in AState : AfterTools(base, s, tools, i, t) /\ Whole({}, t, T)}]
<1>1. n \in Nat /\ \A i \in 1..n : i - 1 \in 0..n /\ i \in 0..n
  OBVIOUS
<1>2. s \in P[0]
  <2>1. AfterTools(base, s, tools, 0, s) /\ s \in AState
    <3>1. s \in AState
      BY DEF Sound
    <3>2. \A j \in 1..0 : FALSE
      OBVIOUS
    <3> QED BY <3>1, <3>2 DEF AfterTools
  <2>2. 0 \in 0..n
    BY <1>1
  <2> HIDE DEF n
  <2> QED BY <2>1, <2>2
<1>3. ASSUME NEW i \in 1..n, NEW t \in P[i - 1] PROVE step(t, i) \in P[i]
  <2>1. i \in 0..n /\ i - 1 \in 0..n
    BY <1>1
  <2>2. AfterTools(base, s, tools, i - 1, t) /\ Whole({}, t, T)
    <3> DEFINE j == i - 1
    <3>1. j \in 0..n /\ t \in P[j]
      BY <1>3, <2>1
    <3> HIDE DEF n, j
    <3>2. AfterTools(base, s, tools, j, t) /\ Whole({}, t, T)
      BY <3>1
    <3> QED BY <3>2 DEF j
  <2>3. AfterTools(base, s, tools, i, step(t, i))
    BY <2>2, ToolStep
  <2>4. step(t, i) \in AState
    BY <2>3 DEF AfterTools, Sound
  <2>5. Whole({}, step(t, i), T)
    <3> DEFINE tc == tools[i]
               piece == ArgsPiece(m, tools, i)
    <3>1. tc \in ToolDelta /\ i \in Nat
      BY <1>1
    <3>2. tc.args # "none" => piece \in PieceType
      <4>1. tc.args \in {"none", "part", "end"}
        BY <3>1 DEF ToolDelta
      <4> QED BY <3>1, <4>1 DEF ArgsPiece, Piece, PieceType
    <3>3. Sound(base, {}, t) /\ Follows(t, tc)
      BY <2>2, ToolFollows
    <3> HIDE DEF tc, piece, P
    <3>4. Whole({}, emit_tool_call_delta(t, tc, piece), T)
      BY <2>2, <3>1, <3>2, <3>3, CallIsWhole
    <3> QED BY <3>4 DEF tc, piece
  <2> HIDE DEF n, step
  <2> QED BY <2>1, <2>3, <2>4, <2>5
<1>4. \A i \in 0..n : P[i] \subseteq AState
  OBVIOUS
<1> HIDE DEF P
<1>5. emit_tool_call_deltas(s, tools, m) \in P[n]
  BY <1>2, <1>3, <1>4, DeltaWalk
<1> HIDE DEF n
<1>6. Whole({}, emit_tool_call_deltas(s, tools, m), T)
  BY <1>1, <1>5 DEF P
<1> QED BY <1>6

LEMMA NotedIsWhole ==
    ASSUME NEW s, NEW P, Whole({}, s, P), NEW t, Noted(s, t)
    PROVE  Whole({}, t, P)
<1> DEFINE X == {}
<1>1. /\ t.log = s.log /\ t.next_output_index = s.next_output_index
      /\ t.accumulated_text = s.accumulated_text /\ t.msg_output_index = s.msg_output_index
      /\ t.completed_items = s.completed_items
  BY DEF Noted, SameLog
<1>2. \A x : Hand(t, x) = Hand(s, x)
  <2>1. /\ t.reasoning_content = s.reasoning_content
        /\ t.reasoning_output_index = s.reasoning_output_index
        /\ t.tool_calls = s.tool_calls
    BY DEF Noted, SameTools
  <2> QED BY <1>1, <2>1, SameHand
<1> HIDE DEF X
<1>3. OpenNames(X, t) = OpenNames(X, s)
  BY <1>2 DEF OpenNames, Owned
<1>4. Top(t) = Top(s) /\ OpenText(X, t) = OpenText(X, s)
  BY <1>1 DEF Top, OpenText
<1>5. Whole(X, s, P)
  BY DEF X
<1>6. Contract => EachIsKept(X, t)
  <2> SUFFICES ASSUME Contract PROVE EachIsKept(X, t)
    OBVIOUS
  <2>1. EachIsKept(X, s)
    BY <1>5 DEF Whole
  <2> QED BY <1>1, <1>2, <1>3, <2>1 DEF EachIsKept
<1>7. Whole(X, t, P)
  BY <1>1, <1>4, <1>5, <1>6 DEF Whole
<1> QED BY <1>7 DEF X

\* What a chunk adds to the text: its content, then its refusal.
TextOf(c, n) == IF c.text THEN <<Piece(n, "text", 0)>> ELSE <<>>

RefusalOf(c, n) == IF c.refusal THEN <<Piece(n, "refusal", 0)>> ELSE <<>>

LEMMA DeltasAreWhole ==
    ASSUME NEW base, NEW s, Sound(base, {}, s), NEW P, Whole({}, s, P),
           NEW c \in Chunk, NEW n \in 1..MaxChunks, ToolsFollow(s, c.tools)
    PROVE  Whole({}, Deltas(s, c, n), (P \o TextOf(c, n)) \o RefusalOf(c, n))
<1> DEFINE s1 == IF c.reasoning THEN emit_reasoning_delta(s, Piece(n, "reasoning", 0)) ELSE s
           s2 == IF c.text THEN emit_text_delta(s1, Piece(n, "text", 0)) ELSE s1
           s3 == IF c.refusal THEN emit_refusal_delta(s2, Piece(n, "refusal", 0)) ELSE s2
           t == IF c.has_tools THEN emit_tool_call_deltas(s3, c.tools, n) ELSE s3
           Q == P \o TextOf(c, n)
           R == Q \o RefusalOf(c, n)
<1>1. /\ Piece(n, "reasoning", 0) \in PieceType /\ Piece(n, "text", 0) \in PieceType
      /\ Piece(n, "refusal", 0) \in PieceType
  BY DEF Piece, PieceType
<1>2. Deltas(s, c, n) = t
  BY DEF Deltas
<1>3. Sound(base, {}, s1) /\ SameTools(s, s1) /\ Whole({}, s1, P)
  <2>1. CASE c.reasoning
    <3>1. s1 = emit_reasoning_delta(s, Piece(n, "reasoning", 0))
      BY <2>1
    <3> QED BY <1>1, <3>1, ReasoningGrows, ReasoningIsWhole
  <2>2. CASE ~c.reasoning
    BY <2>2 DEF SameTools
  <2> QED BY <2>1, <2>2
<1> HIDE DEF s1
<1>4. Sound(base, {}, s2) /\ SameTools(s1, s2) /\ Whole({}, s2, Q)
  <2>0. P \in Seq(PieceType)
    BY DEF Whole
  <2>1. CASE c.text
    <3> DEFINE piece == Piece(n, "text", 0)
    <3>1. s2 = emit_text_delta(s1, piece) /\ Q = P \o <<piece>> /\ piece \in PieceType
      BY <1>1, <2>1 DEF TextOf
    <3> HIDE DEF piece, s2, Q
    <3>2. PICK refused : Added(s1, piece, refused, s2)
      BY <1>3, <3>1, TextAdds
    <3> QED BY <1>3, <3>1, <3>2, TextGrows, MessageIsWhole
  <2>2. CASE ~c.text
    <3>1. s2 = s1 /\ Q = P \o <<>> /\ P \o <<>> = P
      BY <2>0, <2>2 DEF TextOf
    <3> QED BY <1>3, <3>1 DEF SameTools
  <2> QED BY <2>1, <2>2
<1> HIDE DEF s2, Q
<1>5. Sound(base, {}, s3) /\ SameTools(s2, s3) /\ Whole({}, s3, R)
  <2>0. Q \in Seq(PieceType)
    BY <1>4 DEF Whole
  <2>1. CASE c.refusal
    <3> DEFINE piece == Piece(n, "refusal", 0)
    <3>1. s3 = emit_refusal_delta(s2, piece) /\ R = Q \o <<piece>> /\ piece \in PieceType
      BY <1>1, <2>1 DEF RefusalOf
    <3> HIDE DEF piece, s3, R
    <3>2. Added(s2, piece, TRUE, s3)
      BY <3>1, RefusalAdds
    <3> QED BY <1>4, <3>1, <3>2, TextGrows, MessageIsWhole
  <2>2. CASE ~c.refusal
    <3>1. s3 = s2 /\ R = Q \o <<>> /\ Q \o <<>> = Q
      BY <2>0, <2>2 DEF RefusalOf
    <3> QED BY <1>4, <3>1 DEF SameTools
  <2> QED BY <2>1, <2>2
<1> HIDE DEF s3, R
<1>6. s3.tool_calls = s.tool_calls
  BY <1>3, <1>4, <1>5 DEF SameTools
<1>7. c.tools \in Seq(ToolDelta)
  BY DEF Chunk, Fields
<1>8. Whole({}, t, R)
  <2>1. CASE c.has_tools
    <3> DEFINE tools == c.tools
    <3>1. ToolsFollow(s3, tools)
      BY <1>6 DEF ToolsFollow
    <3>2. tools \in Seq(ToolDelta)
      BY <1>7
    <3> HIDE DEF tools
    <3>3. Whole({}, emit_tool_call_deltas(s3, tools, n), R)
      BY <1>5, <3>1, <3>2, CallsAreWhole
    <3> QED BY <2>1, <3>3 DEF tools
  <2>2. CASE ~c.has_tools
    BY <1>5, <2>2
  <2> QED BY <2>1, <2>2
<1> HIDE DEF t
<1> QED BY <1>2, <1>8 DEF R, Q

\* What a chunk adds to the text.
ChunkText(c, n) == IF c.choices THEN TextOf(c, n) \o RefusalOf(c, n) ELSE <<>>

LEMMA TextsAre ==
    ASSUME NEW c, NEW n \in 1..MaxChunks
    PROVE  /\ TextOf(c, n) \in Seq(PieceType) /\ RefusalOf(c, n) \in Seq(PieceType)
           /\ ChunkText(c, n) \in Seq(PieceType)
<1>1. Piece(n, "text", 0) \in PieceType /\ Piece(n, "refusal", 0) \in PieceType
  BY DEF Piece, PieceType
<1>2. TextOf(c, n) \in Seq(PieceType)
  BY <1>1 DEF TextOf
<1>3. RefusalOf(c, n) \in Seq(PieceType)
  BY <1>1 DEF RefusalOf
<1> QED BY <1>2, <1>3 DEF ChunkText

LEMMA ChunkIsWhole ==
    ASSUME NEW base, NEW s, Sound(base, {}, s), NEW P, Whole({}, s, P),
           NEW c \in Chunk, NEW n \in 1..MaxChunks, ChunkFollows(s, c)
    PROVE  Whole({}, process_chunk_value(s, c, n), P \o ChunkText(c, n))
<1> DEFINE t == process_chunk_value(s, c, n)
<1>1. s \in AState /\ s.has_started /\ P \in Seq(PieceType)
  BY DEF Sound, Whole
<1>2. CASE ~c.choices
  <2>1. t = [s EXCEPT !.usage = @ \/ c.usage]
    BY <1>2 DEF process_chunk_value
  <2> HIDE DEF t
  <2>2. Whole({}, t, P)
    BY <1>1, <2>1, UsageNoted, NotedIsWhole
  <2>3. P \o ChunkText(c, n) = P
    <3>1. ChunkText(c, n) = <<>> /\ P \o <<>> = P
      BY <1>1, <1>2 DEF ChunkText
    <3> QED BY <3>1
  <2> QED BY <2>2, <2>3 DEF t
<1>3. CASE c.choices
  <2> DEFINE s1 == [s EXCEPT !.usage = @ \/ c.usage,
                             !.finish_reason = IF c.finish = "none" THEN @ ELSE c.finish]
             s2 == Transitions(s1, c)
             s3 == TakeLogprobs(s2, c, n)
             s4 == Deltas(s3, c, n)
  <2>1. t = LifecycleStart(s, s4, c)
    BY <1>3 DEF process_chunk_value
  <2>2. Sound(base, {}, s1) /\ SameTools(s, s1) /\ Whole({}, s1, P)
    <3> HIDE DEF s1
    <3>1. Noted(s, s1)
      BY <1>1, FinishNoted DEF s1
    <3> QED BY <3>1, Notes, NotedIsWhole
  <2> HIDE DEF s1
  <2>3. Sound(base, {}, s2) /\ (~HasText(c) => SameTools(s1, s2)) /\ Whole({}, s2, P)
    BY <2>2, TransitionsKeep, TransitionsAreWhole
  <2> HIDE DEF s2
  <2>4. Sound(base, {}, s3) /\ SameTools(s2, s3) /\ Whole({}, s3, P)
    <3>1. s2 \in AState
      BY <2>3 DEF Sound
    <3>2. Noted(s2, s3)
      BY <3>1, LogprobsNoted
    <3> HIDE DEF s3
    <3> QED BY <2>3, <3>2, Notes, NotedIsWhole
  <2> HIDE DEF s3
  <2>5. ~HasText(c) => s3.tool_calls = s.tool_calls
    BY <2>2, <2>3, <2>4 DEF SameTools
  <2>6. ToolsFollow(s3, c.tools)
    BY <2>5 DEF ToolsFollow, ChunkFollows
  <2>7. Whole({}, s4, (P \o TextOf(c, n)) \o RefusalOf(c, n)) /\ Sound(base, {}, s4)
    BY <2>4, <2>6, DeltasKeep, DeltasAreWhole
  <2> HIDE DEF s4
  <2>8. t = s4
    BY <2>1, <2>7, <1>1 DEF LifecycleStart, Sound
  <2> HIDE DEF t
  <2>9. (P \o TextOf(c, n)) \o RefusalOf(c, n) = P \o ChunkText(c, n)
    <3>1. ChunkText(c, n) = TextOf(c, n) \o RefusalOf(c, n)
      BY <1>3 DEF ChunkText
    <3>2. TextOf(c, n) \in Seq(PieceType) /\ RefusalOf(c, n) \in Seq(PieceType)
      BY TextsAre
    <3> QED BY <1>1, <3>1, <3>2, Regroup
  <2> QED BY <2>7, <2>8, <2>9 DEF t
<1> QED BY <1>2, <1>3

\* What is open at [DONE] is kept.
LEMMA CompletionIsWhole ==
    ASSUME NEW base, NEW s, Sound(base, {}, s), NEW P, Whole({}, s, P)
    PROVE  Whole(Names, CloseForCompletion(s), P)
<1> DEFINE s1 == IF s.reasoning_content = <<>> THEN s ELSE close_reasoning_item(s)
           s2 == CloseOpenSlots(s1)
           s3 == IF s2.accumulated_text = <<>> THEN s2 ELSE close_message_item(s2)
           X == {}
           Y == X \cup {-2}
           Z == Y \cup Slots
<1>1. CloseForCompletion(s) = s3
  BY DEF CloseForCompletion
<1>2. /\ -2 \notin X /\ Sound(base, X, s) /\ Whole(X, s, P)
      /\ \A k \in Slots : k \notin Y
      /\ -1 \notin Z /\ Z \cup {-1} = Names
  <2>1. \A k \in Slots : k # -2 /\ k # -1
    BY DEF Slots
  <2>2. Z \cup {-1} = Names
    <3> HIDE DEF Slots
    <3> QED BY NamesAre
  <2> HIDE DEF Slots
  <2> QED BY <2>1, <2>2
<1> HIDE DEF X
<1>3. Sound(base, Y, s1) /\ Whole(Y, s1, P)
  <2>1. CASE s.reasoning_content = <<>>
    <3>1. ~Owned(X, s, -2)
      BY <2>1, HandOf DEF Owned
    <3>2. s \in AState
      BY <1>2 DEF Sound
    <3> QED BY <1>2, <2>1, <3>1, <3>2, NotHeld, WholeNotHeld
  <2>2. CASE s.reasoning_content # <<>>
    BY <1>2, <2>2, ReasoningCloses, ReasoningKept
  <2> QED BY <2>1, <2>2
<1> HIDE DEF s1, Y
<1>4. Sound(base, Z, s2) /\ Whole(Z, s2, P)
  BY <1>2, <1>3, SlotsClose, SlotsKept
<1> HIDE DEF s2, Z
<1>5. Whole(Z \cup {-1}, s3, P)
  <2>1. CASE s2.accumulated_text = <<>>
    <3>1. ~Owned(Z, s2, -1)
      BY <2>1, HandOf DEF Owned
    <3>2. s2 \in AState
      BY <1>4 DEF Sound
    <3> QED BY <1>4, <2>1, <3>1, <3>2, WholeNotHeld
  <2>2. CASE s2.accumulated_text # <<>>
    BY <1>2, <1>4, <2>2, MessageKept
  <2> QED BY <2>1, <2>2
<1> HIDE DEF s3
<1> QED BY <1>1, <1>2, <1>5

\* A stream begins with nothing.
LEMMA StartIsWhole ==
    ASSUME Transport
    PROVE  Whole({}, NewState, <<>>)
<1> DEFINE s == NewState
           log == TransportEvents
           X == {}
           none == <<>>
           calls == [k \in Slots |-> EmptySlot]
<1>1. /\ s.reasoning_content = none /\ s.accumulated_text = none /\ s.completed_items = none
      /\ s.next_output_index = 0 /\ s.log = log /\ s.tool_calls = calls
  BY Zenon DEF NewState, Transport, log, calls, none
<1>2. none \in Seq(PieceType)
  OBVIOUS
<1>3. \A x \in Names : ~Owned(X, s, x)
  <2>0. \A k \in Slots : calls[k].id = ""
    BY DEF EmptySlot
  <2> HIDE DEF s, calls
  <2> TAKE x \in Names
  <2>1. CASE x = -2
    BY <1>1, <2>1, HandOf DEF Owned
  <2>2. CASE x = -1
    BY <1>1, <2>2, HandOf DEF Owned
  <2>3. CASE x \in Slots
    <3>1. s.tool_calls[x].id = ""
      BY <1>1, <2>0, <2>3
    <3>2. ~Hand(s, x).open
      BY <2>3, <3>1, SlotHand
    <3> QED BY <3>2 DEF Owned
  <2> QED BY <2>1, <2>2, <2>3, NamesAre
<1>4. \A a \in DOMAIN log : log[a].kind = "response"
  <2> DEFINE c == Num(Lifecycle[1], 0)
             p == Num(Lifecycle[2], 1)
  <2>1. log = Append(Append(<<>>, c), p)
    BY TransportLog
  <2>2. c.kind = "response" /\ p.kind = "response"
    BY DEF Lifecycle, Event, Num
  <2> HIDE DEF c, p, log
  <2>3. DOMAIN log = 1..2 /\ log[1] = c /\ log[2] = p
    <3> DEFINE S == {c, p}
    <3>1. c \in S /\ p \in S
      OBVIOUS
    <3> HIDE DEF S
    <3> QED BY <2>1, <3>1
  <2> QED BY <2>2, <2>3
<1>5. IsLog(log)
  <2>1. log \in Seq(AnEvent)
    BY TransportKept DEF Kept
  <2> HIDE DEF log
  <2> QED BY <2>1, LogIs
<1> HIDE DEF s, log, X
<1>6. Said(log, Int) = <<>>
  <2>1. \A a \in DOMAIN log : SaidBy(log[a], Int) = <<>>
    BY <1>4 DEF SaidBy
  <2> QED BY <1>5, <2>1, SaidNothing
<1>7. Relays(s.log, none) /\ Below(s.log, Top(s))
  BY <1>1, <1>4, <1>6 DEF Relays, Ordered, Below
<1>8. MessageText(s.completed_items) \o OpenText(X, s) = none
  <2>1. MessageText(none) = <<>>
    <3> DEFINE parts == [i \in DOMAIN none |-> IF none[i].kind = "message" THEN none[i].data ELSE <<>>]
    <3>1. parts = <<>>
      OBVIOUS
    <3>2. MessageText(none) = FlattenSeq(parts)
      BY Zenon DEF MessageText
    <3> HIDE DEF parts
    <3> QED BY <3>1, <3>2, FlattenEmpty
  <2>2. OpenText(X, s) = <<>>
    BY <1>1 DEF OpenText
  <2>3. none \o <<>> = none
    OBVIOUS
  <2> QED BY <1>1, <2>1, <2>2, <2>3
<1>9. EachIsKept(X, s)
  <2>1. OpenNames(X, s) = {}
    BY <1>3 DEF OpenNames
  <2>2. Cardinality({}) = 0
    BY FS_EmptySet
  <2>3. Len(s.completed_items) = 0 /\ DOMAIN s.completed_items = {}
    BY <1>1
  <2> QED BY <1>1, <2>1, <2>2, <2>3 DEF EachIsKept
<1> HIDE DEF none
<1>10. Whole(X, s, none)
  BY <1>2, <1>7, <1>8, <1>9 DEF Whole
<1> QED BY <1>10 DEF X, s, none

-----------------------------------------------------------------------------
(* The text the upstream sent                                              *)

\* The text of these chunks, and the two parts of it.
Received(chunks) == FlattenSeq([n \in DOMAIN chunks |-> ChunkText(chunks[n], n)])

OneText(c, n) == IF c.choices /\ c.text THEN <<Piece(n, "text", 0)>> ELSE <<>>

OneRefusal(c, n) == IF c.choices /\ c.refusal THEN <<Piece(n, "refusal", 0)>> ELSE <<>>

Texts(chunks) == FlattenSeq([n \in DOMAIN chunks |-> OneText(chunks[n], n)])

Refusals(chunks) == FlattenSeq([n \in DOMAIN chunks |-> OneRefusal(chunks[n], n)])

NoRepeat(pieces) == \A a, b \in DOMAIN pieces : a # b => pieces[a] # pieces[b]

\* The text of the chunks so far: which piece is of which kind, and none comes twice.
Tally(chunks) ==
    /\ Received(chunks) \in Seq(PieceType)
    /\ Texts(chunks) = Only("text", Received(chunks))
    /\ Refusals(chunks) = Only("refusal", Received(chunks))
    /\ \A a \in DOMAIN Received(chunks) : /\ Received(chunks)[a].kind \in {"text", "refusal"}
                                          /\ Received(chunks)[a].n <= Len(chunks)
    /\ NoRepeat(Received(chunks))

LEMMA TextsSent ==
    /\ Texts(sent) = SentPieces(LAMBDA c : c.text, "text")
    /\ Refusals(sent) = SentPieces(LAMBDA c : c.refusal, "refusal")
BY Zenon DEF Texts, Refusals, OneText, OneRefusal, SentPieces

LEMMA OnlyAppend ==
    ASSUME NEW kind, NEW pieces \in Seq(PieceType), NEW p \in PieceType
    PROVE  /\ Only(kind, Append(pieces, p)) =
                 Only(kind, pieces) \o (IF p.kind = kind THEN <<p>> ELSE <<>>)
           /\ Only(kind, pieces) \in Seq(PieceType)
<1> DEFINE pick(x) == IF x.kind = kind THEN <<x>> ELSE <<>>
           new == Append(pieces, p)
           was == [k \in DOMAIN pieces |-> pick(pieces[k])]
           now == [k \in DOMAIN new |-> pick(new[k])]
<1>1. \A x \in PieceType : pick(x) \in Seq(PieceType)
  OBVIOUS
<1>2. /\ Len(pieces) \in Nat /\ DOMAIN pieces = 1..Len(pieces)
      /\ \A i \in 1..Len(pieces) : pieces[i] \in PieceType
      /\ Len(new) = Len(pieces) + 1 /\ DOMAIN new = 1..(Len(pieces) + 1)
      /\ new[Len(pieces) + 1] = p /\ \A i \in 1..Len(pieces) : new[i] = pieces[i]
      /\ \A i \in 1..(Len(pieces) + 1) : new[i] \in PieceType
  OBVIOUS
<1>3. Only(kind, pieces) = FlattenSeq(was) /\ Only(kind, new) = FlattenSeq(now)
  BY Zenon DEF Only
<1> HIDE DEF pick, new
<1>4. was \in Seq(Seq(PieceType)) /\ Len(was) = Len(pieces)
  BY <1>1, <1>2
<1>5. now \in Seq(Seq(PieceType)) /\ Len(now) = Len(pieces) + 1
  BY <1>1, <1>2
<1>6. \A i \in 1..Len(was) : now[i] = was[i]
  BY <1>2, <1>4
<1>7. now[Len(now)] = pick(p)
  BY <1>2, <1>5
<1> HIDE DEF was, now
<1>8. FlattenSeq(now) = FlattenSeq(was) \o now[Len(now)] /\ FlattenSeq(was) \in Seq(PieceType)
  BY <1>4, <1>5, <1>6, FlattenGrows
<1> QED BY <1>3, <1>7, <1>8 DEF pick, new

\* The elements of one kind.
LEMMA OnlyRange ==
    ASSUME NEW kind, NEW pieces \in Seq(PieceType)
    PROVE  \A x : x \in ToSet(Only(kind, pieces)) <=> x \in ToSet(pieces) /\ x.kind = kind
<1> DEFINE pick(x) == IF x.kind = kind THEN <<x>> ELSE <<>>
           parts == [k \in DOMAIN pieces |-> pick(pieces[k])]
<1>1. Only(kind, pieces) = FlattenSeq(parts)
  BY Zenon DEF Only
<1>2. /\ Len(pieces) \in Nat /\ DOMAIN pieces = 1..Len(pieces)
      /\ \A i \in 1..Len(pieces) : pieces[i] \in PieceType
  OBVIOUS
<1>3. \A x \in PieceType : pick(x) \in Seq(PieceType)
  OBVIOUS
<1>4. \A x, y : y \in ToSet(pick(x)) <=> y = x /\ x.kind = kind
  <2> TAKE x, y
  <2>1. ToSet(<<x>>) = {x} /\ ToSet(<<>>) = {}
    BY DEF ToSet
  <2> QED BY <2>1
<1> HIDE DEF pick
<1>5. parts \in Seq(Seq(PieceType)) /\ Len(parts) = Len(pieces)
      /\ \A i \in 1..Len(pieces) : parts[i] = pick(pieces[i])
  BY <1>2, <1>3
<1> HIDE DEF parts
<1>6. \A x : x \in ToSet(FlattenSeq(parts)) <=> \E i \in 1..Len(parts) : x \in ToSet(parts[i])
  BY <1>5, FlattenRange
<1>7. \A x : x \in ToSet(pieces) <=> \E i \in 1..Len(pieces) : x = pieces[i]
  BY <1>2 DEF ToSet
<1> QED BY <1>1, <1>4, <1>5, <1>6, <1>7

LEMMA TallyStarts == Tally(<<>>)
<1> DEFINE none == <<>>
           a == [n \in DOMAIN none |-> ChunkText(none[n], n)]
           b == [n \in DOMAIN none |-> OneText(none[n], n)]
           c == [n \in DOMAIN none |-> OneRefusal(none[n], n)]
           d(kind) == [k \in DOMAIN none |-> IF none[k].kind = kind THEN <<none[k]>> ELSE <<>>]
<1>1. /\ a = <<>> /\ b = <<>> /\ c = <<>> /\ \A kind : d(kind) = <<>>
  OBVIOUS
<1>2. /\ Received(none) = FlattenSeq(a) /\ Texts(none) = FlattenSeq(b)
      /\ Refusals(none) = FlattenSeq(c) /\ \A kind : Only(kind, none) = FlattenSeq(d(kind))
  BY Zenon DEF Received, Texts, Refusals, Only
<1> HIDE DEF a, b, c, d
<1>3. /\ Received(none) = none /\ Texts(none) = none /\ Refusals(none) = none
      /\ \A kind : Only(kind, none) = none
  BY <1>1, <1>2, FlattenEmpty
<1>4. none \in Seq(PieceType) /\ DOMAIN none = {}
  OBVIOUS
<1> HIDE DEF none
<1>5. Tally(none)
  BY <1>3, <1>4 DEF Tally, NoRepeat
<1> QED BY <1>5 DEF none

LEMMA OneChunkMore ==
    ASSUME NEW chunks \in Seq(Chunks), NEW c \in Chunks, Len(chunks) < MaxChunks,
           NEW m, m = Len(chunks) + 1
    PROVE  /\ Received(Append(chunks, c)) = Received(chunks) \o ChunkText(c, m)
           /\ Texts(Append(chunks, c)) = Texts(chunks) \o OneText(c, m)
           /\ Refusals(Append(chunks, c)) = Refusals(chunks) \o OneRefusal(c, m)
<1> DEFINE F(d, n, which) == CASE which = 1 -> ChunkText(d, n)
                               [] which = 2 -> OneText(d, n)
                               [] which = 3 -> OneRefusal(d, n)
           new == Append(chunks, c)
           was(which) == [n \in DOMAIN chunks |-> F(chunks[n], n, which)]
           now(which) == [n \in DOMAIN new |-> F(new[n], n, which)]
<1>1. /\ Len(chunks) \in Nat /\ DOMAIN chunks = 1..Len(chunks) /\ DOMAIN new = 1..m /\ m \in Nat
      /\ \A i \in 1..Len(chunks) : new[i] = chunks[i] /\ chunks[i] \in Chunks /\ i \in 1..m
      /\ new[m] = c /\ \A i \in 1..m : new[i] \in Chunks
  OBVIOUS
<1>2. ASSUME NEW d, NEW n \in 1..m, NEW which \in 1..3
      PROVE  F(d, n, which) \in Seq(PieceType)
  <2>1. n \in 1..MaxChunks
    BY <1>1
  <2>2. Piece(n, "text", 0) \in PieceType /\ Piece(n, "refusal", 0) \in PieceType
    BY <2>1 DEF Piece, PieceType
  <2>3. ChunkText(d, n) \in Seq(PieceType)
    BY <2>1, TextsAre
  <2>4. OneText(d, n) \in Seq(PieceType)
    BY <2>2 DEF OneText
  <2>5. OneRefusal(d, n) \in Seq(PieceType)
    BY <2>2 DEF OneRefusal
  <2> QED BY <2>3, <2>4, <2>5
<1>4. \A d, n : /\ F(d, n, 1) = ChunkText(d, n) /\ F(d, n, 2) = OneText(d, n)
               /\ F(d, n, 3) = OneRefusal(d, n)
  OBVIOUS
<1> HIDE DEF new, F
<1>3. /\ Received(chunks) = FlattenSeq(was(1)) /\ Received(new) = FlattenSeq(now(1))
      /\ Texts(chunks) = FlattenSeq(was(2)) /\ Texts(new) = FlattenSeq(now(2))
      /\ Refusals(chunks) = FlattenSeq(was(3)) /\ Refusals(new) = FlattenSeq(now(3))
  BY <1>4 DEF Received, Texts, Refusals
<1>5. ASSUME NEW which \in 1..3
      PROVE  FlattenSeq(now(which)) = FlattenSeq(was(which)) \o F(c, m, which)
  <2> DEFINE a == was(which)
             b == now(which)
  <2>1. a \in Seq(Seq(PieceType)) /\ Len(a) = Len(chunks)
    BY <1>1, <1>2
  <2>2. b \in Seq(Seq(PieceType)) /\ Len(b) = m
    BY <1>1, <1>2
  <2>3. (\A i \in 1..Len(a) : b[i] = a[i]) /\ b[Len(b)] = F(c, m, which)
    BY <1>1, <2>1, <2>2
  <2> HIDE DEF a, b, was, now
  <2>4. FlattenSeq(b) = FlattenSeq(a) \o b[Len(b)]
    BY <1>1, <2>1, <2>2, <2>3, FlattenGrows
  <2> QED BY <2>3, <2>4 DEF a, b
<1> HIDE DEF was, now
<1>6. 1 \in 1..3 /\ 2 \in 1..3 /\ 3 \in 1..3
  OBVIOUS
<1> QED BY <1>3, <1>4, <1>5, <1>6 DEF new

\* One piece more, of this kind.
LEMMA NoRepeatAppend ==
    ASSUME NEW pieces \in Seq(PieceType), NoRepeat(pieces), NEW p \in PieceType,
           \A a \in DOMAIN pieces : pieces[a] # p
    PROVE  NoRepeat(Append(pieces, p))
BY DEF NoRepeat

\* P with a piece more, or the same.
TallyOf(P, T, R, m) ==
    /\ P \in Seq(PieceType) /\ T = Only("text", P) /\ R = Only("refusal", P)
    /\ \A a \in DOMAIN P : P[a].kind \in {"text", "refusal"} /\ P[a].n <= m
    /\ NoRepeat(P)

LEMMA TallyAppend ==
    ASSUME NEW P, NEW T, NEW R, NEW m \in Nat, TallyOf(P, T, R, m), NEW p \in PieceType, p.n <= m,
           p.kind \in {"text", "refusal"}, \A a \in DOMAIN P : P[a] # p
    PROVE  TallyOf(P \o <<p>>,
                   IF p.kind = "text" THEN T \o <<p>> ELSE T,
                   IF p.kind = "refusal" THEN R \o <<p>> ELSE R, m)
<1> DEFINE Q == Append(P, p)
<1>1. P \in Seq(PieceType) /\ P \o <<p>> = Q
  BY DEF TallyOf
<1>2. /\ Q \in Seq(PieceType) /\ DOMAIN Q = 1..(Len(P) + 1) /\ DOMAIN P = 1..Len(P)
      /\ Len(P) \in Nat /\ Q[Len(P) + 1] = p /\ \A a \in 1..Len(P) : Q[a] = P[a]
  BY <1>1
<1>3. NoRepeat(Q)
  BY <1>1, NoRepeatAppend DEF TallyOf
<1> HIDE DEF Q
<1>4. \A a \in DOMAIN Q : Q[a].kind \in {"text", "refusal"} /\ Q[a].n <= m
  <2> TAKE a \in DOMAIN Q
  <2>1. CASE a \in DOMAIN P
    BY <1>2, <2>1 DEF TallyOf
  <2>2. CASE a = Len(P) + 1
    BY <1>2, <2>2
  <2> QED BY <1>2, <2>1, <2>2
<1>5. \A kind : /\ Only(kind, Q) = Only(kind, P) \o (IF p.kind = kind THEN <<p>> ELSE <<>>)
                /\ Only(kind, P) \in Seq(PieceType)
  BY <1>1, OnlyAppend DEF Q
<1>6. \A kind : Only(kind, P) \o <<>> = Only(kind, P)
  BY <1>5
<1>7. (IF p.kind = "text" THEN T \o <<p>> ELSE T) = Only("text", Q)
  BY <1>5, <1>6 DEF TallyOf
<1>8. (IF p.kind = "refusal" THEN R \o <<p>> ELSE R) = Only("refusal", Q)
  BY <1>5, <1>6 DEF TallyOf
<1> QED BY <1>1, <1>2, <1>3, <1>4, <1>7, <1>8 DEF TallyOf

LEMMA TallyGoesOn ==
    ASSUME NEW chunks \in Seq(Chunks), Tally(chunks), NEW c \in Chunks, Len(chunks) < MaxChunks
    PROVE  Tally(Append(chunks, c))
<1> DEFINE m == Len(chunks) + 1
           P == Received(chunks)
           T == Texts(chunks)
           R == Refusals(chunks)
           t == Piece(m, "text", 0)
           r == Piece(m, "refusal", 0)
           P1 == P \o TextOf(c, m)
           T1 == T \o TextOf(c, m)
           P2 == P1 \o RefusalOf(c, m)
           R2 == R \o RefusalOf(c, m)
           new == Append(chunks, c)
<1>1. m \in Nat /\ m \in 1..MaxChunks /\ Len(new) = m
  OBVIOUS
<1>2. /\ t \in PieceType /\ t.n = m /\ t.kind = "text"
      /\ r \in PieceType /\ r.n = m /\ r.kind = "refusal"
  BY <1>1 DEF Piece, PieceType
<1>3. TallyOf(P, T, R, m) /\ \A a \in DOMAIN P : P[a].n < m
  <2>1. \A a \in DOMAIN P : P[a].n <= Len(chunks) /\ P[a].n \in Int
    <3> TAKE a \in DOMAIN P
    <3>1. P[a] \in PieceType
      BY DEF Tally
    <3>2. P[a].n \in Int
      BY <3>1 DEF PieceType
    <3> QED BY <3>2 DEF Tally
  <2>2. Len(chunks) \in Nat
    OBVIOUS
  <2>3. \A a \in DOMAIN P : P[a].n <= m /\ P[a].n < m
    <3> HIDE DEF P
    <3> QED BY <2>1, <2>2
  <2> HIDE DEF m
  <2> QED BY <2>3 DEF Tally, TallyOf
<1>4. /\ P \in Seq(PieceType) /\ T \in Seq(PieceType) /\ R \in Seq(PieceType)
      /\ P \o <<>> = P /\ T \o <<>> = T /\ R \o <<>> = R
  <2>1. P \in Seq(PieceType) /\ T = Only("text", P) /\ R = Only("refusal", P)
    BY DEF Tally
  <2> HIDE DEF P, T, R
  <2>2. T \in Seq(PieceType) /\ R \in Seq(PieceType)
    BY <1>2, <2>1, OnlyAppend
  <2> QED BY <2>1, <2>2
<1> HIDE DEF P, T, R, m, t, r
<1>5. TallyOf(P1, T1, R, m) /\ \A a \in DOMAIN P1 : P1[a] # r
  <2>0. \A a \in DOMAIN P : P[a] # t /\ P[a] # r
    BY <1>1, <1>2, <1>3
  <2>1. CASE c.text
    <3>1. P1 = P \o <<t>> /\ T1 = T \o <<t>>
      BY <2>1 DEF TextOf, t
    <3> HIDE DEF P1, T1
    <3>2. TallyOf(P1, T1, R, m)
      <4>1. TallyOf(P \o <<t>>, IF t.kind = "text" THEN T \o <<t>> ELSE T,
                    IF t.kind = "refusal" THEN R \o <<t>> ELSE R, m)
        <5>1. t.n <= m
          BY <1>1, <1>2
        <5> QED BY <1>1, <1>2, <1>3, <2>0, <5>1, TallyAppend
      <4>2. t.kind = "text" /\ t.kind # "refusal"
        BY <1>2
      <4> QED BY <3>1, <4>1, <4>2
    <3>3. \A a \in DOMAIN P1 : P1[a] # r
      <4>1. t # r
        BY <1>2
      <4>2. P1 = Append(P, t)
        BY <1>2, <1>4, <3>1
      <4> QED BY <1>2, <1>4, <2>0, <4>1, <4>2
    <3> QED BY <3>2, <3>3
  <2>2. CASE ~c.text
    <3>1. TextOf(c, m) = <<>>
      BY <2>2 DEF TextOf
    <3> QED BY <1>3, <1>4, <2>0, <3>1
  <2> QED BY <2>1, <2>2
<1>6. P1 \in Seq(PieceType) /\ P1 \o <<>> = P1
  <2>1. P1 \in Seq(PieceType)
    BY <1>5 DEF TallyOf
  <2> QED BY <2>1
<1> HIDE DEF P1, T1
<1>7. TallyOf(P2, T1, R2, m)
  <2>1. CASE c.refusal
    <3>1. P2 = P1 \o <<r>> /\ R2 = R \o <<r>>
      BY <2>1 DEF RefusalOf, r
    <3> HIDE DEF P2, R2
    <3>2. TallyOf(P1 \o <<r>>, IF r.kind = "text" THEN T1 \o <<r>> ELSE T1,
                  IF r.kind = "refusal" THEN R \o <<r>> ELSE R, m)
      <4>1. r.n <= m
        BY <1>1, <1>2
      <4> QED BY <1>1, <1>2, <1>5, <4>1, TallyAppend
    <3>3. r.kind = "refusal" /\ r.kind # "text"
      BY <1>2
    <3> QED BY <3>1, <3>2, <3>3
  <2>2. CASE ~c.refusal
    <3>1. RefusalOf(c, m) = <<>>
      BY <2>2 DEF RefusalOf
    <3> QED BY <1>4, <1>5, <1>6, <3>1
  <2> QED BY <2>1, <2>2
<1>8. /\ Received(new) = P \o ChunkText(c, m) /\ Texts(new) = T \o OneText(c, m)
      /\ Refusals(new) = R \o OneRefusal(c, m)
  BY OneChunkMore DEF P, T, R, m
<1>9. CASE c.choices
  <2>1. ChunkText(c, m) = TextOf(c, m) \o RefusalOf(c, m)
    BY <1>9 DEF ChunkText
  <2>2. TextOf(c, m) \in Seq(PieceType) /\ RefusalOf(c, m) \in Seq(PieceType)
    BY <1>1, TextsAre
  <2>3. P \o ChunkText(c, m) = P2
    <3>1. (P \o TextOf(c, m)) \o RefusalOf(c, m) = P \o (TextOf(c, m) \o RefusalOf(c, m))
      <4>1. P \in Seq(PieceType)
        BY <1>4
      <4> QED BY ONLY <4>1, <2>2, Regroup
    <3> QED BY <2>1, <3>1 DEF P1
  <2>4. OneText(c, m) = TextOf(c, m) /\ OneRefusal(c, m) = RefusalOf(c, m)
    BY <1>9 DEF OneText, OneRefusal, TextOf, RefusalOf
  <2>5. Received(new) = P2 /\ Texts(new) = T1 /\ Refusals(new) = R2
    BY <1>8, <2>3, <2>4 DEF T1
  <2> HIDE DEF P2, R2, new
  <2> QED BY <1>1, <1>7, <2>5 DEF TallyOf, Tally, new
<1>10. CASE ~c.choices
  <2>1. ChunkText(c, m) = <<>> /\ OneText(c, m) = <<>> /\ OneRefusal(c, m) = <<>>
    BY <1>10 DEF ChunkText, OneText, OneRefusal
  <2>2. Received(new) = P /\ Texts(new) = T /\ Refusals(new) = R
    BY <1>4, <1>8, <2>1
  <2> HIDE DEF new
  <2> QED BY <1>1, <1>3, <2>2 DEF TallyOf, Tally, new
<1> QED BY <1>9, <1>10

-----------------------------------------------------------------------------
(* What the client reads                                                   *)

\* The items a log shows have the text it relays.
LEMMA ShownText ==
    ASSUME NEW log, NEW n, Tells(log, n), NEW P, Relays(log, P),
           \A a \in DOMAIN log : log[a].kind = "message" => log[a].index \in 0..(n - 1)
    PROVE  MessageText(Shown(log)) = P
<1> DEFINE text(item) == IF item.kind = "message" THEN item.data ELSE <<>>
           parts == [i \in DOMAIN Shown(log) |-> text(Shown(log)[i])]
<1>1. /\ n \in Nat /\ DOMAIN Shown(log) = 1..n
      /\ \A i \in 1..n : Shown(log)[i] = ClientItem(log, i - 1) /\ i - 1 \in Nat /\ i - 1 < n
  BY ShownIs
<1>2. IsLog(log)
  BY DEF Tells
<1>3. ASSUME NEW i \in 1..n PROVE text(ClientItem(log, i - 1)) = Said(log, {i - 1})
  <2> DEFINE j == i - 1
  <2>1. j \in Nat /\ j < n
    BY <1>1
  <2> HIDE DEF j
  <2>2. PICK kind, r : Grammar(log, j, kind, r)
    BY <2>1, GrammarOf
  <2>3. ClientItem(log, j).kind = kind /\ ClientItem(log, j).data = DeltasAt(log, j)
    <3>1. PICK final : ClientItem(log, j) = [kind |-> kind, data |-> DeltasAt(log, j),
                                             open |-> ~Ended(log, j), final |-> final]
      BY <2>2, ClientItemIs
    <3> QED BY <3>1
  <2>4. \A a \in DOMAIN log : log[a].index = j => log[a].kind = kind
    BY <2>2 DEF Grammar, EventsAt
  <2>5. CASE kind = "message"
    <3>1. \A a \in DOMAIN log :
             SaidBy(log[a], {j}) = IF log[a].index = j /\ log[a].type = "delta" THEN log[a].data ELSE <<>>
      BY <2>4, <2>5 DEF SaidBy
    <3>2. DeltasAt(log, j) = Said(log, {j})
      BY <3>1, Zenon DEF DeltasAt, Said
    <3> QED BY <2>3, <2>5, <3>2 DEF j
  <2>6. CASE kind # "message"
    <3>1. \A a \in DOMAIN log : SaidBy(log[a], {j}) = <<>>
      BY <2>4, <2>6 DEF SaidBy
    <3>2. Said(log, {j}) = <<>>
      BY <1>2, <3>1, SaidNothing
    <3> QED BY <2>3, <2>6, <3>2 DEF j
  <2> QED BY <2>5, <2>6
<1>4. MessageText(Shown(log)) = FlattenSeq(parts)
  BY Zenon DEF MessageText
<1> HIDE DEF text
<1>5. parts = PerIndex(log, n)
  BY <1>1, <1>3 DEF PerIndex
<1> HIDE DEF parts
<1>6. ByIndex(log, n) = Said(log, Int)
  <2>1. Ordered(log)
    BY DEF Relays
  <2> QED BY <1>1, <1>2, <2>1, IndexesAreInOrder
<1> QED BY <1>4, <1>5, <1>6 DEF ByIndex, Relays

\* Each message in the log is of an index that was handed out.
LEMMA MessagesInRange ==
    ASSUME NEW base, NEW X, NEW s, Sound(base, X, s), NEW P, Whole(X, s, P)
    PROVE  \A a \in DOMAIN s.log : s.log[a].kind = "message" =>
               s.log[a].index \in 0..(s.next_output_index - 1)
<1>1. Below(s.log, Top(s)) /\ Top(s) \in Nat
  BY TopIs DEF Sound, Whole
<1>2. /\ s.next_output_index \in Nat
      /\ \A a \in DOMAIN s.log : s.log[a].index \in Int /\ s.log[a].index < s.next_output_index
  BY DEF Sound, Kept
<1> QED BY <1>1, <1>2 DEF Below

-----------------------------------------------------------------------------
(* The items that are open                                                 *)

\* The parts that are not empty, by their number less one.
NonEmpty(ss1, m) == {k \in Nat : k < m /\ ss1[k + 1] # <<>>}

\* Flattening parts of at most one element counts them.
LEMMA FlattenCounts ==
    ASSUME NEW S, NEW parts \in Seq(Seq(S)), \A i \in 1..Len(parts) : Len(parts[i]) <= 1
    PROVE  /\ IsFiniteSet(NonEmpty(parts, Len(parts)))
           /\ Len(FlattenSeq(parts)) = Cardinality(NonEmpty(parts, Len(parts)))
<1> DEFINE Counts(m) == /\ IsFiniteSet(NonEmpty(parts, m)) /\ Cardinality(NonEmpty(parts, m)) \in Nat
                        /\ Len(FlattenSeq(Upto(parts, m))) = Cardinality(NonEmpty(parts, m))
           G == {m \in Nat : m <= Len(parts) => Counts(m)}
<1>1. 0 \in G
  <2>1. NonEmpty(parts, 0) = {}
    BY DEF NonEmpty
  <2>2. FlattenSeq(Upto(parts, 0)) = <<>>
    BY UptoIs, FlattenEmpty
  <2>3. Counts(0)
    <3>1. IsFiniteSet({}) /\ Cardinality({}) = 0 /\ Len(<<>>) = 0
      BY FS_EmptySet
    <3>2. 0 \in Nat
      OBVIOUS
    <3> QED BY <2>1, <2>2, <3>1, <3>2, Zenon
  <2> QED BY <2>3
<1>2. ASSUME NEW m \in Nat, m \in G PROVE m + 1 \in G
  <2> SUFFICES ASSUME m + 1 <= Len(parts) PROVE Counts(m + 1)
    OBVIOUS
  <2> DEFINE a == FlattenSeq(Upto(parts, m))
             d == parts[m + 1]
             was == NonEmpty(parts, m)
             now == NonEmpty(parts, m + 1)
  <2>1. FlattenSeq(Upto(parts, m + 1)) = a \o d /\ a \in Seq(S) /\ d \in Seq(S)
    BY FlattenUpto
  <2>2. IsFiniteSet(was) /\ Cardinality(was) \in Nat /\ Len(a) = Cardinality(was)
    BY <1>2
  <2>3. Len(d) <= 1
    OBVIOUS
  <2>4. m \notin was
    BY DEF NonEmpty
  <2>5. now = IF d = <<>> THEN was ELSE was \cup {m}
    BY DEF NonEmpty
  <2> HIDE DEF a, d, was, now
  <2>6. CASE d = <<>>
    <3>1. a \o d = a /\ now = was
      BY <2>1, <2>5, <2>6
    <3> QED BY <2>1, <2>2, <3>1 DEF now, was
  <2>7. CASE d # <<>>
    <3>1. Len(a \o d) = Len(a) + 1
      BY <2>1, <2>3, <2>7
    <3>2. IsFiniteSet(now) /\ Cardinality(now) = Cardinality(was) + 1
      <4>1. now = was \cup {m}
        BY <2>5, <2>7
      <4> QED BY <2>2, <2>4, <4>1, FS_AddElement
    <3> QED BY <2>1, <2>2, <3>1, <3>2 DEF now
  <2> QED BY <2>6, <2>7
<1> HIDE DEF G
<1>3. G = Nat
  BY <1>1, <1>2, Inductive DEF G
<1>4. Len(parts) \in Nat /\ Len(parts) \in G
  BY <1>3
<1> QED BY <1>4, UptoIs DEF G

\* An item that stands for accumulator x.
StandsFor(item, s, x) ==
    /\ item.index = Hand(s, x).at
    /\ Hand(s, x).kind # "custom_tool_call" => item.data = Hand(s, x).data

OpenSlots(s) == {k \in Slots : s.tool_calls[k].id # ""}

LEMMA OpenCallsAre ==
    ASSUME NEW s \in AState
    PROVE  /\ OpenCalls(s) \in Seq(AnItem)
           /\ IsFiniteSet(OpenSlots(s)) /\ Len(OpenCalls(s)) = Cardinality(OpenSlots(s))
           /\ \A k \in OpenSlots(s) : \E j \in DOMAIN OpenCalls(s) : StandsFor(OpenCalls(s)[j], s, k)
<1> DEFINE call(k) == Item("function_call", s.tool_calls[k].output_index, k,
                           s.tool_calls[k].arguments)
           part(k) == IF s.tool_calls[k].id = "" THEN <<>> ELSE <<call(k)>>
           parts == [j \in 1..SlotCount |-> part(j - 1)]
<1>1. OpenCalls(s) = FlattenSeq(parts)
  BY Zenon DEF OpenCalls
<1>2. ASSUME NEW k \in Slots
      PROVE  /\ call(k) \in AnItem /\ StandsFor(call(k), s, k)
             /\ s.tool_calls[k].id \in {"", "call"}
  <2> DEFINE slot == s.tool_calls[k]
  <2>1. slot \in ASlot
    BY DEF AState
  <2>2. slot.output_index \in Nat /\ slot.arguments \in Seq(PieceType) /\ slot.id \in {"", "call"}
    BY <2>1 DEF ASlot
  <2>3. /\ Hand(s, k).at = slot.output_index /\ Hand(s, k).kind = ToolKind(slot.is_custom)
        /\ Hand(s, k).data = IF slot.is_custom THEN <<>> ELSE slot.arguments
    BY SlotHand
  <2> HIDE DEF slot
  <2>4. Item("function_call", slot.output_index, k, slot.arguments) \in AnItem
    BY <2>2, CallItemIs
  <2>5. StandsFor(Item("function_call", slot.output_index, k, slot.arguments), s, k)
    BY <2>3 DEF StandsFor, Item, ToolKind
  <2> QED BY <2>2, <2>4, <2>5 DEF slot
<1> HIDE DEF call
<1>3. ASSUME NEW k \in Slots PROVE part(k) \in Seq(AnItem) /\ Len(part(k)) <= 1
  <2>1. \A it \in AnItem : <<it>> \in Seq(AnItem) /\ Len(<<it>>) = 1
    OBVIOUS
  <2>2. <<>> \in Seq(AnItem) /\ Len(<<>>) = 0
    OBVIOUS
  <2>3. CASE s.tool_calls[k].id = ""
    <3>1. part(k) = <<>>
      BY <2>3
    <3> HIDE DEF part
    <3> QED BY <2>2, <3>1
  <2>4. CASE s.tool_calls[k].id # ""
    <3>1. part(k) = <<call(k)>> /\ call(k) \in AnItem
      BY <1>2, <2>4
    <3> HIDE DEF part
    <3> QED BY <2>1, <3>1
  <2> QED BY <2>3, <2>4
<1>6. \A k \in Slots : (part(k) # <<>> <=> s.tool_calls[k].id # "")
                       /\ (s.tool_calls[k].id # "" => part(k) = <<call(k)>>)
  OBVIOUS
<1> HIDE DEF part
<1>4. /\ SlotCount \in Nat /\ \A j \in 1..SlotCount : j - 1 \in Slots
      /\ \A k \in Slots : k + 1 \in 1..SlotCount /\ (k + 1) - 1 = k /\ k \in Nat /\ k < SlotCount
      /\ \A k \in Nat : k < SlotCount => k \in Slots
  BY DEF Slots
<1> HIDE DEF Slots
<1>5. /\ parts \in Seq(Seq(AnItem)) /\ Len(parts) = SlotCount
      /\ \A k \in Slots : parts[k + 1] = part(k)
      /\ \A j \in 1..SlotCount : Len(parts[j]) <= 1
  BY <1>3, <1>4
<1>7. NonEmpty(parts, Len(parts)) = OpenSlots(s)
  BY <1>4, <1>5, <1>6 DEF NonEmpty, OpenSlots
<1> HIDE DEF parts
<1>8. /\ IsFiniteSet(OpenSlots(s)) /\ Len(FlattenSeq(parts)) = Cardinality(OpenSlots(s))
      /\ FlattenSeq(parts) \in Seq(AnItem)
  BY <1>5, <1>7, FlattenCounts, FlattenType
<1>9. ASSUME NEW k \in OpenSlots(s)
      PROVE  \E j \in DOMAIN FlattenSeq(parts) : StandsFor(FlattenSeq(parts)[j], s, k)
  <2>1. k \in Slots /\ part(k) = <<call(k)>>
    BY <1>6 DEF OpenSlots
  <2>2. call(k) \in ToSet(parts[k + 1])
    <3>1. parts[k + 1] = <<call(k)>>
      BY <1>5, <2>1
    <3>2. 1 \in DOMAIN <<call(k)>> /\ <<call(k)>>[1] = call(k)
      OBVIOUS
    <3> QED BY <3>1, <3>2 DEF ToSet
  <2>3. call(k) \in ToSet(FlattenSeq(parts))
    BY <1>4, <1>5, <2>1, <2>2, FlattenRange
  <2>4. PICK j \in DOMAIN FlattenSeq(parts) : FlattenSeq(parts)[j] = call(k)
    BY <2>3 DEF ToSet
  <2> QED BY <1>2, <2>1, <2>4
<1> QED BY <1>1, <1>8, <1>9

LEMMA OpenItemsAre ==
    ASSUME NEW s \in AState
    PROVE  /\ OpenItems(s) \in Seq(AnItem)
           /\ Len(OpenItems(s)) = Cardinality(OpenNames({}, s))
           /\ \A x \in OpenNames({}, s) : \E j \in DOMAIN OpenItems(s) : StandsFor(OpenItems(s)[j], s, x)
<1> DEFINE i == s.reasoning_output_index
           thought == Item("reasoning", i, -1, s.reasoning_content)
           reasoning == IF s.reasoning_content = <<>> THEN <<>> ELSE <<thought>>
           calls == OpenCalls(s)
           words == MessageItem(s)
           message == IF s.accumulated_text = <<>> THEN <<>> ELSE <<words>>
           R == IF s.reasoning_content = <<>> THEN {} ELSE {-2}
           C == OpenSlots(s)
           M == IF s.accumulated_text = <<>> THEN {} ELSE {-1}
           ab == reasoning \o calls
<1>1. OpenItems(s) = ab \o message
  BY DEF OpenItems
<1>2. thought \in AnItem /\ StandsFor(thought, s, -2)
  <2>1. i \in Nat /\ s.reasoning_content \in Seq(PieceType) /\ "reasoning" \in Kinds /\ -1 \in Int
    BY DEF AState, Kinds
  <2>2. thought \in AnItem
    BY <2>1, ItemIs
  <2>3. StandsFor(thought, s, -2)
    BY HandOf DEF StandsFor, Item
  <2> QED BY <2>2, <2>3
<1>3. words \in AnItem /\ StandsFor(words, s, -1)
  BY MessageItemIs, HandOf DEF StandsFor
<1>4. /\ calls \in Seq(AnItem) /\ IsFiniteSet(C) /\ Len(calls) = Cardinality(C)
      /\ \A k \in C : \E j \in DOMAIN calls : StandsFor(calls[j], s, k)
  BY OpenCallsAre
<1> HIDE DEF thought, words, calls, C
<1>5. \A it \in AnItem : <<it>> \in Seq(AnItem) /\ Len(<<it>>) = 1 /\ it \in ToSet(<<it>>)
  <2> TAKE it \in AnItem
  <2>1. 1 \in DOMAIN <<it>> /\ <<it>>[1] = it
    OBVIOUS
  <2> QED BY <2>1 DEF ToSet
<1>6. <<>> \in Seq(AnItem) /\ Len(<<>>) = 0 /\ Cardinality({}) = 0 /\ IsFiniteSet({})
  BY FS_EmptySet
<1>7. /\ reasoning \in Seq(AnItem) /\ Len(reasoning) = Cardinality(R) /\ IsFiniteSet(R)
      /\ \A x \in R : x = -2 /\ thought \in ToSet(reasoning)
  <2>1. CASE s.reasoning_content = <<>>
    <3>1. reasoning = <<>> /\ R = {}
      BY <2>1
    <3> QED BY <1>6, <3>1
  <2>2. CASE s.reasoning_content # <<>>
    <3>1. reasoning = <<thought>> /\ R = {-2}
      BY <2>2
    <3>2. IsFiniteSet({-2}) /\ Cardinality({-2}) = 1
      BY FS_Singleton
    <3> HIDE DEF reasoning, R
    <3> QED BY <1>2, <1>5, <3>1, <3>2
  <2> QED BY <2>1, <2>2
<1>8. /\ message \in Seq(AnItem) /\ Len(message) = Cardinality(M) /\ IsFiniteSet(M)
      /\ \A x \in M : x = -1 /\ words \in ToSet(message)
  <2>1. CASE s.accumulated_text = <<>>
    <3>1. message = <<>> /\ M = {}
      BY <2>1
    <3> QED BY <1>6, <3>1
  <2>2. CASE s.accumulated_text # <<>>
    <3>1. message = <<words>> /\ M = {-1}
      BY <2>2
    <3>2. IsFiniteSet({-1}) /\ Cardinality({-1}) = 1
      BY FS_Singleton
    <3> HIDE DEF message, M
    <3> QED BY <1>3, <1>5, <3>1, <3>2
  <2> QED BY <2>1, <2>2
<1>9. OpenNames({}, s) = (R \cup C) \cup M
  <2>1. \A x \in Names : x \in OpenNames({}, s) <=> Hand(s, x).open
    BY DEF OpenNames, Owned
  <2>2. -2 \in OpenNames({}, s) <=> -2 \in R
    BY <2>1, HandOf, NamesAre
  <2>3. -1 \in OpenNames({}, s) <=> -1 \in M
    BY <2>1, HandOf, NamesAre
  <2>4. \A k \in Slots : k \in OpenNames({}, s) <=> k \in C
    <3> TAKE k \in Slots
    <3>1. k \in Names
      BY NamesAre
    <3> QED BY <2>1, <3>1, SlotHand DEF C, OpenSlots
  <2>5. OpenNames({}, s) \subseteq Names /\ C \subseteq Slots
    BY DEF OpenNames, C, OpenSlots
  <2>6. R \subseteq {-2} /\ M \subseteq {-1}
    OBVIOUS
  <2> HIDE DEF R, M
  <2> QED BY <2>2, <2>3, <2>4, <2>5, <2>6, NamesAre
<1>10. R \cap C = {} /\ (R \cup C) \cap M = {}
  <2>1. C \subseteq Slots
    BY DEF C, OpenSlots
  <2>2. \A k \in Slots : k # -2 /\ k # -1
    BY DEF Slots
  <2> HIDE DEF R, M
  <2>3. R \cap C = {}
    BY <1>7, <2>1, <2>2
  <2>4. -2 # -1
    OBVIOUS
  <2> QED BY <1>7, <1>8, <2>1, <2>2, <2>3, <2>4
<1> HIDE DEF reasoning, message, R, M
<1>11. /\ ab \in Seq(AnItem) /\ Len(ab) = Len(reasoning) + Len(calls)
       /\ \A x : x \in ToSet(ab) <=> x \in ToSet(reasoning) \/ x \in ToSet(calls)
  <2>1. ab \in Seq(AnItem) /\ Len(ab) = Len(reasoning) + Len(calls)
    BY <1>4, <1>7
  <2> QED BY <1>4, <1>7, <2>1, RangeOfConcat
<1> HIDE DEF ab
<1> DEFINE all == ab \o message
<1>12. /\ all \in Seq(AnItem) /\ Len(all) = (Len(reasoning) + Len(calls)) + Len(message)
       /\ \A x : x \in ToSet(all) <=> x \in ToSet(ab) \/ x \in ToSet(message)
  <2>1. all \in Seq(AnItem) /\ Len(all) = Len(ab) + Len(message)
    BY <1>8, <1>11
  <2> QED BY <1>8, <1>11, <2>1, RangeOfConcat
<1> HIDE DEF all
<1>13. Len(all) = Cardinality((R \cup C) \cup M)
  <2>1. /\ IsFiniteSet(R \cup C) /\ Cardinality(R \cap C) = 0
        /\ Cardinality(R \cup C) = Cardinality(R) + Cardinality(C) - Cardinality(R \cap C)
    BY <1>4, <1>6, <1>7, <1>10, FS_Union
  <2>2. /\ Cardinality((R \cup C) \cap M) = 0
        /\ Cardinality((R \cup C) \cup M) =
              Cardinality(R \cup C) + Cardinality(M) - Cardinality((R \cup C) \cap M)
    BY <1>6, <1>8, <1>10, <2>1, FS_Union
  <2>3. Len(reasoning) \in Nat /\ Len(calls) \in Nat /\ Len(message) \in Nat
    BY <1>4, <1>7, <1>8
  <2> QED BY <1>4, <1>7, <1>8, <1>12, <2>1, <2>2, <2>3
<1>14. ASSUME NEW x \in OpenNames({}, s)
       PROVE  \E j \in DOMAIN all : StandsFor(all[j], s, x)
  <2> SUFFICES \E it : it \in ToSet(all) /\ StandsFor(it, s, x)
    BY DEF ToSet
  <2>1. CASE x \in R
    BY <1>2, <1>7, <1>11, <1>12, <2>1
  <2>2. CASE x \in C
    <3>1. PICK j \in DOMAIN calls : StandsFor(calls[j], s, x)
      BY <1>4, <2>2
    <3>2. calls[j] \in ToSet(calls)
      BY <3>1 DEF ToSet
    <3> QED BY <1>11, <1>12, <3>1, <3>2
  <2>3. CASE x \in M
    BY <1>3, <1>8, <1>12, <2>3
  <2> QED BY <1>9, <2>1, <2>2, <2>3
<1> QED BY <1>1, <1>9, <1>12, <1>13, <1>14 DEF all

\* What the response keeps of a stream that was cut: every item that was announced,
\* once, with what the client has of it.
KeepsEach(kept, log, n) ==
    /\ Len(kept) = n
    /\ \A i \in 1..n : \E j \in DOMAIN kept :
          /\ kept[j].index = i - 1
          /\ Shown(log)[i].kind # "custom_tool_call" => kept[j].data = Shown(log)[i].data

LEMMA StateKeepsEach ==
    ASSUME Contract, NEW base, NEW s, Sound(base, {}, s), NEW P, Whole({}, s, P)
    PROVE  KeepsEach(build_response_from_state(s), s.log, s.next_output_index)
<1> DEFINE log == s.log
           n == s.next_output_index
           done1 == s.completed_items
           open == OpenItems(s)
           kept == done1 \o open
           X == {}
<1>1. /\ s \in AState /\ Items(X, s) /\ EachIsKept(X, s) /\ Tells(log, n)
  BY SoundTells DEF Sound, Whole
<1>2. done1 \in Seq(AnItem)
  BY <1>1 DEF AState
<1>3. /\ open \in Seq(AnItem) /\ Len(open) = Cardinality(OpenNames(X, s))
      /\ \A x \in OpenNames(X, s) : \E j \in DOMAIN open : StandsFor(open[j], s, x)
  BY <1>1, OpenItemsAre
<1> HIDE DEF X
<1>4. /\ Len(done1) + Cardinality(OpenNames(X, s)) = n
      /\ \A i \in Nat : i < n => \/ \E j \in DOMAIN done1 : done1[j].index = i
                                 \/ \E x \in OpenNames(X, s) : Hand(s, x).at = i
      /\ \A j \in DOMAIN done1 : KeptRight(done1[j], log, n)
  BY <1>1 DEF EachIsKept
<1>5. ASSUME NEW x \in OpenNames(X, s)
      PROVE  OpenAt(log, Hand(s, x).at, Hand(s, x).kind, Hand(s, x).data)
  BY <1>1 DEF OpenNames, Items
<1>6. build_response_from_state(s) = kept
  BY DEF build_response_from_state
<1>7. /\ n \in Nat /\ \A i \in 1..n : Shown(log)[i] = ClientItem(log, i - 1)
                                      /\ i - 1 \in Nat /\ i - 1 < n
  BY <1>1, ShownIs
<1> HIDE DEF log, n, done1, open
<1>8. kept \in Seq(AnItem) /\ Len(kept) = Len(done1) + Len(open)
      /\ \A x : x \in ToSet(kept) <=> x \in ToSet(done1) \/ x \in ToSet(open)
  <2>1. kept \in Seq(AnItem) /\ Len(kept) = Len(done1) + Len(open)
    BY <1>2, <1>3
  <2> QED BY <1>2, <1>3, <2>1, RangeOfConcat
<1> HIDE DEF kept
<1>9. ASSUME NEW i \in 1..n
      PROVE  \E j \in DOMAIN kept :
                /\ kept[j].index = i - 1
                /\ ClientItem(log, i - 1).kind # "custom_tool_call" =>
                      kept[j].data = ClientItem(log, i - 1).data
  <2> DEFINE k == i - 1
             Good(it) == /\ it.index = k
                         /\ ClientItem(log, k).kind # "custom_tool_call" =>
                               it.data = ClientItem(log, k).data
  <2>1. k \in Nat /\ k < n
    BY <1>7
  <2> HIDE DEF k
  <2>2. PICK kind, r : Grammar(log, k, kind, r)
    BY <1>1, <2>1, GrammarOf
  <2>3. ClientItem(log, k).kind = kind /\ ClientItem(log, k).data = DeltasAt(log, k)
    <3>1. PICK final : ClientItem(log, k) = [kind |-> kind, data |-> DeltasAt(log, k),
                                             open |-> ~Ended(log, k), final |-> final]
      BY <2>2, ClientItemIs
    <3> QED BY <3>1
  <2>4. \A a \in EventsAt(log, k) : log[a].kind = kind
    BY <2>2 DEF Grammar
  <2>5. \E it : it \in ToSet(kept) /\ Good(it)
    <3>1. CASE \E j \in DOMAIN done1 : done1[j].index = k
      <4>1. PICK j \in DOMAIN done1 : done1[j].index = k
        BY <3>1
      <4>2. KeptRight(done1[j], log, n)
        BY <1>4
      <4>3. \/ \E a \in EventsAt(log, k) : log[a].kind = "custom_tool_call"
            \/ done1[j].data = DeltasAt(log, k)
        BY <4>1, <4>2 DEF KeptRight
      <4>4. Good(done1[j])
        BY <2>3, <2>4, <4>1, <4>3
      <4>5. done1[j] \in ToSet(kept)
        BY <1>8, <4>1 DEF ToSet
      <4> QED BY <4>4, <4>5
    <3>2. CASE \E x \in OpenNames(X, s) : Hand(s, x).at = k
      <4>1. PICK x \in OpenNames(X, s) : Hand(s, x).at = k
        BY <3>2
      <4>2. PICK j \in DOMAIN open : StandsFor(open[j], s, x)
        BY <1>3, <4>1
      <4>3. OpenAt(log, k, Hand(s, x).kind, Hand(s, x).data)
        BY <1>5, <4>1
      <4>4. Hand(s, x).kind = kind /\ Hand(s, x).data = DeltasAt(log, k)
        <5>1. PICK a \in EventsAt(log, k) : log[a].type = "item_added"
          BY <2>2 DEF Grammar
        <5>2. log[a].kind = Hand(s, x).kind
          BY <4>3, <5>1 DEF OpenAt, Grammar
        <5> QED BY <2>4, <4>3, <5>1, <5>2 DEF OpenAt
      <4>5. Good(open[j])
        BY <2>3, <4>1, <4>2, <4>4 DEF StandsFor
      <4>6. open[j] \in ToSet(kept)
        BY <1>8, <4>2 DEF ToSet
      <4> QED BY <4>5, <4>6
    <3> QED BY <1>4, <2>1, <3>1, <3>2
  <2>6. PICK j \in DOMAIN kept : Good(kept[j])
    <3>1. PICK it : it \in ToSet(kept) /\ Good(it)
      BY <2>5
    <3>2. PICK j \in DOMAIN kept : it = kept[j]
      BY <3>1 DEF ToSet
    <3> QED BY <3>1, <3>2
  <2> QED BY <2>6 DEF k
<1>10. Len(kept) = n
  BY <1>3, <1>4, <1>8
<1>11. KeepsEach(kept, log, n)
  BY <1>7, <1>9, <1>10 DEF KeepsEach
<1> QED BY <1>6, <1>11 DEF log, n

-----------------------------------------------------------------------------
(* The message that is kept                                                *)

Apart(a, b) == \A x : ~(x \in ToSet(a) /\ x \in ToSet(b))

LEMMA NoRepeatConcat ==
    ASSUME NEW a \in Seq(PieceType), NEW b \in Seq(PieceType)
    PROVE  NoRepeat(a \o b) <=> NoRepeat(a) /\ NoRepeat(b) /\ Apart(a, b)
<1> DEFINE ab == a \o b
<1>1. /\ DOMAIN a = 1..Len(a) /\ DOMAIN b = 1..Len(b) /\ Len(a) \in Nat /\ Len(b) \in Nat
      /\ DOMAIN ab = 1..(Len(a) + Len(b))
      /\ \A i \in 1..Len(a) : ab[i] = a[i]
      /\ \A i \in 1..Len(b) : ab[Len(a) + i] = b[i]
  OBVIOUS
<1> HIDE DEF ab
<1>2. ASSUME NoRepeat(ab) PROVE NoRepeat(a) /\ NoRepeat(b) /\ Apart(a, b)
  <2>1. NoRepeat(a)
    BY <1>1, <1>2 DEF NoRepeat
  <2>2. NoRepeat(b)
    <3> SUFFICES ASSUME NEW i \in DOMAIN b, NEW j \in DOMAIN b, i # j, b[i] = b[j] PROVE FALSE
      BY DEF NoRepeat
    <3>1. /\ Len(a) + i \in DOMAIN ab /\ Len(a) + j \in DOMAIN ab /\ Len(a) + i # Len(a) + j
          /\ ab[Len(a) + i] = b[i] /\ ab[Len(a) + j] = b[j]
      BY <1>1
    <3> QED BY <1>2, <3>1 DEF NoRepeat
  <2>3. Apart(a, b)
    <3> SUFFICES ASSUME NEW i \in DOMAIN a, NEW j \in DOMAIN b, a[i] = b[j] PROVE FALSE
      BY DEF Apart, ToSet
    <3>1. /\ i \in DOMAIN ab /\ Len(a) + j \in DOMAIN ab /\ i # Len(a) + j
          /\ ab[i] = a[i] /\ ab[Len(a) + j] = b[j]
      BY <1>1
    <3> QED BY <1>2, <3>1 DEF NoRepeat
  <2> QED BY <2>1, <2>2, <2>3
<1>3. ASSUME NoRepeat(a), NoRepeat(b), Apart(a, b) PROVE NoRepeat(ab)
  <2> SUFFICES ASSUME NEW i \in DOMAIN ab, NEW j \in DOMAIN ab, i # j, ab[i] = ab[j] PROVE FALSE
    BY DEF NoRepeat
  <2>1. ASSUME NEW k \in DOMAIN ab
        PROVE  \/ k \in DOMAIN a /\ ab[k] = a[k]
               \/ k - Len(a) \in DOMAIN b /\ ab[k] = b[k - Len(a)] /\ k \notin DOMAIN a
    <3>1. CASE k <= Len(a)
      BY <1>1, <3>1
    <3>2. CASE k > Len(a)
      <4>1. k - Len(a) \in 1..Len(b) /\ k = Len(a) + (k - Len(a))
        BY <1>1, <3>2
      <4>2. ab[k] = b[k - Len(a)]
        BY <1>1, <4>1
      <4> QED BY <1>1, <3>2, <4>1, <4>2
    <3> QED BY <1>1, <3>1, <3>2
  <2>2. \A k \in DOMAIN a, l \in DOMAIN b : a[k] # b[l]
    BY <1>3 DEF Apart, ToSet
  <2>3. i \in Int /\ j \in Int /\ Len(a) \in Int
    BY <1>1
  <2>4. i - Len(a) # j - Len(a)
    BY <2>3
  <2>5. CASE i \in DOMAIN a /\ ab[i] = a[i]
    <3>1. j \in DOMAIN a /\ ab[j] = a[j]
      BY <2>1, <2>2, <2>5
    <3> QED BY <1>3, <2>5, <3>1 DEF NoRepeat
  <2>6. CASE i - Len(a) \in DOMAIN b /\ ab[i] = b[i - Len(a)]
    <3>1. j - Len(a) \in DOMAIN b /\ ab[j] = b[j - Len(a)]
      BY <2>1, <2>2, <2>6
    <3> QED BY <1>3, <2>4, <2>6, <3>1 DEF NoRepeat
  <2> QED BY <2>1, <2>5, <2>6
<1> QED BY <1>2, <1>3 DEF ab

\* a and b share out what m has.
Splits(a, b, m) ==
    /\ a \in Seq(PieceType) /\ b \in Seq(PieceType) /\ m \in Seq(PieceType)
    /\ \A x : x \in ToSet(m) <=> x \in ToSet(a) \/ x \in ToSet(b)
    /\ NoRepeat(m) => NoRepeat(a) /\ NoRepeat(b) /\ Apart(a, b)

LEMMA SplitsSwap ==
    ASSUME NEW a, NEW b, NEW m, Splits(a, b, m)
    PROVE  Splits(b, a, m)
BY DEF Splits, Apart

LEMMA SplitsMore ==
    ASSUME NEW a, NEW b, NEW m, Splits(a, b, m), NEW d \in Seq(PieceType)
    PROVE  Splits(a \o d, b, m \o d)
<1>1. a \in Seq(PieceType) /\ b \in Seq(PieceType) /\ m \in Seq(PieceType)
  BY DEF Splits
<1>2. a \o d \in Seq(PieceType) /\ m \o d \in Seq(PieceType)
  BY <1>1
<1>3. \A x : /\ x \in ToSet(a \o d) <=> x \in ToSet(a) \/ x \in ToSet(d)
             /\ x \in ToSet(m \o d) <=> x \in ToSet(m) \/ x \in ToSet(d)
  BY <1>1, RangeOfConcat
<1>4. \A x : x \in ToSet(m) <=> x \in ToSet(a) \/ x \in ToSet(b)
  BY DEF Splits
<1>5. ASSUME NoRepeat(m \o d)
      PROVE  NoRepeat(a \o d) /\ NoRepeat(b) /\ Apart(a \o d, b)
  <2>1. NoRepeat(m) /\ NoRepeat(d) /\ Apart(m, d)
    BY <1>1, <1>5, NoRepeatConcat
  <2>2. NoRepeat(a) /\ NoRepeat(b) /\ Apart(a, b)
    BY <2>1 DEF Splits
  <2>3. Apart(a, d) /\ Apart(a \o d, b)
    BY <1>3, <1>4, <2>1, <2>2 DEF Apart
  <2>4. NoRepeat(a \o d)
    BY <1>1, <2>1, <2>2, <2>3, NoRepeatConcat
  <2> QED BY <2>2, <2>3, <2>4
<1> QED BY <1>1, <1>2, <1>3, <1>4, <1>5 DEF Splits

\* A function on 1..m is a sequence of length m.
LEMMA TableIsSeq ==
  ASSUME NEW m \in Nat, NEW S, NEW f \in [1..m -> S]
  PROVE  f \in Seq(S) /\ Len(f) = m
OBVIOUS

\* The texts that are refusals and those that are not share out the closed text.
LEMMA ClosedTextSplits ==
    ASSUME NEW s \in AState
    PROVE  Splits(ClosedText(s, FALSE), ClosedText(s, TRUE), MessageText(s.completed_items))
<1> DEFINE kept == s.completed_items
           text(it) == IF it.kind = "message" THEN it.data ELSE <<>>
           side(it, r) == IF it.kind = "message" /\ it.refused = r THEN it.data ELSE <<>>
           all == [i \in DOMAIN kept |-> text(kept[i])]
           plain == [i \in DOMAIN kept |-> side(kept[i], FALSE)]
           refused == [i \in DOMAIN kept |-> side(kept[i], TRUE)]
           n == Len(kept)
<1>1. kept \in Seq(AnItem)
  BY DEF AState
<1>2. /\ MessageText(kept) = FlattenSeq(all)
      /\ ClosedText(s, FALSE) = FlattenSeq(plain) /\ ClosedText(s, TRUE) = FlattenSeq(refused)
  BY Zenon DEF MessageText, ClosedText
<1>3. ASSUME NEW it \in AnItem
      PROVE  /\ text(it) \in Seq(PieceType)
             /\ \A r : side(it, r) \in Seq(PieceType)
             /\ \/ side(it, FALSE) = text(it) /\ side(it, TRUE) = <<>>
                \/ side(it, TRUE) = text(it) /\ side(it, FALSE) = <<>>
  <2>1. it.data \in Seq(PieceType) /\ it.refused \in BOOLEAN
    BY DEF AnItem
  <2>2. it.refused = TRUE \/ it.refused = FALSE
    BY <2>1
  <2>3. TRUE # FALSE
    OBVIOUS
  <2> QED BY <2>1, <2>2, <2>3
<1>4. n \in Nat /\ DOMAIN kept = 1..n /\ \A i \in 1..n : kept[i] \in AnItem
  BY <1>1
<1> HIDE DEF text, side, kept, n
<1>5. /\ all \in Seq(Seq(PieceType)) /\ Len(all) = n
      /\ plain \in Seq(Seq(PieceType)) /\ Len(plain) = n
      /\ refused \in Seq(Seq(PieceType)) /\ Len(refused) = n
  <2>1. /\ all \in [1..n -> Seq(PieceType)]
        /\ plain \in [1..n -> Seq(PieceType)]
        /\ refused \in [1..n -> Seq(PieceType)]
    BY <1>3, <1>4
  <2> HIDE DEF all, plain, refused
  <2> QED BY <1>4, <2>1, TableIsSeq
<1>6. \A i \in 1..n : \/ plain[i] = all[i] /\ refused[i] = <<>>
                      \/ refused[i] = all[i] /\ plain[i] = <<>>
  BY <1>3, <1>4
<1> HIDE DEF all, plain, refused
<1> DEFINE F(p, m) == FlattenSeq(Upto(p, m))
           G == {m \in Nat : m <= n => Splits(F(plain, m), F(refused, m), F(all, m))}
<1>7. 0 \in G
  <2>1. Upto(plain, 0) = <<>> /\ Upto(refused, 0) = <<>> /\ Upto(all, 0) = <<>>
    BY <1>4, <1>5, UptoIs
  <2>2. F(plain, 0) = <<>> /\ F(refused, 0) = <<>> /\ F(all, 0) = <<>>
    BY <2>1, FlattenEmpty
  <2> DEFINE none == <<>>
  <2>3. none \in Seq(PieceType) /\ DOMAIN none = {}
    OBVIOUS
  <2> HIDE DEF none
  <2>4. Splits(none, none, none)
    BY <2>3 DEF Splits, NoRepeat, Apart, ToSet
  <2> HIDE DEF F
  <2> QED BY <2>2, <2>4 DEF none
<1>8. ASSUME NEW m \in Nat, m \in G PROVE m + 1 \in G
  <2> SUFFICES ASSUME m + 1 <= n
               PROVE  Splits(F(plain, m + 1), F(refused, m + 1), F(all, m + 1))
    OBVIOUS
  <2>1. Splits(F(plain, m), F(refused, m), F(all, m))
    BY <1>4, <1>8
  <2> DEFINE d == all[m + 1]
  <2>2. /\ F(plain, m + 1) = F(plain, m) \o plain[m + 1]
        /\ F(refused, m + 1) = F(refused, m) \o refused[m + 1]
        /\ F(all, m + 1) = F(all, m) \o d /\ d \in Seq(PieceType)
        /\ F(plain, m) \in Seq(PieceType) /\ F(refused, m) \in Seq(PieceType)
    BY <1>5, FlattenUpto
  <2> HIDE DEF F, d
  <2>3. F(plain, m) \o <<>> = F(plain, m) /\ F(refused, m) \o <<>> = F(refused, m)
    BY <2>2
  <2>4. m + 1 \in 1..n
    BY <1>4
  <2>5. CASE plain[m + 1] = d /\ refused[m + 1] = <<>>
    BY <2>1, <2>2, <2>3, <2>5, SplitsMore
  <2>6. CASE refused[m + 1] = d /\ plain[m + 1] = <<>>
    <3>1. Splits(F(refused, m), F(plain, m), F(all, m))
      BY <2>1, SplitsSwap
    <3>2. Splits(F(refused, m) \o d, F(plain, m), F(all, m) \o d)
      BY <2>2, <3>1, SplitsMore
    <3>3. Splits(F(plain, m), F(refused, m) \o d, F(all, m) \o d)
      BY <3>2, SplitsSwap
    <3> QED BY <2>2, <2>3, <2>6, <3>3
  <2> QED BY <1>6, <2>4, <2>5, <2>6 DEF d
<1> HIDE DEF G
<1>9. G = Nat
  BY <1>7, <1>8, Inductive DEF G
<1>10. n \in G
  BY <1>4, <1>9
<1>11. Upto(plain, n) = plain /\ Upto(refused, n) = refused /\ Upto(all, n) = all
  BY <1>4, <1>5, UptoIs
<1>12. Splits(F(plain, n), F(refused, n), F(all, n))
  BY <1>4, <1>10 DEF G
<1> QED BY <1>2, <1>11, <1>12 DEF kept

\* The message a stream that was cut leaves has each piece once.
LEMMA MessageKeepsText ==
    ASSUME NEW s \in AState, NEW P, Whole({}, s, P), NoRepeat(P),
           NEW kept, kept = to_response_message(s).content \o to_response_message(s).refusal
    PROVE  NoRepeat(kept) /\ \A x : x \in ToSet(kept) <=> x \in ToSet(P)
<1> DEFINE a == ClosedText(s, FALSE)
           b == ClosedText(s, TRUE)
           m == MessageText(s.completed_items)
           d == s.accumulated_text
           content == IF s.has_refusal THEN a ELSE a \o d
           refusal == IF s.has_refusal THEN b \o d ELSE b
<1>1. Splits(a, b, m)
  BY ClosedTextSplits
<1>2. d \in Seq(PieceType) /\ m \o d = P /\ P \in Seq(PieceType)
  <2>1. OpenText({}, s) = d
    BY DEF OpenText
  <2> QED BY <2>1 DEF AState, Whole
<1>3. to_response_message(s).content = content /\ to_response_message(s).refusal = refusal
  BY DEF to_response_message
<1> HIDE DEF a, b, m, d
<1>4. Splits(content, refusal, P)
  <2>1. CASE s.has_refusal
    <3>1. Splits(b \o d, a, m \o d)
      BY <1>1, <1>2, SplitsSwap, SplitsMore
    <3> QED BY <1>2, <2>1, <3>1, SplitsSwap
  <2>2. CASE ~s.has_refusal
    BY <1>1, <1>2, <2>2, SplitsMore
  <2> QED BY <2>1, <2>2
<1> HIDE DEF content, refusal
<1>5. /\ content \in Seq(PieceType) /\ refusal \in Seq(PieceType)
      /\ NoRepeat(content) /\ NoRepeat(refusal) /\ Apart(content, refusal)
      /\ \A x : x \in ToSet(P) <=> x \in ToSet(content) \/ x \in ToSet(refusal)
  BY <1>4 DEF Splits
<1>6. kept = content \o refusal
  BY <1>3
<1>7. NoRepeat(kept)
  BY <1>5, <1>6, NoRepeatConcat
<1>8. \A x : x \in ToSet(kept) <=> x \in ToSet(content) \/ x \in ToSet(refusal)
  BY <1>5, <1>6, RangeOfConcat
<1> QED BY <1>5, <1>7, <1>8

-----------------------------------------------------------------------------
(* The end of the stream, and the invariant                                *)

\* The messages of a log are of indexes that were handed out.
InOrder(log, n) ==
    \A a \in DOMAIN log : log[a].kind = "message" => log[a].index \in 0..(n - 1)

\* The output of the final event, which is the last of the log.
LeavesNoneOut(log, n) ==
    \A i \in 0..(n - 1) : \E j \in DOMAIN Last(log).data : Last(log).data[j].index = i

LEMMA FinalEventLeavesNoneOut ==
    ASSUME NEW base, NEW s, Sound(base, {}, s), NEW P, Whole({}, s, P),
           NEW t, t = build_completion_events(s)
    PROVE  /\ Relays(t.log, P) /\ InOrder(t.log, t.next_output_index)
           /\ Contract => LeavesNoneOut(t.log, t.next_output_index)
<1> DEFINE u == CloseForCompletion(s)
           q == u.next_sequence_number
           items == u.completed_items \o OpenItems(u)
           e == Event(FinalStatus(u), -1, "response", items)
           x == Num(e, q)
<1>1. Sound(base, Names, u) /\ Whole(Names, u, P)
  BY CompletionCloses, CompletionIsWhole
<1>2. t = Emit(u, e)
  BY DEF build_completion_events
<1>3. e.type \notin Types /\ e.kind = "response" /\ e.data = items
  BY DEF Event, FinalStatus, Types
<1>4. x.type = e.type /\ x.kind = e.kind /\ x.data = e.data
  BY DEF Num
<1>5. InOrder(u.log, u.next_output_index)
  BY <1>1, MessagesInRange DEF InOrder
<1> HIDE DEF u, e, x
<1>6. u \in AState
  BY <1>1 DEF Sound
<1>7. t = With(u, Append(u.log, x), q + 1)
  BY <1>2, <1>6, EmitIs DEF x
<1> DEFINE log == u.log
           n == u.next_output_index
<1>8. t.log = Append(log, x) /\ t.next_output_index = n
  BY <1>6, <1>7 DEF With, AState
<1>9. log \in Seq(AnEvent) /\ IsLog(log) /\ Relays(log, P) /\ InOrder(log, n)
  <2>1. log \in Seq(AnEvent) /\ Relays(log, P)
    BY <1>1, <1>6 DEF AState, Whole
  <2> QED BY <1>5, <2>1, LogIs
<1>10. Fits(x) /\ x.kind # "message"
  BY <1>3, <1>4 DEF Fits, Types
<1> HIDE DEF log
<1>11. /\ Len(log) \in Nat /\ DOMAIN log = 1..Len(log) /\ Len(t.log) = Len(log) + 1
       /\ DOMAIN t.log = 1..(Len(log) + 1) /\ t.log[Len(log) + 1] = x
       /\ \A a \in DOMAIN log : t.log[a] = log[a]
  BY <1>8, <1>9, <1>10, AppendLog
<1>12. Relays(t.log, P)
  <2>1. Said(t.log, Int) = Said(log, Int) \o SaidBy(x, Int) /\ Said(log, Int) \in Seq(PieceType)
    BY <1>8, <1>9, <1>10, SaidAppend
  <2>2. SaidBy(x, Int) = <<>>
    BY <1>10 DEF SaidBy
  <2>3. Said(log, Int) \o <<>> = Said(log, Int)
    BY <2>1
  <2>4. Said(t.log, Int) = P
    BY <1>9, <2>1, <2>2, <2>3 DEF Relays
  <2>5. Ordered(t.log)
    BY <1>9, <1>10, <1>11 DEF Relays, Ordered
  <2> QED BY <2>4, <2>5 DEF Relays
<1>13. InOrder(t.log, n)
  BY <1>9, <1>10, <1>11 DEF InOrder
<1>14. ASSUME Contract PROVE LeavesNoneOut(t.log, n)
  <2>1. EachIsKept(Names, u)
    BY <1>1, <1>14 DEF Whole
  <2>2. OpenNames(Names, u) = {}
    BY DEF OpenNames, Owned
  <2> DEFINE done1 == u.completed_items
             open == OpenItems(u)
  <2>3. done1 \in Seq(AnItem) /\ open \in Seq(AnItem)
    BY <1>6, OpenItemsAre DEF AState
  <2>4. n \in Nat
    BY <1>6 DEF AState
  <2>5. \A i \in Nat : i < n => \E j \in DOMAIN done1 : done1[j].index = i
    BY <2>1, <2>2 DEF EachIsKept
  <2>6. Last(t.log).data = done1 \o open
    BY <1>3, <1>4, <1>11 DEF Last
  <2> HIDE DEF done1, open, n
  <2>7. \A j \in DOMAIN done1 : j \in DOMAIN (done1 \o open) /\ (done1 \o open)[j] = done1[j]
    BY <2>3
  <2>8. ASSUME NEW i \in 0..(n - 1)
        PROVE  \E j \in DOMAIN Last(t.log).data : Last(t.log).data[j].index = i
    <3>1. i \in Nat /\ i < n
      BY <2>4
    <3>2. PICK j \in DOMAIN done1 : done1[j].index = i
      BY <2>5, <3>1
    <3> QED BY <2>6, <2>7, <3>2
  <2> QED BY <2>8 DEF LeavesNoneOut
<1> QED BY <1>8, <1>12, <1>13, <1>14

\* The text that came is the text that was told, and until [DONE] the state holds all
\* of it; afterwards the final event does.
TextInv ==
    /\ Inv
    /\ Tally(sent)
    /\ Relays(ss.log, Received(sent)) /\ InOrder(ss.log, ss.next_output_index)
    /\ ~done => Whole({}, ss, Received(sent))
    /\ done /\ Contract => LeavesNoneOut(ss.log, ss.next_output_index)

LEMMA TextInvInit ==
    ASSUME Transport, Init
    PROVE  TextInv
<1>1. Inv /\ ss = NewState /\ sent = <<>> /\ done = FALSE
  BY InvInit DEF Init
<1>2. Tally(sent)
  BY <1>1, TallyStarts
<1>3. Received(sent) = <<>>
  BY <1>1, FlattenEmpty DEF Received
<1>4. Whole({}, ss, Received(sent))
  BY <1>1, <1>3, StartIsWhole
<1>5. Sound(ss.log, {}, ss)
  BY <1>1 DEF Inv
<1>6. InOrder(ss.log, ss.next_output_index)
  BY <1>4, <1>5, MessagesInRange DEF InOrder
<1> QED BY <1>1, <1>2, <1>4, <1>6 DEF TextInv, Whole

LEMMA TextInvReceive ==
    ASSUME TextInv, NEW c \in Chunks, Receive(c)
    PROVE  TextInv'
<1> DEFINE n == Len(sent) + 1
           P == Received(sent)
           t == process_chunk_value(ss, c, n)
           more == Append(sent, c)
<1>1. /\ Sound(ss.log, {}, ss) /\ CallsAreOpen /\ sent \in Seq(Chunks) /\ Len(sent) \in Nat
      /\ Whole({}, ss, P) /\ Tally(sent) /\ Inv /\ ~done
  BY DEF TextInv, Inv, Receive
<1>2. c \in Chunk /\ n \in 1..MaxChunks /\ UpstreamMaySend(c) /\ Len(sent) < MaxChunks
  BY <1>1 DEF Receive
<1>3. ss' = t /\ sent' = more /\ done' = FALSE
  BY DEF Receive
<1>4. Inv'
  BY <1>1, InvReceive
<1>5. ChunkFollows(ss, c)
  BY <1>1, <1>2, SentFollows
<1>6. Received(more) = P \o ChunkText(c, n)
  BY <1>1, <1>2, OneChunkMore
<1>7. Tally(more)
  BY <1>1, <1>2, TallyGoesOn
<1> HIDE DEF n, P, more
<1>8. Whole({}, t, P \o ChunkText(c, n))
  BY <1>1, <1>2, <1>5, ChunkIsWhole
<1>9. Whole({}, t, Received(more)) /\ t = ss'
  BY <1>3, <1>6, <1>8
<1>10. Sound(t.log, {}, t)
  BY <1>3, <1>4, <1>9 DEF Inv
<1> HIDE DEF t
<1>11. InOrder(t.log, t.next_output_index)
  BY <1>9, <1>10, MessagesInRange DEF InOrder
<1>12. Relays(t.log, Received(more))
  BY <1>9 DEF Whole
<1> QED BY <1>3, <1>4, <1>7, <1>9, <1>11, <1>12 DEF TextInv

LEMMA TextInvReceiveDone ==
    ASSUME TextInv, ReceiveDone
    PROVE  TextInv'
<1>1. /\ Sound(ss.log, {}, ss) /\ Whole({}, ss, Received(sent)) /\ Tally(sent) /\ Inv
  BY DEF TextInv, Inv, ReceiveDone
<1>2. ss' = build_completion_events(ss) /\ sent' = sent /\ done' = TRUE
  BY DEF ReceiveDone
<1>3. Inv'
  BY <1>1, InvReceiveDone
<1>4. /\ Relays(ss'.log, Received(sent)) /\ InOrder(ss'.log, ss'.next_output_index)
      /\ Contract => LeavesNoneOut(ss'.log, ss'.next_output_index)
  BY <1>1, <1>2, FinalEventLeavesNoneOut
<1> QED BY <1>1, <1>2, <1>3, <1>4 DEF TextInv

LEMMA TextInvHolds ==
    ASSUME Transport
    PROVE  Spec => []TextInv
<1>1. Init => TextInv
  BY TextInvInit
<1>2. TextInv /\ [Next]_vars => TextInv'
  <2>1. ASSUME TextInv, UNCHANGED vars PROVE TextInv'
    <3>1. ss' = ss /\ sent' = sent /\ done' = done /\ Inv'
      BY <2>1, InvStutters DEF vars, TextInv
    <3> QED BY <2>1, <3>1 DEF TextInv
  <2> QED BY <2>1, TextInvReceive, TextInvReceiveDone DEF Next
<1> QED BY <1>1, <1>2, PTL DEF Spec

\* Whatever the text of a stream is interleaved with, and however often its message is
\* closed and opened again (streaming.rs: emit_text_delta, emit_refusal_delta and the
\* transitions of process_chunk_value), the client's messages, in the order of their
\* indexes, have each piece of text and each piece of refusal once and in its order.
THEOREM TextReachesTheClient ==
    ASSUME Transport
    PROVE  Spec => []TextIsRelayed
<1>1. TextInv => TextIsRelayed
  <2> SUFFICES ASSUME TextInv PROVE TextIsRelayed
    OBVIOUS
  <2> DEFINE P == Received(sent)
             shown == Shown(ss.log)
  <2>1. ClientItems = shown
    BY DEF ClientItems, Shown
  <2>2. Tells(ss.log, ss.next_output_index) /\ Relays(ss.log, P)
    BY DEF TextInv, Inv
  <2>3. MessageText(shown) = P
    BY <2>2, ShownText DEF TextInv, InOrder
  <2>4. Texts(sent) = Only("text", P) /\ Refusals(sent) = Only("refusal", P)
    BY DEF TextInv, Tally
  <2> HIDE DEF P, shown
  <2>5. MessageText(ClientItems) = P
    BY <2>1, <2>3
  <2> QED BY <2>4, <2>5, TextsSent DEF TextIsRelayed
<1>2. Spec => []TextInv
  BY TextInvHolds
<1> QED BY <1>1, <1>2, PTL

\* A stream that is cut at any chunk leaves a response with every announced item once,
\* each with what the client saw of it (streaming.rs: build_response_from_state), and a
\* message with every piece of text (to_response_message); the final event of one that
\* is not cut leaves out no item (build_completion_events).
THEOREM NothingAnnouncedIsLost ==
    ASSUME Transport, Contract
    PROVE  Spec => []PersistedIsWhole
<1>1. TextInv => PersistedIsWhole
  <2> SUFFICES ASSUME TextInv PROVE PersistedIsWhole
    OBVIOUS
  <2> DEFINE P == Received(sent)
             n == ss.next_output_index
             m == to_response_message(ss)
             kept == m.content \o m.refusal
  <2>1. ASSUME ~done PROVE Sound(ss.log, {}, ss) /\ Whole({}, ss, P) /\ ss \in AState
    BY <2>1 DEF TextInv, Inv, Sound
  <2>2. PartialStateKeepsItems
    <3> SUFFICES ASSUME ~done
                 PROVE  LET all == build_response_from_state(ss)
                        IN  /\ Len(all) = n
                            /\ \A i \in 1..n : \E j \in DOMAIN all :
                                  /\ all[j].index = i - 1
                                  /\ ClientItems[i].kind # "custom_tool_call" =>
                                        all[j].data = ClientItems[i].data
      BY DEF PartialStateKeepsItems
    <3>1. KeepsEach(build_response_from_state(ss), ss.log, n)
      BY <2>1, StateKeepsEach
    <3>2. ClientItems = Shown(ss.log)
      BY DEF ClientItems, Shown
    <3> QED BY <3>1, <3>2 DEF KeepsEach
  <2>3. PartialMessageKeepsText
    <3> SUFFICES ASSUME ~done
                 PROVE  /\ NoRepeat(kept)
                        /\ ToSet(kept) = ToSet(Texts(sent)) \cup ToSet(Refusals(sent))
      BY TextsSent DEF PartialMessageKeepsText, NoRepeat
    <3>1. /\ P \in Seq(PieceType) /\ NoRepeat(P)
          /\ Texts(sent) = Only("text", P) /\ Refusals(sent) = Only("refusal", P)
          /\ \A a \in DOMAIN P : P[a].kind \in {"text", "refusal"}
      BY DEF TextInv, Tally
    <3> HIDE DEF P, m
    <3>2. NoRepeat(kept) /\ \A x : x \in ToSet(kept) <=> x \in ToSet(P)
      <4> HIDE DEF kept
      <4>1. kept = to_response_message(ss).content \o to_response_message(ss).refusal
        BY DEF kept, m
      <4> QED BY <2>1, <3>1, <4>1, MessageKeepsText
    <3>3. \A x : x \in ToSet(P) => x.kind \in {"text", "refusal"}
      BY <3>1 DEF ToSet
    <3>4. \A x : /\ x \in ToSet(Texts(sent)) <=> x \in ToSet(P) /\ x.kind = "text"
                 /\ x \in ToSet(Refusals(sent)) <=> x \in ToSet(P) /\ x.kind = "refusal"
      BY <3>1, OnlyRange
    <3> HIDE DEF kept
    <3>5. \A x : x \in ToSet(kept) <=> x \in ToSet(Texts(sent)) \/ x \in ToSet(Refusals(sent))
      BY <3>2, <3>3, <3>4
    <3> QED BY <3>2, <3>5
  <2>4. FinalOutputKeepsItems
    BY DEF TextInv, LeavesNoneOut, FinalOutputKeepsItems, FinalOutput
  <2> QED BY <2>2, <2>3, <2>4 DEF PersistedIsWhole
<1>2. Spec => []TextInv
  BY TextInvHolds
<1> QED BY <1>1, <1>2, PTL
=============================================================================
