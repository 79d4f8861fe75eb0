-------------------------- MODULE ConversationProof --------------------------
(***************************************************************************)
(* What a chain of turns sends upstream, for every number of turns, every  *)
(* reply and all limits: the last instructions and the last tools, no      *)
(* answer of a tool without its call, and, unless messages are limited,    *)
(* all that was said.                                                      *)
(***************************************************************************)
EXTENDS Conversation, SequenceLemmas, FiniteSetTheorems

USE ChatMessagesAssumption, ConversationAssumption

-----------------------------------------------------------------------------
(* Types                                                                   *)

InputKind == Kind \ {"instructions", "prompt"}
PlainKind == Kind \ {"instructions"}
Role == {"system", "user", "assistant", "tool"}

AnInput == [kind : InputKind, turn : Nat, call : Nat \X Nat]
APlain == [kind : PlainKind, turn : Nat, call : Nat \X Nat]
AnItem == [kind : Kind, turn : Nat, call : Nat \X Nat]
AMessage == [role : Role, body : Seq(AnItem), cut : BOOLEAN]
PlainMessage == [role : Role, body : Seq(APlain), cut : BOOLEAN]

\* A message with instructions: the first one, if there is one.
Instructing(message) ==
    message \in AMessage /\ message.role = "system" /\ Len(message.body) = 1

Headed(ms) ==
    /\ ms \in Seq(AMessage)
    /\ \A i \in 1..Len(ms) : ms[i] \in PlainMessage \/ (i = 1 /\ Instructing(ms[1]))

Opens(ms, item) == ms # <<>> /\ ms[1].role = "system" /\ ms[1].body = <<item>>

Pc == {"none", "convert", "first_put", "upstream", "put_tools", "put", "over", "failed"}

ATurn == [pc : Pc, mode : Mode, prev : Nat, given : Seq(AnItem), new : Seq(AnInput),
          input : Seq(AnInput), tools : Nat, sent : Seq(AMessage), reply : Seq(AnInput),
          said : Seq(AnInput), expected : Nat, whole : BOOLEAN]

AClient == [style : Style, last : Nat, known : Seq(AnInput), calls : Seq(AnInput),
            tools : Nat, waiting : Nat]

-----------------------------------------------------------------------------
(* The invariant                                                           *)

\* Of each turn: its fields, and what it asks with.
TurnIsTyped(n, t) ==
    /\ t \in ATurn
    /\ t.pc = "none" <=> n > count
    /\ t.prev \in 0..(n - 1) /\ t.tools \in 0..n /\ t.expected \in 0..n
    /\ t.given \in {<<>>, <<Item("instructions", n)>>}
    /\ Headed(t.sent)
    /\ t.pc \in {"first_put", "upstream"} /\ t.mode \notin Compacting /\ t.given # <<>> =>
          Opens(t.sent, Item("instructions", n))

Typed ==
    /\ count \in 0..MaxTurns /\ budget \in Budgets
    /\ client \in AClient
    /\ client.last \in 0..count /\ client.tools \in 0..count
    /\ client.waiting # 0 => client.waiting = count /\ client.last < count
    /\ DOMAIN turns = Turns /\ \A n \in Turns : TurnIsTyped(n, turns[n])
    /\ DOMAIN store = Turns
    /\ \A n \in Turns : store[n] = Missing \/ Headed(store[n])
    /\ DOMAIN registry = Turns /\ \A n \in Turns : registry[n] \in 0..n

\* The turn has yet to tell the client its id.
Pending(t) ==
    \/ t.pc \in {"convert", "first_put"}
    \/ t.pc = "upstream" /\ t.mode # "background"
    \/ t.pc \in {"put_tools", "put"} /\ t.mode \in {"whole", "compaction"}

\* The turns that are over and passed no tools on.
Gone == {m \in Turns : turns[m].mode \in Toolless /\ turns[m].pc = "over"}

\* Tools that turn m declared, or have been declared before: gone at turn n.
GoneSince(m, n, gone) == \E k \in gone : m <= k /\ k < n

\* What a turn does with tools, from what it is asked to what it puts: of turn
\* n, what it put, the client, and the turns that passed none on.
TurnHasTools(n, t, tools, history, c, gone) ==
    /\ t.pc = "convert" =>
          IF t.prev = 0 \/ t.tools # 0 THEN t.tools = t.expected
          ELSE t.prev = c.last /\ t.expected = c.tools
    /\ t.pc \in {"first_put", "upstream", "put_tools", "put"} /\ t.whole
          /\ t.mode \notin Compacting =>
             \/ t.tools = t.expected
             \/ t.tools = 0 /\ t.prev # 0 /\ GoneSince(t.expected, n, gone)
    /\ t.pc = "put" /\ t.mode \notin Toolless => tools = t.tools
    /\ t.pc = "put_tools" => t.mode \notin Toolless
    /\ t.pc = "first_put" => t.mode = "background"
    /\ t.mode \in Toolless \/ t.pc = "none" => tools = 0
    /\ t.mode = "background" /\ t.pc # "none" => c.style = "stored"
    /\ t.pc \notin {"over", "failed"} /\ (t.mode = "background" => t.pc = "none")
          => history = Missing
    /\ Pending(t) => c.waiting = n

\* What turn n has left to the next, of the tools the client declared last.
LeavesTools(n, t, tools, history, taken, gone) ==
    /\ t.pc \in {"upstream", "put_tools", "put"} => taken = t.expected
    /\ t.pc = "over" /\ history # Missing /\ Complete(t) =>
          tools = taken \/ (tools = 0 /\ GoneSince(taken, n + 1, gone))

TurnsHaveTools ==
    \A n \in Turns : TurnHasTools(n, turns[n], registry[n], store[n], client, Gone)

ClientHasTools ==
    client.last # 0 =>
        LeavesTools(client.last, turns[client.last], registry[client.last],
                    store[client.last], client.tools, Gone)

Inv == Typed /\ TurnsHaveTools /\ ClientHasTools

\* h is what a walk began with: ms goes on after it, by messages without
\* instructions.
Keeps(h, ms) ==
    /\ ms \in Seq(AMessage)
    /\ \A i \in 1..Len(ms) : ms[i] \in PlainMessage \/ (i = 1 /\ h # <<>> /\ ms[1] = h[1])
    /\ h # <<>> => ms # <<>> /\ ms[1] = h[1]

-----------------------------------------------------------------------------
(* Items and messages                                                      *)

LEMMA InputIsPlain == AnInput \subseteq APlain /\ APlain \subseteq AnItem
BY DEF AnInput, APlain, AnItem, InputKind, PlainKind

LEMMA PlainIsMessage == PlainMessage \subseteq AMessage
<1>1. Seq(APlain) \subseteq Seq(AnItem)
  BY InputIsPlain
<1> QED BY <1>1 DEF PlainMessage, AMessage

LEMMA MessageIsPlain ==
    ASSUME NEW role \in Role, NEW body \in Seq(APlain)
    PROVE  Message(role, body) \in PlainMessage
BY DEF Message, PlainMessage

LEMMA SystemIsPlain ==
    ASSUME NEW item \in APlain
    PROVE  System(item) \in PlainMessage
<1>1. <<item>> \in Seq(APlain)
  OBVIOUS
<1>2. "system" \in Role
  BY DEF Role
<1> QED BY <1>1, <1>2, MessageIsPlain DEF System

LEMMA ToolIsPlain ==
    ASSUME NEW item \in APlain, NEW old \in BOOLEAN
    PROVE  Tool(item, old) \in PlainMessage
<1> DEFINE m == Message("tool", <<item>>)
<1>1. m \in PlainMessage
  <2>1. <<item>> \in Seq(APlain) /\ "tool" \in Role
    BY DEF Role
  <2> QED BY <2>1, MessageIsPlain
<1> HIDE DEF m
<1>2. [m EXCEPT !.cut = old] \in PlainMessage
  BY <1>1 DEF PlainMessage
<1> QED BY <1>2 DEF Tool, m

LEMMA SystemInstructs ==
    ASSUME NEW item \in AnItem
    PROVE  Instructing(System(item)) /\ Opens(<<System(item)>>, item)
<1>1. <<item>> \in Seq(AnItem) /\ Len(<<item>>) = 1
  OBVIOUS
<1>2. System(item) \in AMessage
  BY <1>1 DEF System, Message, AMessage, Role
<1> QED BY <1>1, <1>2 DEF Instructing, Opens, System, Message

\* A selection from a sequence is a sequence of the same kind.
LEMMA OfKindType ==
    ASSUME NEW S, NEW s \in Seq(S), NEW kind
    PROVE  OfKind(kind, s) \in Seq(S)
<1> DEFINE parts == [i \in DOMAIN s |-> IF s[i].kind = kind THEN <<s[i]>> ELSE <<>>]
<1>1. \A i \in 1..Len(s) : (IF s[i].kind = kind THEN <<s[i]>> ELSE <<>>) \in Seq(S)
  OBVIOUS
<1>2. parts \in Seq(Seq(S))
  <2>1. parts \in [1..Len(s) -> Seq(S)]
    BY <1>1
  <2> HIDE DEF parts
  <2> QED BY <2>1
<1> HIDE DEF parts
<1>3. FlattenSeq(parts) \in Seq(S)
  BY <1>2, FlattenType
<1> QED BY <1>3 DEF OfKind, parts

-----------------------------------------------------------------------------
(* What a walk keeps                                                       *)

LEMMA KeepsItself ==
    ASSUME NEW h, Headed(h)
    PROVE  Keeps(h, h)
<1>1. \A i \in 1..Len(h) : h # <<>>
  BY DEF Headed
<1> QED BY <1>1 DEF Headed, Keeps

LEMMA KeepsNothing == Headed(<<>>) /\ Keeps(<<>>, <<>>)
BY DEF Headed, Keeps

LEMMA KeptIsHeaded ==
    ASSUME NEW h, Headed(h), NEW ms, Keeps(h, ms)
    PROVE  Headed(ms)
<1>1. h # <<>> => h[1] \in PlainMessage \/ Instructing(h[1])
  <2>1. h # <<>> => 1 \in 1..Len(h)
    BY DEF Headed
  <2> QED BY <2>1 DEF Headed
<1> QED BY <1>1 DEF Headed, Keeps

LEMMA KeptOpens ==
    ASSUME NEW h, NEW ms, Keeps(h, ms), NEW item, Opens(h, item)
    PROVE  Opens(ms, item)
BY DEF Keeps, Opens

LEMMA KeptPlain ==
    ASSUME NEW ms, Keeps(<<>>, ms)
    PROVE  ms \in Seq(PlainMessage)
BY DEF Keeps

\* More plain messages at the end.
LEMMA KeepsConcat ==
    ASSUME NEW h, NEW ms, Keeps(h, ms), NEW more \in Seq(PlainMessage)
    PROVE  Keeps(h, ms \o more)
<1>1. ms \in Seq(AMessage) /\ more \in Seq(AMessage)
  BY PlainIsMessage DEF Keeps
<1>2. /\ ms \o more \in Seq(AMessage) /\ Len(ms \o more) = Len(ms) + Len(more)
      /\ \A i \in 1..Len(ms) : (ms \o more)[i] = ms[i]
      /\ \A i \in (Len(ms) + 1)..(Len(ms) + Len(more)) : (ms \o more)[i] = more[i - Len(ms)]
      /\ \A i \in (Len(ms) + 1)..(Len(ms) + Len(more)) : i - Len(ms) \in 1..Len(more)
  BY <1>1
<1>3. ms # <<>> => ms \o more # <<>> /\ 1 \in 1..Len(ms)
  BY <1>1
<1> DEFINE all == ms \o more
<1>4. \A i \in (Len(ms) + 1)..(Len(ms) + Len(more)) : all[i] \in PlainMessage
  BY <1>2
<1> HIDE DEF all
<1>5. \A i \in 1..Len(all) : all[i] \in PlainMessage \/ (i = 1 /\ h # <<>> /\ all[1] = h[1])
  BY <1>1, <1>2, <1>4 DEF Keeps, all
<1> QED BY <1>2, <1>3, <1>5 DEF Keeps, all

LEMMA KeepsAppend ==
    ASSUME NEW h, NEW ms, Keeps(h, ms), NEW m \in PlainMessage
    PROVE  Keeps(h, Append(ms, m))
<1> DEFINE one == <<m>>
<1>1. one \in Seq(PlainMessage)
  OBVIOUS
<1>2. Append(ms, m) = ms \o one
  BY DEF Keeps
<1> HIDE DEF one
<1>3. Keeps(h, ms \o one)
  BY <1>1, KeepsConcat
<1> QED BY <1>2, <1>3

\* What is headed stays so with plain messages after it.
LEMMA HeadedConcat ==
    ASSUME NEW ms, Headed(ms), NEW more \in Seq(PlainMessage)
    PROVE  Headed(ms \o more)
BY KeepsItself, KeepsConcat, KeptIsHeaded

LEMMA PlainIsHeaded ==
    ASSUME NEW ms \in Seq(PlainMessage)
    PROVE  Headed(ms)
<1>1. ms \in Seq(AMessage)
  BY PlainIsMessage
<1> QED BY <1>1 DEF Headed

-----------------------------------------------------------------------------
(* The walk over the items of a request                                    *)

AWalk == [messages : Seq(AMessage), deferred : Seq(PlainMessage),
          calls : Seq(APlain), reasoning : Seq(APlain)]

\* The states that a walk which began with h can be in.
Walks(h) == {w \in AWalk : Keeps(h, w.messages)}

LEMMA WalkFields ==
    ASSUME NEW h, NEW w \in Walks(h)
    PROVE  /\ w \in AWalk /\ Keeps(h, w.messages)
           /\ w.messages \in Seq(AMessage) /\ w.deferred \in Seq(PlainMessage)
           /\ w.calls \in Seq(APlain) /\ w.reasoning \in Seq(APlain)
BY DEF Walks, AWalk

LEMMA WalkMessages ==
    ASSUME NEW h, NEW w \in Walks(h), NEW ms, Keeps(h, ms)
    PROVE  /\ [w EXCEPT !.messages = ms] \in Walks(h)
           /\ [w EXCEPT !.messages = ms, !.reasoning = <<>>] \in Walks(h)
           /\ [w EXCEPT !.messages = ms, !.calls = <<>>, !.reasoning = <<>>] \in Walks(h)
           /\ [w EXCEPT !.messages = ms, !.deferred = <<>>] \in Walks(h)
<1>1. /\ ms \in Seq(AMessage) /\ <<>> \in Seq(APlain) /\ <<>> \in Seq(PlainMessage)
      /\ w \in AWalk
  BY DEF Keeps, Walks
<1>2. [w EXCEPT !.messages = ms] \in Walks(h)
  BY <1>1 DEF Walks, AWalk
<1>3. [w EXCEPT !.messages = ms, !.reasoning = <<>>] \in Walks(h)
  BY <1>1 DEF Walks, AWalk
<1>4. [w EXCEPT !.messages = ms, !.calls = <<>>, !.reasoning = <<>>] \in Walks(h)
  BY <1>1 DEF Walks, AWalk
<1>5. [w EXCEPT !.messages = ms, !.deferred = <<>>] \in Walks(h)
  BY <1>1 DEF Walks, AWalk
<1> QED BY <1>2, <1>3, <1>4, <1>5

LEMMA WalkCalls ==
    ASSUME NEW h, NEW w \in Walks(h), NEW items \in Seq(APlain)
    PROVE  /\ [w EXCEPT !.calls = items] \in Walks(h)
           /\ [w EXCEPT !.reasoning = items] \in Walks(h)
<1>1. [w EXCEPT !.calls = items] \in Walks(h)
  BY DEF Walks, AWalk
<1>2. [w EXCEPT !.reasoning = items] \in Walks(h)
  BY DEF Walks, AWalk
<1> QED BY <1>1, <1>2

LEMMA WalkDeferred ==
    ASSUME NEW h, NEW w \in Walks(h), NEW ms \in Seq(PlainMessage)
    PROVE  [w EXCEPT !.deferred = ms] \in Walks(h)
BY DEF Walks, AWalk

LEMMA FlushWalks ==
    ASSUME NEW h, NEW w \in Walks(h)
    PROVE  flush(w) \in Walks(h)
<1> DEFINE m == Message("assistant", w.reasoning \o w.calls)
           ms == Append(w.messages, m)
<1>1. w.reasoning \o w.calls \in Seq(APlain) /\ "assistant" \in Role
  BY WalkFields, ConcatProperties DEF Role
<1>2. m \in PlainMessage
  BY <1>1, MessageIsPlain
<1> HIDE DEF m
<1>3. Keeps(h, ms)
  BY <1>2, WalkFields, KeepsAppend
<1> HIDE DEF ms
<1>4. [w EXCEPT !.messages = ms, !.calls = <<>>, !.reasoning = <<>>] \in Walks(h)
  BY <1>3, WalkMessages
<1>5. flush(w) = IF w.calls = <<>> THEN w
                 ELSE [w EXCEPT !.messages = ms, !.calls = <<>>, !.reasoning = <<>>]
  BY DEF flush, ms, m
<1> QED BY <1>4, <1>5

LEMMA SettleWalks ==
    ASSUME NEW h, NEW w \in Walks(h)
    PROVE  settle(w) \in Walks(h)
<1> DEFINE f == flush(w)
           ms == f.messages \o f.deferred
<1>1. f \in Walks(h)
  BY FlushWalks
<1>2. Keeps(h, ms)
  <2>1. Keeps(h, f.messages) /\ f.deferred \in Seq(PlainMessage)
    BY <1>1, WalkFields
  <2> QED BY <2>1, KeepsConcat
<1>3. settle(w) = [f EXCEPT !.messages = ms, !.deferred = <<>>]
  BY DEF settle
<1> HIDE DEF f, ms
<1>4. [f EXCEPT !.messages = ms, !.deferred = <<>>] \in Walks(h)
  BY <1>1, <1>2, WalkMessages
<1> QED BY <1>3, <1>4

LEMMA WalkWalks ==
    ASSUME NEW h, NEW w \in Walks(h), NEW item \in AnInput, NEW old \in BOOLEAN
    PROVE  walk(w, item, old) \in Walks(h)
<1> DEFINE s == settle(w)
<1>1. s \in Walks(h)
  BY SettleWalks
<1>2. item \in APlain
  BY InputIsPlain
<1>3. /\ s.messages \in Seq(AMessage) /\ Keeps(h, s.messages)
      /\ s.reasoning \in Seq(APlain)
  BY <1>1, WalkFields
<1>4. w.calls \in Seq(APlain) /\ w.deferred \in Seq(PlainMessage)
  BY WalkFields
<1>5. item.kind \in {"user", "reasoning", "text", "call", "output", "summary"}
  BY DEF AnInput, InputKind, Kind
<1>6. CASE item.kind = "call"
  <2> DEFINE calls == Append(w.calls, item)
  <2>1. calls \in Seq(APlain)
    BY <1>2, <1>4
  <2>2. walk(w, item, old) = [w EXCEPT !.calls = calls]
    BY <1>6 DEF walk
  <2> HIDE DEF calls
  <2>3. [w EXCEPT !.calls = calls] \in Walks(h)
    BY <2>1, WalkCalls
  <2> QED BY <2>2, <2>3
<1>7. CASE item.kind = "output"
  <2> DEFINE deferred == Append(w.deferred, Tool(item, old))
  <2>1. deferred \in Seq(PlainMessage)
    BY <1>2, <1>4, ToolIsPlain
  <2>2. walk(w, item, old) = [w EXCEPT !.deferred = deferred]
    BY <1>7 DEF walk
  <2> HIDE DEF deferred
  <2> QED BY <2>1, <2>2, WalkDeferred
<1> HIDE DEF s
<1>8. CASE item.kind = "reasoning"
  <2> DEFINE reasoning == IF Contains(s.reasoning, item) THEN s.reasoning
                          ELSE Append(s.reasoning, item)
  <2>1. reasoning \in Seq(APlain)
    BY <1>2, <1>3
  <2>2. walk(w, item, old) = [s EXCEPT !.reasoning = reasoning]
    BY <1>8 DEF walk, s
  <2> HIDE DEF reasoning
  <2>3. [s EXCEPT !.reasoning = reasoning] \in Walks(h)
    BY <1>1, <2>1, WalkCalls
  <2> QED BY <2>2, <2>3
<1>9. CASE item.kind = "text"
  <2> DEFINE body == Append(s.reasoning, item)
             ms == Append(s.messages, Message("assistant", body))
  <2>1. body \in Seq(APlain) /\ "assistant" \in Role
    BY <1>2, <1>3 DEF Role
  <2> HIDE DEF body
  <2>2. Keeps(h, ms)
    BY <1>3, <2>1, MessageIsPlain, KeepsAppend
  <2>3. walk(w, item, old) = [s EXCEPT !.messages = ms]
    BY <1>9 DEF walk, s, body
  <2> HIDE DEF ms
  <2>4. [s EXCEPT !.messages = ms] \in Walks(h)
    BY <1>1, <2>2, WalkMessages
  <2> QED BY <2>3, <2>4
<1>10. CASE item.kind = "user"
  <2> DEFINE body == <<item>>
             ms == Append(s.messages, Message("user", body))
  <2>1. body \in Seq(APlain) /\ "user" \in Role
    BY <1>2 DEF Role
  <2>2. walk(w, item, old) = [s EXCEPT !.messages = ms, !.reasoning = <<>>]
    BY <1>10 DEF walk, s
  <2> HIDE DEF body
  <2>3. Keeps(h, ms)
    BY <1>3, <2>1, MessageIsPlain, KeepsAppend
  <2> HIDE DEF ms
  <2>4. [s EXCEPT !.messages = ms, !.reasoning = <<>>] \in Walks(h)
    BY <1>1, <2>3, WalkMessages
  <2> QED BY <2>2, <2>4
<1>11. CASE item.kind = "summary"
  <2> DEFINE ms == Append(s.messages, System(item))
  <2>1. Keeps(h, ms)
    BY <1>2, <1>3, SystemIsPlain, KeepsAppend
  <2>2. walk(w, item, old) = IF HasKey THEN [s EXCEPT !.messages = ms] ELSE s
    BY <1>11 DEF walk, s
  <2> HIDE DEF ms
  <2>3. [s EXCEPT !.messages = ms] \in Walks(h)
    BY <1>1, <2>1, WalkMessages
  <2> QED BY <1>1, <2>2, <2>3
<1> QED BY <1>5, <1>6, <1>7, <1>8, <1>9, <1>10, <1>11

\* The steps of a walk over items that begins with h.
WalksAlong(walked, h, items) ==
    /\ \A i \in 0..Len(items) : walked[i] \in Walks(h)
    /\ walked[0] = [messages |-> h, deferred |-> <<>>, calls |-> <<>>, reasoning |-> <<>>]
    /\ \A i \in 1..Len(items) : \E old \in BOOLEAN :
          walked[i] = walk(walked[i - 1], items[i], old)

\* The walk goes on, item by item, from its start.
LEMMA AppendItemsWalks ==
    ASSUME NEW h, Headed(h), NEW items \in Seq(AnInput)
    PROVE  \E walked : /\ WalksAlong(walked, h, items)
                       /\ append_items(h, items) = settle(walked[Len(items)]).messages
<1> DEFINE cutoff == old_tool_output_cutoff(items)
           start == [messages |-> h, deferred |-> <<>>, calls |-> <<>>, reasoning |-> <<>>]
           n == Len(items)
           Solves(f) == f = [i \in 0..n |-> IF i = 0 THEN start
                                            ELSE walk(f[i - 1], items[i], i < cutoff)]
           walked == CHOOSE f : Solves(f)
<1>1. start \in Walks(h)
  <2>1. h \in Seq(AMessage) /\ <<>> \in Seq(PlainMessage) /\ <<>> \in Seq(APlain)
    BY DEF Headed
  <2>2. Keeps(h, h)
    BY KeepsItself
  <2> QED BY <2>1, <2>2 DEF Walks, AWalk
<1>2. n \in Nat /\ \A i \in 1..n : items[i] \in AnInput
  OBVIOUS
<1>3. \A i \in 1..n : \A w \in Walks(h) : walk(w, items[i], i < cutoff) \in Walks(h)
  <2> TAKE i \in 1..n
  <2> TAKE w \in Walks(h)
  <2>1. (i < cutoff) \in BOOLEAN
    OBVIOUS
  <2>2. items[i] \in AnInput
    BY <1>2
  <2> QED BY <2>1, <2>2, WalkWalks
<1> HIDE DEF cutoff, start, n
<1>4. \E f : Solves(f)
  <2> DEFINE st == [p \in (1..n) \X Walks(h) |-> walk(p[2], items[p[1]], p[1] < cutoff)]
  <2>1. st \in [(1..n) \X Walks(h) -> Walks(h)]
    BY <1>3
  <2>2. \A i \in 1..n : \A w \in Walks(h) : st[<<i, w>>] = walk(w, items[i], i < cutoff)
    OBVIOUS
  <2> HIDE DEF st
  <2> DEFINE D == Walks(h)
  <2>3. \E f : Recurses(f, n, D, start, st)
    <3>1. n \in Nat /\ start \in D /\ st \in [(1..n) \X D -> D]
      BY <1>1, <1>2, <2>1
    <3> HIDE DEF D
    <3> QED BY <3>1, RecursionExists
  <2>4. PICK f \in [0..n -> D] : f[0] = start /\ \A i \in 1..n : f[i] = st[<<i, f[i - 1]>>]
    BY <2>3 DEF Recurses
  <2>5. \A i \in 0..n : f[i] = IF i = 0 THEN start ELSE walk(f[i - 1], items[i], i < cutoff)
    <3>1. f[0] = start
      BY <2>4
    <3>2. ASSUME NEW i \in 1..n PROVE f[i] = walk(f[i - 1], items[i], i < cutoff)
      <4>1. f[i] = st[<<i, f[i - 1]>>]
        BY <2>4
      <4>2. f[i - 1] \in Walks(h)
        BY <1>2, <2>4
      <4> QED BY <2>2, <4>1, <4>2
    <3> QED BY <1>2, <3>1, <3>2
  <2> DEFINE g == [i \in 0..n |-> IF i = 0 THEN start
                                  ELSE walk(f[i - 1], items[i], i < cutoff)]
  <2>6. f = g
    <3>1. DOMAIN f = 0..n /\ f = [i \in 0..n |-> f[i]]
      BY <2>4
    <3> QED BY <2>5, <3>1, Zenon
  <2> QED BY <2>6, Zenon
<1>5. Solves(walked)
  BY <1>4, Zenon
<1>6. \A i \in 0..n : walked[i] = IF i = 0 THEN start
                                  ELSE walk(walked[i - 1], items[i], i < cutoff)
  <2> DEFINE g == [i \in 0..n |-> IF i = 0 THEN start
                                  ELSE walk(walked[i - 1], items[i], i < cutoff)]
  <2> TAKE i \in 0..n
  <2>1. walked = g
    BY <1>5, Zenon
  <2>2. g[i] = IF i = 0 THEN start ELSE walk(walked[i - 1], items[i], i < cutoff)
    BY Zenon
  <2> HIDE DEF g
  <2> QED BY <2>1, <2>2, Zenon
<1>7. append_items(h, items) = settle(walked[n]).messages
  BY DEF append_items, walked, Solves, n, start, cutoff
<1> HIDE DEF walked, Solves
<1> DEFINE G == {i \in Nat : i <= n => walked[i] \in Walks(h)}
<1>8. 0 \in G
  BY <1>1, <1>2, <1>6
<1>9. \A i \in Nat : i \in G => i + 1 \in G
  BY <1>2, <1>3, <1>6
<1> HIDE DEF G
<1>10. G = Nat
  BY <1>8, <1>9, Inductive DEF G
<1>11. \A i \in 0..n : walked[i] \in Walks(h)
  BY <1>2, <1>10 DEF G
<1>12. \A i \in 1..n : \E old \in BOOLEAN : walked[i] = walk(walked[i - 1], items[i], old)
  <2> TAKE i \in 1..n
  <2>1. walked[i] = walk(walked[i - 1], items[i], i < cutoff)
    BY <1>2, <1>6
  <2>2. (i < cutoff) \in BOOLEAN
    OBVIOUS
  <2> QED BY <2>1, <2>2
<1>13. walked[0] = start
  BY <1>2, <1>6
<1>14. WalksAlong(walked, h, items)
  BY <1>11, <1>12, <1>13 DEF WalksAlong, n, start
<1> QED BY <1>7, <1>14 DEF n

LEMMA AppendItemsKeeps ==
    ASSUME NEW h, Headed(h), NEW items \in Seq(AnInput)
    PROVE  Keeps(h, append_items(h, items))
<1>1. PICK walked : /\ WalksAlong(walked, h, items)
                    /\ append_items(h, items) = settle(walked[Len(items)]).messages
  BY AppendItemsWalks
<1>2. walked[Len(items)] \in Walks(h)
  BY <1>1 DEF WalksAlong
<1>3. settle(walked[Len(items)]) \in Walks(h)
  BY <1>2, SettleWalks
<1> QED BY <1>1, <1>3, WalkFields

LEMMA ItemsToMessages ==
    ASSUME NEW items \in Seq(AnInput)
    PROVE  items_to_chat_messages(items) \in Seq(PlainMessage)
<1>1. Keeps(<<>>, append_items(<<>>, items))
  BY KeepsNothing, AppendItemsKeeps
<1> QED BY <1>1, KeptPlain DEF items_to_chat_messages

\* The instructions of the request, if it has any, come first.
LEMMA InstructionsKeep ==
    ASSUME NEW h, Headed(h), NEW item \in AnItem, NEW given \in {<<>>, <<item>>}
    PROVE  LET merged == merge_instructions(h, given) IN
           Headed(merged) /\ (given # <<>> => Opens(merged, item))
<1> DEFINE first == System(item)
           merged == merge_instructions(h, given)
<1>1. Instructing(first) /\ first \in AMessage /\ first.role = "system" /\ first.body = <<item>>
  BY SystemInstructs DEF Instructing, Opens, System, Message
<1>2. given # <<>> => given = <<item>> /\ System(given[1]) = first
  OBVIOUS
<1>3. CASE given = <<>>
  BY <1>3 DEF merge_instructions
<1> HIDE DEF first
<1>4. CASE given # <<>> /\ h # <<>> /\ h[1].role = "system"
  <2> DEFINE new == [h EXCEPT ![1] = first]
  <2>1. merged = new
    BY <1>2, <1>4 DEF merge_instructions
  <2>2. h \in Seq(AMessage) /\ 1 \in 1..Len(h)
    BY <1>4 DEF Headed
  <2>3. /\ new \in Seq(AMessage) /\ Len(new) = Len(h) /\ new[1] = first
        /\ \A i \in 1..Len(h) : i # 1 => new[i] = h[i]
    BY <1>1, <2>2
  <2> HIDE DEF new
  <2>4. Headed(new)
    BY <1>1, <2>2, <2>3 DEF Headed
  <2>5. Opens(new, item)
    BY <1>1, <2>2, <2>3 DEF Opens
  <2> QED BY <2>1, <2>4, <2>5
<1>5. CASE given # <<>> /\ ~ (h # <<>> /\ h[1].role = "system")
  <2> DEFINE new == <<first>> \o h
  <2>1. merged = new
    BY <1>2, <1>5 DEF merge_instructions
  <2>2. h \in Seq(AMessage) /\ \A i \in 1..Len(h) : h[i] \in PlainMessage
    <3>1. \A i \in 1..Len(h) : h # <<>>
      BY DEF Headed
    <3> QED BY <1>5, <3>1 DEF Headed, Instructing
  <2>3. /\ new \in Seq(AMessage) /\ Len(new) = Len(h) + 1 /\ new[1] = first
        /\ \A i \in 2..(Len(h) + 1) : new[i] = h[i - 1] /\ i - 1 \in 1..Len(h)
        /\ Len(h) \in Nat
    BY <1>1, <2>2
  <2> HIDE DEF new
  <2>4. \A i \in 1..Len(new) : new[i] \in PlainMessage \/ (i = 1 /\ Instructing(new[1]))
    <3> TAKE i \in 1..Len(new)
    <3>1. CASE i = 1
      BY <1>1, <2>3, <3>1
    <3>2. CASE i # 1
      <4>1. i \in 2..(Len(h) + 1)
        BY <2>3, <3>2
      <4>2. new[i] = h[i - 1] /\ i - 1 \in 1..Len(h)
        BY <2>3, <4>1
      <4> QED BY <2>2, <4>2
    <3> QED BY <3>1, <3>2
  <2>5. Opens(new, item)
    BY <1>1, <2>3 DEF Opens
  <2> QED BY <2>1, <2>3, <2>4, <2>5 DEF Headed
<1> QED BY <1>3, <1>4, <1>5

LEMMA RequestToMessages ==
    ASSUME NEW h, Headed(h), NEW item \in AnItem, NEW given \in {<<>>, <<item>>},
           NEW items \in Seq(AnInput)
    PROVE  /\ Headed(responses_to_chat(h, given, items))
           /\ given # <<>> => Opens(responses_to_chat(h, given, items), item)
<1> DEFINE merged == merge_instructions(h, given)
<1>1. Headed(merged) /\ (given # <<>> => Opens(merged, item))
  BY InstructionsKeep
<1>2. responses_to_chat(h, given, items) = append_items(merged, items)
  BY DEF responses_to_chat
<1> HIDE DEF merged
<1>3. Keeps(merged, append_items(merged, items))
  BY <1>1, AppendItemsKeeps
<1>4. Headed(append_items(merged, items))
  BY <1>1, <1>3, KeptIsHeaded
<1>5. given # <<>> => Opens(append_items(merged, items), item)
  BY <1>1, <1>3, KeptOpens
<1> QED BY <1>2, <1>4, <1>5

-----------------------------------------------------------------------------
(* The limits                                                              *)

LEMMA LeadingIs ==
    ASSUME NEW ms \in Seq(AMessage)
    PROVE  /\ Leading(ms) \in 0..Len(ms)
           /\ ms # <<>> /\ ms[1].role = "system" => Leading(ms) >= 1
<1> DEFINE L == {i \in DOMAIN ms : \A j \in 1..i : ms[j].role = "system"}
           n == Len(ms)
<1>1. n \in Nat /\ L \subseteq 1..n
  OBVIOUS
<1>2. ms # <<>> /\ ms[1].role = "system" => 1 \in L
  OBVIOUS
<1>3. Leading(ms) = Cardinality(L)
  BY DEF Leading
<1> HIDE DEF L, n
<1>4. IsFiniteSet(1..n) /\ Cardinality(1..n) = n
  BY <1>1, FS_Interval
<1>5. IsFiniteSet(L) /\ Cardinality(L) <= n
  BY <1>1, <1>4, FS_Subset
<1>6. Cardinality(L) \in Nat /\ (L # {} => Cardinality(L) # 0)
  BY <1>5, FS_CardinalityType, FS_EmptySet
<1> QED BY <1>1, <1>2, <1>3, <1>5, <1>6 DEF n

LEMMA ConcatParts ==
    ASSUME NEW S, NEW a \in Seq(S), NEW b \in Seq(S)
    PROVE  /\ a \o b \in Seq(S) /\ Len(a \o b) = Len(a) + Len(b)
           /\ \A i \in 1..Len(a) : (a \o b)[i] = a[i]
           /\ \A i \in (Len(a) + 1)..Len(a \o b) :
                 (a \o b)[i] = b[i - Len(a)] /\ i - Len(a) \in 1..Len(b)
<1>1. a \o b \in Seq(S) /\ Len(a \o b) = Len(a) + Len(b) /\ Len(a) \in Nat /\ Len(b) \in Nat
  OBVIOUS
<1>2. \A i \in 1..Len(a) : (a \o b)[i] = a[i]
  OBVIOUS
<1>3. \A i \in (Len(a) + 1)..(Len(a) + Len(b)) :
         (a \o b)[i] = b[i - Len(a)] /\ i - Len(a) \in 1..Len(b)
  OBVIOUS
<1> QED BY <1>1, <1>2, <1>3

\* Without messages from the middle, what was first still is if it is left.
LEMMA CutIsHeaded ==
    ASSUME NEW ms, Headed(ms), NEW p \in 0..Len(ms), NEW s \in (p + 1)..Len(ms)
    PROVE  LET cut == SubSeq(ms, 1, p) \o SubSeq(ms, s, Len(ms)) IN
           /\ Headed(cut)
           /\ p >= 1 => cut # <<>> /\ cut[1] = ms[1]
<1> DEFINE a == SubSeq(ms, 1, p)
           b == SubSeq(ms, s, Len(ms))
           cut == a \o b
<1>1. ms \in Seq(AMessage) /\ Len(ms) \in Nat
  BY DEF Headed
<1>2. a \in Seq(AMessage) /\ Len(a) = p /\ \A i \in 1..p : a[i] = ms[i]
  BY <1>1
<1>3. b \in Seq(AMessage) /\ Len(b) = Len(ms) - s + 1 /\ \A i \in 1..Len(b) : b[i] = ms[s + i - 1]
  BY <1>1
<1> HIDE DEF a, b
<1>4. /\ cut \in Seq(AMessage) /\ Len(cut) = p + Len(b)
      /\ \A i \in 1..p : cut[i] = ms[i]
      /\ \A i \in (p + 1)..Len(cut) : cut[i] = b[i - p] /\ i - p \in 1..Len(b)
  <2>1. a \in Seq(AMessage) /\ b \in Seq(AMessage)
    BY <1>2, <1>3
  <2>2. /\ cut \in Seq(AMessage) /\ Len(cut) = Len(a) + Len(b)
        /\ \A i \in 1..Len(a) : cut[i] = a[i]
        /\ \A i \in (Len(a) + 1)..Len(cut) : cut[i] = b[i - Len(a)] /\ i - Len(a) \in 1..Len(b)
    BY <2>1, ConcatParts, Zenon
  <2>3. Len(a) = p
    BY <1>2
  <2> HIDE DEF cut
  <2> QED BY <1>2, <2>2, <2>3
<1> HIDE DEF cut
<1>5. \A i \in 1..Len(cut) : cut[i] \in PlainMessage \/ (i = 1 /\ Instructing(cut[1]))
  <2> TAKE i \in 1..Len(cut)
  <2>1. CASE i <= p
    <3>1. cut[i] = ms[i] /\ i \in 1..Len(ms) /\ (i = 1 => cut[1] = ms[1])
      BY <1>1, <1>4, <2>1
    <3> QED BY <3>1 DEF Headed
  <2>2. CASE i > p
    <3> DEFINE k == s + (i - p) - 1
    <3>1. cut[i] = ms[k] /\ k \in 1..Len(ms) /\ (k = 1 => i = 1)
      BY <1>1, <1>3, <1>4, <2>2
    <3> QED BY <3>1 DEF Headed
  <2> QED BY <2>1, <2>2
<1>6. p >= 1 => cut # <<>> /\ cut[1] = ms[1]
  BY <1>1, <1>3, <1>4
<1>7. Headed(cut)
  BY <1>4, <1>5 DEF Headed
<1> QED BY <1>6, <1>7 DEF cut, a, b

LEMMA MessageBudgetKeeps ==
    ASSUME NEW ms, Headed(ms), NEW max \in Nat
    PROVE  /\ Headed(enforce_message_budget(ms, max))
           /\ \A item : Opens(ms, item) => Opens(enforce_message_budget(ms, max), item)
<1> DEFINE n == Len(ms)
           prefix == Leading(ms)
           starts == {i \in DOMAIN ms : i > prefix /\ ms[i].role = "user"}
           fits == {i \in starts : prefix + (Len(ms) - i + 1) <= max}
           start == IF fits # {} THEN Min(fits) ELSE Max(starts)
           cut == SubSeq(ms, 1, prefix) \o SubSeq(ms, start, Len(ms))
<1>1. CASE max = 0 \/ Len(ms) <= max \/ starts = {}
  <2>1. enforce_message_budget(ms, max) = ms
    BY <1>1 DEF enforce_message_budget
  <2> QED BY <2>1
<1>2. CASE ~ (max = 0 \/ Len(ms) <= max \/ starts = {})
  <2>1. enforce_message_budget(ms, max) = cut
    BY <1>2 DEF enforce_message_budget
  <2>2. ms \in Seq(AMessage) /\ n \in Nat /\ DOMAIN ms = 1..n
    BY DEF Headed
  <2>3. /\ prefix \in 0..n
        /\ ms # <<>> /\ ms[1].role = "system" => prefix >= 1
    BY <2>2, LeadingIs
  <2>4. starts \in SUBSET (1..n) /\ fits \in SUBSET (1..n) /\ starts # {}
        /\ fits \subseteq starts /\ \A i \in starts : i > prefix
    BY <1>2, <2>2
  <2> HIDE DEF starts, fits, prefix
  <2>5. start \in starts
    BY <2>2, <2>4, MinIsIn, MaxIsIn
  <2>6. start \in (prefix + 1)..n
    <3>1. start \in 1..n /\ start > prefix
      BY <2>4, <2>5
    <3> QED BY <2>2, <2>3, <3>1
  <2> HIDE DEF start
  <2>7. Headed(cut) /\ (prefix >= 1 => cut # <<>> /\ cut[1] = ms[1])
    BY <2>3, <2>6, CutIsHeaded DEF n
  <2> HIDE DEF cut
  <2>8. \A item : Opens(ms, item) => Opens(cut, item)
    BY <2>3, <2>7 DEF Opens
  <2> QED BY <2>1, <2>7, <2>8
<1> QED BY <1>1, <1>2

\* The same messages, but for what is cut of them.
SameBut(new, ms) ==
    /\ Len(new) = Len(ms)
    /\ \A k \in 1..Len(ms) : new[k].role = ms[k].role /\ new[k].body = ms[k].body

\* What an output becomes when it is cut.
LEMMA CutKeeps ==
    ASSUME NEW m, Headed(m), NEW i \in 1..Len(m), m[i].role = "tool"
    PROVE  LET new == [m EXCEPT ![i].cut = TRUE] IN
           Headed(new) /\ SameBut(new, m)
<1> DEFINE cut == [m[i] EXCEPT !.cut = TRUE]
           new == [m EXCEPT ![i] = cut]
<1>1. m \in Seq(AMessage) /\ m[i] \in PlainMessage
  BY DEF Headed, Instructing
<1>2. cut \in PlainMessage /\ cut.role = m[i].role /\ cut.body = m[i].body
  BY <1>1 DEF PlainMessage
<1>3. cut \in AMessage
  BY <1>2, PlainIsMessage
<1> HIDE DEF cut
<1>4. /\ new \in Seq(AMessage) /\ Len(new) = Len(m) /\ new[i] = cut
      /\ \A k \in 1..Len(m) : k # i => new[k] = m[k]
      /\ 1 \in 1..Len(m)
  BY <1>1, <1>3
<1> HIDE DEF new
<1>5. Headed(new)
  BY <1>2, <1>4 DEF Headed
<1>6. SameBut(new, m)
  BY <1>2, <1>4 DEF SameBut
<1>7. new = [m EXCEPT ![i].cut = TRUE]
  BY DEF new, cut
<1> QED BY <1>5, <1>6, <1>7

LEMMA InputBudgetKeeps ==
    ASSUME NEW ms, Headed(ms), NEW max \in Nat
    PROVE  /\ Headed(enforce_input_budget(ms, max)) /\ SameBut(enforce_input_budget(ms, max), ms)
           /\ \A item : Opens(ms, item) => Opens(enforce_input_budget(ms, max), item)
<1> DEFINE n == Len(ms)
           next(m, i) == IF Whole(m[i]) /\ messages_total_chars(m) > max
                         THEN [m EXCEPT ![i].cut = TRUE] ELSE m
           Solves(f) == f = [i \in 0..n |-> IF i = 0 THEN ms ELSE next(f[i - 1], i)]
           shrunk == CHOOSE f : Solves(f)
           D == {m \in Seq(AMessage) : Headed(m) /\ SameBut(m, ms)}
<1>1. ms \in D /\ n \in Nat
  BY DEF Headed, SameBut
<1>2. \A i \in 1..n : \A m \in D : next(m, i) \in D
  <2> TAKE i \in 1..n
  <2> TAKE m \in D
  <2> DEFINE new == [m EXCEPT ![i].cut = TRUE]
  <2>1. CASE m[i].role = "tool"
    <3>1. SameBut(m, ms) /\ i \in 1..Len(m)
      BY DEF SameBut
    <3>2. Headed(new) /\ SameBut(new, m)
      BY <2>1, <3>1, CutKeeps
    <3> HIDE DEF new
    <3>3. SameBut(new, ms)
      BY <3>1, <3>2 DEF SameBut
    <3>4. new \in D
      BY <3>2, <3>3 DEF Headed
    <3> QED BY <3>4 DEF new
  <2>2. CASE m[i].role # "tool"
    BY <2>2 DEF Whole
  <2> QED BY <2>1, <2>2
<1> HIDE DEF D
<1>3. \E f : Solves(f)
  <2> DEFINE st == [p \in (1..n) \X D |-> next(p[2], p[1])]
  <2> HIDE DEF next
  <2>1. st \in [(1..n) \X D -> D]
    BY <1>2
  <2>2. \A i \in 1..n : \A m \in D : st[<<i, m>>] = next(m, i)
    OBVIOUS
  <2> HIDE DEF st
  <2>3. \E f : Recurses(f, n, D, ms, st)
    BY <1>1, <2>1, RecursionExists
  <2>4. PICK f \in [0..n -> D] : f[0] = ms /\ \A i \in 1..n : f[i] = st[<<i, f[i - 1]>>]
    BY <2>3 DEF Recurses
  <2>5. \A i \in 0..n : f[i] = IF i = 0 THEN ms ELSE next(f[i - 1], i)
    <3>1. ASSUME NEW i \in 1..n PROVE f[i] = next(f[i - 1], i)
      <4>1. f[i] = st[<<i, f[i - 1]>>] /\ f[i - 1] \in D
        BY <1>1, <2>4
      <4> QED BY <2>2, <4>1
    <3> QED BY <1>1, <2>4, <3>1
  <2> DEFINE g == [i \in 0..n |-> IF i = 0 THEN ms ELSE next(f[i - 1], i)]
  <2>6. f = g
    <3>1. f = [i \in 0..n |-> f[i]]
      BY <2>4
    <3> QED BY <2>5, <3>1, Zenon
  <2> QED BY <2>6, Zenon
<1>4. Solves(shrunk)
  BY <1>3, Zenon
<1>5. \A i \in 0..n : shrunk[i] = IF i = 0 THEN ms ELSE next(shrunk[i - 1], i)
  <2> DEFINE g == [i \in 0..n |-> IF i = 0 THEN ms ELSE next(shrunk[i - 1], i)]
  <2> TAKE i \in 0..n
  <2>1. shrunk = g
    BY <1>4, Zenon
  <2>2. g[i] = IF i = 0 THEN ms ELSE next(shrunk[i - 1], i)
    BY Zenon
  <2> HIDE DEF g
  <2> QED BY <2>1, <2>2, Zenon
<1>6. enforce_input_budget(ms, max) = IF max = 0 THEN ms ELSE shrunk[n]
  BY DEF enforce_input_budget
<1> HIDE DEF shrunk, Solves, next
<1> DEFINE G == {i \in Nat : i <= n => shrunk[i] \in D}
<1>7. 0 \in G
  BY <1>1, <1>5
<1>8. \A i \in Nat : i \in G => i + 1 \in G
  BY <1>1, <1>2, <1>5
<1> HIDE DEF G
<1>9. G = Nat
  BY <1>7, <1>8, Inductive DEF G
<1>10. shrunk[n] \in D
  BY <1>1, <1>9 DEF G
<1>11. enforce_input_budget(ms, max) \in D
  BY <1>1, <1>6, <1>10
<1> HIDE DEF n
<1>12. ASSUME NEW m \in D
       PROVE  Headed(m) /\ SameBut(m, ms) /\ \A item : Opens(ms, item) => Opens(m, item)
  <2>1. Headed(m) /\ SameBut(m, ms)
    BY DEF D
  <2>2. ms # <<>> => m # <<>> /\ m[1].role = ms[1].role /\ m[1].body = ms[1].body
    <3>1. Len(m) = Len(ms) /\ (ms # <<>> => 1 \in 1..Len(ms))
      BY <2>1 DEF Headed, SameBut
    <3> QED BY <2>1, <3>1 DEF SameBut
  <2> QED BY <2>1, <2>2 DEF Opens
<1> QED BY <1>11, <1>12

LEMMA BudgetsKeep ==
    ASSUME NEW ms, Headed(ms), NEW b \in Budgets
    PROVE  /\ Headed(enforce_budgets(ms, b))
           /\ \A item : Opens(ms, item) => Opens(enforce_budgets(ms, b), item)
<1>1. b.messages \in Nat /\ b.chars \in Nat
  OBVIOUS
<1> DEFINE left == enforce_message_budget(ms, b.messages)
<1>2. Headed(left) /\ \A item : Opens(ms, item) => Opens(left, item)
  BY <1>1, MessageBudgetKeeps
<1> HIDE DEF left
<1>3. /\ Headed(enforce_input_budget(left, b.chars))
      /\ \A item : Opens(left, item) => Opens(enforce_input_budget(left, b.chars), item)
  BY <1>1, <1>2, InputBudgetKeeps
<1> QED BY <1>2, <1>3 DEF enforce_budgets, left

-----------------------------------------------------------------------------
(* Replies                                                                 *)

LEMMA ReplyOfType ==
    ASSUME NEW n \in Turns, NEW kinds \in Replies
    PROVE  ReplyOf(n, kinds) \in Seq(AnInput)
<1>1. kinds \in Seq({"reasoning", "text", "call"}) /\ n \in Nat
  BY DEF Turns
<1> DEFINE one(i) == [Item(kinds[i], n) EXCEPT !.call = IF kinds[i] = "call" THEN <<n, i>> ELSE @]
           all == [i \in DOMAIN kinds |-> one(i)]
<1>2. ASSUME NEW i \in 1..Len(kinds) PROVE one(i) \in AnInput
  <2>1. kinds[i] \in InputKind /\ i \in Nat
    BY <1>1 DEF InputKind, Kind
  <2> QED BY <1>1, <2>1 DEF Item, NoCall, AnInput
<1>3. DOMAIN kinds = 1..Len(kinds) /\ Len(kinds) \in Nat
  BY <1>1
<1> HIDE DEF one
<1>4. all \in Seq(AnInput)
  BY <1>2, <1>3
<1>5. <<Item("summary", n)>> \in Seq(AnInput)
  <2>1. Item("summary", n) \in AnInput
    BY <1>1 DEF Item, NoCall, AnInput, InputKind, Kind
  <2> QED BY <2>1
<1> QED BY <1>4, <1>5, Zenon DEF ReplyOf, one

LEMMA ChatToResponsesType ==
    ASSUME NEW reply \in Seq(AnInput)
    PROVE  chat_to_responses(reply) \in Seq(AnInput)
<1> DEFINE r == OfKind("reasoning", reply)
           c == OfKind("call", reply)
           t == OfKind("text", reply)
<1>1. r \in Seq(AnInput) /\ c \in Seq(AnInput) /\ t \in Seq(AnInput)
  BY OfKindType
<1> HIDE DEF r, c, t
<1>2. r \o c \o t \in Seq(AnInput)
  BY <1>1
<1> QED BY <1>2 DEF chat_to_responses, r, c, t

LEMMA OutputItemsType ==
    ASSUME NEW mode, NEW reply \in Seq(AnInput)
    PROVE  OutputItems(mode, reply) \in Seq(AnInput)
BY ChatToResponsesType DEF OutputItems

LEMMA OpenType ==
    ASSUME NEW reply \in Seq(AnInput)
    PROVE  Open(reply) \in Seq(AnInput)
<1> DEFINE n == Len(reply)
           same == {i \in DOMAIN reply :
                       \A j \in i..Len(reply) : reply[j].kind = reply[Len(reply)].kind}
<1>1. CASE reply = <<>>
  BY <1>1 DEF Open
<1>2. CASE reply # <<>>
  <2>1. n \in Nat /\ n \in 1..n /\ DOMAIN reply = 1..n
    BY <1>2
  <2>2. n \in same /\ same \in SUBSET (1..n)
    BY <2>1
  <2>3. Open(reply) = SubSeq(reply, Min(same), n)
    BY <1>2 DEF Open
  <2> HIDE DEF same, n
  <2>4. Min(same) \in 1..n
    BY <2>1, <2>2, MinIsIn
  <2>5. SubSeq(reply, Min(same), n) \in Seq(AnInput)
    BY <2>1, <2>4 DEF n
  <2> QED BY <2>3, <2>5
<1> QED BY <1>1, <1>2

LEMMA ResponseMessageIsPlain ==
    ASSUME NEW reply \in Seq(AnInput)
    PROVE  to_response_message(reply) \in PlainMessage
<1> DEFINE open(kind) == OfKind(kind, Open(reply))
           first(kind) == IF open(kind) # <<>> THEN open(kind) ELSE OfKind(kind, reply)
           body == first("reasoning") \o OfKind("text", reply) \o open("text") \o first("call")
<1>1. \A kind : open(kind) \in Seq(AnInput) /\ OfKind(kind, reply) \in Seq(AnInput)
  BY OpenType, OfKindType
<1>2. \A kind : first(kind) \in Seq(AnInput)
  BY <1>1
<1>3. body \in Seq(AnInput)
  <2> HIDE DEF first, open
  <2>1. /\ first("reasoning") \in Seq(AnInput) /\ first("call") \in Seq(AnInput)
        /\ OfKind("text", reply) \in Seq(AnInput) /\ open("text") \in Seq(AnInput)
    BY <1>1, <1>2
  <2> QED BY <2>1
<1>4. to_response_message(reply) = Message("assistant", body)
  BY DEF to_response_message
<1> HIDE DEF body
<1>5. body \in Seq(APlain) /\ "assistant" \in Role
  BY <1>3, InputIsPlain DEF Role
<1> QED BY <1>4, <1>5, MessageIsPlain

\* What a turn puts begins as what it sent.
LEMMA HistoryIsHeaded ==
    ASSUME NEW t \in ATurn, Headed(t.sent)
    PROVE  Headed(History(t))
<1>1. t.reply \in Seq(AnInput)
  BY DEF ATurn
<1>2. Headed(compaction_output_to_chat_messages(t.reply))
  <2> DEFINE all == [i \in DOMAIN t.reply |-> System(t.reply[i])]
  <2>1. \A i \in 1..Len(t.reply) : System(t.reply[i]) \in PlainMessage
    BY <1>1, InputIsPlain, SystemIsPlain
  <2>2. all \in Seq(PlainMessage)
    BY <1>1, <2>1
  <2> HIDE DEF all
  <2>3. Headed(all)
    BY <2>2, PlainIsHeaded
  <2> QED BY <2>3 DEF all, compaction_output_to_chat_messages
<1>3. Headed(Append(t.sent, to_response_message(t.reply)))
  <2>1. to_response_message(t.reply) \in PlainMessage
    BY <1>1, ResponseMessageIsPlain
  <2>2. Keeps(t.sent, t.sent)
    BY KeepsItself
  <2> QED BY <2>1, <2>2, KeepsAppend, KeptIsHeaded
<1>4. ASSUME NEW items \in Seq(AnInput)
      PROVE  Headed(t.sent \o items_to_chat_messages(items))
  BY ItemsToMessages, HeadedConcat
<1>5. Headed(t.sent \o items_to_chat_messages(build_response_from_state(t.reply)))
  <2>1. build_response_from_state(t.reply) \in Seq(AnInput)
    BY <1>1, OpenType, ConcatProperties DEF build_response_from_state
  <2> QED BY <1>4, <2>1
<1>6. Headed(t.sent \o items_to_chat_messages(chat_to_responses(t.reply)))
  BY <1>1, <1>4, ChatToResponsesType
<1> QED BY <1>2, <1>3, <1>5, <1>6 DEF History

-----------------------------------------------------------------------------
(* Steps                                                                   *)

\* A step of turn n, and what it may do to what the client knows.
OnlyTurn(n) ==
    /\ count' = count /\ budget' = budget
    /\ DOMAIN turns' = Turns /\ DOMAIN store' = Turns /\ DOMAIN registry' = Turns
    /\ \A m \in Turns : m # n =>
          turns'[m] = turns[m] /\ store'[m] = store[m] /\ registry'[m] = registry[m]

ClientStays == client'.last = client.last /\ client'.tools = client.tools

ClientMoves(n) ==
    /\ client' \in AClient /\ client'.style = client.style
    /\ \/ ClientStays /\ client'.waiting = client.waiting
       \/ ClientStays /\ client.waiting = n /\ client'.waiting = 0
       \/ /\ client.waiting = n /\ client'.waiting = 0
          /\ client'.last = n /\ client'.tools \in 0..n

\* What the invariant says of turn n.
TurnIsSound(n, gone) ==
    /\ TurnIsTyped(n, turns[n]) /\ turns[n].pc # "none"
    /\ store[n] = Missing \/ Headed(store[n])
    /\ registry[n] \in 0..n
    /\ TurnHasTools(n, turns[n], registry[n], store[n], client, gone)
    /\ client.last = n => LeavesTools(n, turns[n], registry[n], store[n], client.tools, gone)

LEMMA InvParts ==
    ASSUME Inv
    PROVE  /\ count \in Nat /\ count \in 0..MaxTurns /\ budget \in Budgets
           /\ client \in AClient /\ client.last \in 0..count /\ client.tools \in 0..count
           /\ client.waiting # 0 => client.waiting = count /\ client.last < count
           /\ DOMAIN turns = Turns /\ DOMAIN store = Turns /\ DOMAIN registry = Turns
           /\ \A n \in Turns :
                 /\ TurnIsTyped(n, turns[n])
                 /\ store[n] = Missing \/ Headed(store[n])
                 /\ registry[n] \in 0..n
                 /\ TurnHasTools(n, turns[n], registry[n], store[n], client, Gone)
           /\ ClientHasTools
BY DEF Inv, Typed, TurnsHaveTools

\* What is gone stays gone.
LEMMA GoneSinceStill ==
    ASSUME NEW gone, NEW more, gone \subseteq more, NEW from, NEW n, GoneSince(from, n, gone)
    PROVE  GoneSince(from, n, more)
BY DEF GoneSince

\* The client's news are no news to a turn it does not wait for, nor is it that
\* more turns are over.
LEMMA OthersKeepTools ==
    ASSUME NEW m, NEW t, NEW tools, NEW history, NEW c, NEW d, NEW gone, NEW more,
           TurnHasTools(m, t, tools, history, c, gone), d.style = c.style,
           \/ d.last = c.last /\ d.tools = c.tools /\ d.waiting = c.waiting
           \/ c.waiting # m,
           gone \subseteq more
    PROVE  TurnHasTools(m, t, tools, history, d, more)
<1>1. GoneSince(t.expected, m, gone) => GoneSince(t.expected, m, more)
  BY GoneSinceStill
<1> QED BY <1>1 DEF TurnHasTools, Pending

LEMMA LeavesStill ==
    ASSUME NEW n, NEW t, NEW tools, NEW history, NEW taken, NEW gone, NEW more,
           LeavesTools(n, t, tools, history, taken, gone), gone \subseteq more
    PROVE  LeavesTools(n, t, tools, history, taken, more)
BY GoneSinceStill DEF LeavesTools

LEMMA OthersStayGone ==
    ASSUME NEW n \in Turns, OnlyTurn(n), turns[n].pc # "over"
    PROVE  Gone \subseteq Gone'
BY DEF Gone, OnlyTurn

\* A turn at a step, whatever else is gone after it.
LEMMA TurnIsSounds ==
    ASSUME Inv, NEW n \in Turns, turns[n].pc \notin {"none", "over"}, OnlyTurn(n)
    PROVE  TurnIsSound(n, Gone')
<1>1. n # 0 /\ Gone \subseteq Gone'
  BY OthersStayGone DEF Turns
<1>2. client.last = n => LeavesTools(n, turns[n], registry[n], store[n], client.tools, Gone)
  BY <1>1, InvParts DEF ClientHasTools
<1>3. client.last = n => LeavesTools(n, turns[n], registry[n], store[n], client.tools, Gone')
  BY <1>1, <1>2, LeavesStill
<1>4. TurnHasTools(n, turns[n], registry[n], store[n], client, Gone')
  BY <1>1, InvParts, OthersKeepTools
<1> QED BY <1>3, <1>4, InvParts DEF TurnIsSound

LEMMA TurnSteps ==
    ASSUME Inv, NEW n \in Turns, turns[n].pc # "over", OnlyTurn(n), ClientMoves(n),
           TurnIsSound(n, Gone)'
    PROVE  Inv'
<1>1. /\ TurnIsTyped(n, turns'[n]) /\ turns'[n].pc # "none"
      /\ store'[n] = Missing \/ Headed(store'[n])
      /\ registry'[n] \in 0..n
      /\ TurnHasTools(n, turns'[n], registry'[n], store'[n], client', Gone')
      /\ client'.last = n =>
            LeavesTools(n, turns'[n], registry'[n], store'[n], client'.tools, Gone')
      /\ Gone \subseteq Gone'
  BY OthersStayGone DEF TurnIsSound, OnlyTurn, TurnIsTyped
<1>2. count' = count /\ budget' = budget
      /\ DOMAIN turns' = Turns /\ DOMAIN store' = Turns /\ DOMAIN registry' = Turns
      /\ \A m \in Turns : m # n =>
            turns'[m] = turns[m] /\ store'[m] = store[m] /\ registry'[m] = registry[m]
  BY DEF OnlyTurn
<1>3. n \in 1..count
  BY <1>1, InvParts DEF TurnIsTyped, Turns
<1>4. Typed'
  <2>1. /\ client' \in AClient /\ client'.last \in 0..count /\ client'.tools \in 0..count
        /\ client'.waiting # 0 => client'.waiting = count /\ client'.last < count
    BY <1>3, InvParts DEF ClientMoves, ClientStays, AClient
  <2>2. \A m \in Turns : TurnIsTyped(m, turns'[m])
    BY <1>1, <1>2, InvParts
  <2>3. \A m \in Turns : store'[m] = Missing \/ Headed(store'[m])
    BY <1>1, <1>2, InvParts
  <2>4. \A m \in Turns : registry'[m] \in 0..m
    BY <1>1, <1>2, InvParts
  <2>5. (\A m \in Turns : TurnIsTyped(m, turns[m]))'
    BY <1>2, <2>2 DEF TurnIsTyped
  <2> QED BY <1>2, <2>1, <2>3, <2>4, <2>5, InvParts DEF Typed
<1>5. TurnsHaveTools'
  <2>1. ASSUME NEW m \in Turns
        PROVE  TurnHasTools(m, turns'[m], registry'[m], store'[m], client', Gone')
    <3>1. CASE m = n
      BY <1>1, <3>1
    <3>2. CASE m # n
      <4>1. TurnHasTools(m, turns[m], registry[m], store[m], client, Gone)
        BY InvParts
      <4>2. /\ client'.style = client.style
            /\ \/ /\ client'.last = client.last /\ client'.tools = client.tools
                  /\ client'.waiting = client.waiting
               \/ client.waiting # m
        BY <3>2 DEF ClientMoves, ClientStays
      <4>3. TurnHasTools(m, turns[m], registry[m], store[m], client', Gone')
        BY <1>1, <4>1, <4>2, OthersKeepTools
      <4> QED BY <1>2, <3>2, <4>3
    <3> QED BY <3>1, <3>2
  <2> QED BY <2>1 DEF TurnsHaveTools
<1>6. ClientHasTools'
  <2> DEFINE l == client'.last
  <2> SUFFICES ASSUME l # 0
               PROVE  LeavesTools(l, turns'[l], registry'[l], store'[l], client'.tools, Gone')
    BY DEF ClientHasTools
  <2>1. CASE l = n
    BY <1>1, <2>1
  <2>2. CASE l # n
    <3>1. l = client.last /\ client'.tools = client.tools
      BY <2>2 DEF ClientMoves, ClientStays
    <3>2. l \in Turns
      BY <3>1, InvParts DEF Turns
    <3>3. LeavesTools(l, turns[l], registry[l], store[l], client.tools, Gone')
      BY <1>1, <3>1, InvParts, LeavesStill DEF ClientHasTools
    <3> QED BY <1>2, <2>2, <3>1, <3>2, <3>3
  <2> QED BY <2>1, <2>2
<1> QED BY <1>4, <1>5, <1>6 DEF Inv

LEMMA ItemTypes ==
    ASSUME NEW n \in Nat, NEW kind
    PROVE  /\ kind \in Kind => Item(kind, n) \in AnItem
           /\ kind \in PlainKind => Item(kind, n) \in APlain
           /\ kind \in InputKind => Item(kind, n) \in AnInput
BY DEF Item, NoCall, AnItem, APlain, AnInput, InputKind, PlainKind

LEMMA TurnFields ==
    ASSUME NEW t \in ATurn
    PROVE  /\ t.pc \in Pc /\ t.mode \in Mode /\ t.prev \in Nat /\ t.given \in Seq(AnItem)
           /\ t.new \in Seq(AnInput) /\ t.input \in Seq(AnInput) /\ t.tools \in Nat
           /\ t.sent \in Seq(AMessage) /\ t.reply \in Seq(AnInput) /\ t.said \in Seq(AnInput)
           /\ t.expected \in Nat /\ t.whole \in BOOLEAN
BY DEF ATurn

LEMMA ClientFields ==
    ASSUME NEW c \in AClient
    PROVE  /\ c.style \in Style /\ c.last \in Nat /\ c.known \in Seq(AnInput)
           /\ c.calls \in Seq(AnInput) /\ c.tools \in Nat /\ c.waiting \in Nat
BY DEF AClient

\* An ended turn is one that has begun, whatever it did.
LEMMA EndedTurn ==
    ASSUME NEW t \in ATurn, NEW pc \in {"over", "failed"}
    PROVE  LET e == Ended(t, pc) IN
           /\ e \in ATurn /\ e.pc = pc /\ e.mode = t.mode /\ e.whole = t.whole
           /\ e.prev = 0 /\ e.tools = 0 /\ e.expected = 0 /\ e.given = <<>> /\ e.sent = <<>>
<1>1. /\ <<>> \in Seq(AnItem) /\ <<>> \in Seq(AnInput) /\ <<>> \in Seq(AMessage)
  OBVIOUS
<1>2. pc \in Pc
  BY DEF Pc
<1>3. t.mode \in Mode /\ t.whole \in BOOLEAN
  BY TurnFields
<1>4. /\ NoTurn \in ATurn /\ NoTurn.prev = 0 /\ NoTurn.tools = 0 /\ NoTurn.expected = 0
      /\ NoTurn.given = <<>> /\ NoTurn.sent = <<>>
  BY <1>1 DEF NoTurn, ATurn, Pc, Mode
<1> QED BY <1>2, <1>3, <1>4 DEF ATurn, Ended

LEMMA EndedIsTyped ==
    ASSUME Inv, NEW n \in Turns, turns[n].pc # "none", NEW pc \in {"over", "failed"}
    PROVE  TurnIsTyped(n, Ended(turns[n], pc))
<1>1. turns[n] \in ATurn /\ ~ (n > count)
  BY InvParts DEF TurnIsTyped
<1> DEFINE e == Ended(turns[n], pc)
<1>2. /\ e \in ATurn /\ e.pc = pc /\ e.prev = 0 /\ e.tools = 0 /\ e.expected = 0
      /\ e.given = <<>> /\ e.sent = <<>>
  BY <1>1, EndedTurn
<1> HIDE DEF e
<1>3. 0 \in 0..n /\ 0 \in 0..(n - 1)
  BY DEF Turns
<1>4. Headed(e.sent)
  BY <1>2, KeepsNothing
<1>5. TurnIsTyped(n, e)
  BY <1>1, <1>2, <1>3, <1>4 DEF TurnIsTyped
<1> QED BY <1>5 DEF e

\* Only turns that have begun are at a step.
LEMMA AtAStep ==
    ASSUME Inv, NEW n \in Turns, turns[n].pc # "none"
    PROVE  /\ turns[n] \in ATurn /\ n \in 1..count /\ n \in Nat
           /\ TurnIsTyped(n, turns[n]) /\ turns[n].expected \in 0..n
<1>1. TurnIsTyped(n, turns[n]) /\ count \in Nat
  BY InvParts
<1>2. n \in Nat /\ n >= 1
  BY DEF Turns
<1>3. turns[n] \in ATurn /\ ~ (n > count) /\ turns[n].expected \in 0..n
  BY <1>1 DEF TurnIsTyped
<1> QED BY <1>1, <1>2, <1>3

LEMMA LearnMoves ==
    ASSUME Inv, NEW n \in Turns, turns[n].pc # "none", client.waiting = n,
           NEW out \in Seq(AnInput), Learn(n, out)
    PROVE  /\ ClientMoves(n)
           /\ client'.last = n /\ client'.waiting = 0 /\ client'.style = client.style
           /\ client'.tools = turns[n].expected
<1> DEFINE t == turns[n]
           calls == OfKind("call", out)
           known == IF t.mode \in Compacting THEN out ELSE client.known \o t.new \o out
           tools == t.expected
<1>1. t \in ATurn /\ n \in Nat /\ t.expected \in 0..n
  BY AtAStep
<1>2. calls \in Seq(AnInput)
  BY OfKindType
<1>3. known \in Seq(AnInput)
  <2>1. client.known \in Seq(AnInput) /\ t.new \in Seq(AnInput)
    BY <1>1, TurnFields, ClientFields, InvParts
  <2>2. client.known \o t.new \o out \in Seq(AnInput)
    BY <2>1
  <2> QED BY <2>2
<1>4. tools \in 0..n /\ tools \in Nat
  BY <1>1
<1>5. client' = [client EXCEPT !.last = n, !.waiting = 0, !.calls = calls, !.known = known,
                               !.tools = tools]
  BY Zenon DEF Learn
<1> HIDE DEF calls, known, tools
<1>6. /\ client' \in AClient /\ client'.style = client.style /\ client'.last = n
      /\ client'.waiting = 0 /\ client'.tools = tools
  <2>1. client \in AClient
    BY InvParts
  <2> QED BY <1>1, <1>2, <1>3, <1>4, <1>5, <2>1 DEF AClient
<1> QED BY <1>4, <1>6 DEF ClientMoves, tools

\* A step of turn n that leaves histories and tools.
LEMMA OnlyTurnN ==
    ASSUME Inv, NEW n \in Turns, NEW t, turns' = [turns EXCEPT ![n] = t],
           count' = count, budget' = budget, store' = store, registry' = registry
    PROVE  OnlyTurn(n) /\ turns'[n] = t
<1>1. DOMAIN turns = Turns /\ DOMAIN store = Turns /\ DOMAIN registry = Turns
  BY InvParts
<1> QED BY <1>1 DEF OnlyTurn

\* A step of a handler is one of its turn alone, which is under way.
LEMMA HandlerSteps ==
    ASSUME Inv, NEW n \in Turns,
           Convert(n) \/ FirstPut(n) \/ Reply(n) \/ Fail(n) \/ PutTools(n) \/ Put(n)
    PROVE  /\ OnlyTurn(n) /\ turns[n].pc \notin {"none", "over"}
           /\ TurnIsSound(n, Gone')
<1>1. DOMAIN turns = Turns /\ DOMAIN store = Turns /\ DOMAIN registry = Turns
  BY InvParts
<1>2. turns[n].pc \in {"convert", "first_put", "upstream", "put_tools", "put"}
  BY DEF Convert, FirstPut, Reply, Fail, PutTools, Put
<1>3. /\ count' = count /\ budget' = budget
      /\ \E t : turns' = [turns EXCEPT ![n] = t]
      /\ store' = store \/ \E h : store' = [store EXCEPT ![n] = h]
      /\ registry' = registry \/ \E k : registry' = [registry EXCEPT ![n] = k]
  <2>1. CASE Convert(n)
    BY <2>1, Zenon DEF Convert
  <2>2. CASE FirstPut(n)
    BY <2>2, Zenon DEF FirstPut
  <2>3. CASE Reply(n)
    BY <2>3, Zenon DEF Reply
  <2>4. CASE Fail(n)
    BY <2>4, Zenon DEF Fail
  <2>5. CASE PutTools(n)
    BY <2>5, Zenon DEF PutTools
  <2>6. CASE Put(n)
    BY <2>6, Zenon DEF Put
  <2> QED BY <2>1, <2>2, <2>3, <2>4, <2>5, <2>6
<1>4. /\ DOMAIN turns' = Turns /\ DOMAIN store' = Turns /\ DOMAIN registry' = Turns
      /\ \A m \in Turns : m # n =>
            turns'[m] = turns[m] /\ store'[m] = store[m] /\ registry'[m] = registry[m]
  BY <1>1, <1>3
<1>5. OnlyTurn(n)
  BY <1>3, <1>4 DEF OnlyTurn
<1>6. turns[n].pc \notin {"none", "over"}
  BY <1>2
<1> QED BY <1>5, <1>6, TurnIsSounds

-----------------------------------------------------------------------------
(* Every action keeps the invariant                                        *)

LEMMA PutToolsKeeps ==
    ASSUME Inv, NEW n \in Turns, PutTools(n)
    PROVE  Inv'
<1> DEFINE t == turns[n]
           new == [t EXCEPT !.pc = "put"]
<1>1. t.pc = "put_tools" /\ t.pc # "none"
  BY DEF PutTools
<1>2. TurnIsSound(n, Gone') /\ t \in ATurn
  BY <1>1, HandlerSteps, AtAStep
<1>3. /\ turns'[n] = new /\ registry'[n] = t.tools
      /\ count' = count /\ client' = client /\ store' = store /\ budget' = budget
      /\ OnlyTurn(n)
  BY InvParts DEF PutTools, OnlyTurn
<1>4. /\ new \in ATurn /\ new.pc = "put" /\ new.mode = t.mode /\ new.prev = t.prev
      /\ new.tools = t.tools /\ new.expected = t.expected /\ new.whole = t.whole
      /\ new.given = t.given /\ new.sent = t.sent
  BY <1>2 DEF ATurn, Pc
<1> HIDE DEF new
<1>5. TurnIsTyped(n, new)
  BY <1>1, <1>2, <1>4 DEF TurnIsSound, TurnIsTyped
<1>6. TurnHasTools(n, new, t.tools, store[n], client, Gone')
  BY <1>1, <1>2, <1>4, Zenon DEF TurnIsSound, TurnHasTools, Pending
<1>7. client.last = n => LeavesTools(n, new, t.tools, store[n], client.tools, Gone')
  BY <1>1, <1>2, <1>4 DEF TurnIsSound, LeavesTools
<1>8. t.tools \in 0..n
  BY <1>2 DEF TurnIsSound, TurnIsTyped
<1>9. TurnIsSound(n, Gone)'
  BY <1>2, <1>3, <1>4, <1>5, <1>6, <1>7, <1>8 DEF TurnIsSound, TurnIsTyped
<1>10. ClientMoves(n)
  BY <1>3, InvParts DEF ClientMoves, ClientStays
<1> QED BY <1>1, <1>3, <1>9, <1>10, TurnSteps

LEMMA FailKeeps ==
    ASSUME Inv, NEW n \in Turns, Fail(n)
    PROVE  Inv'
<1> DEFINE t == turns[n]
           failed == Ended(t, "failed")
           put == [t EXCEPT !.pc = "put"]
<1>1. t.pc = "upstream" /\ t.pc # "none"
  BY DEF Fail
<1>2. TurnIsSound(n, Gone') /\ t \in ATurn
  BY <1>1, HandlerSteps, AtAStep
<1>3. /\ turns'[n] = failed \/ (t.mode = "background" /\ turns'[n] = put)
      /\ client' = [client EXCEPT !.waiting = IF @ = n THEN 0 ELSE @]
      /\ count' = count /\ store' = store /\ registry' = registry /\ budget' = budget
      /\ OnlyTurn(n)
  BY InvParts DEF Fail, OnlyTurn
<1>4. /\ client' \in AClient /\ client'.style = client.style /\ ClientStays
      /\ client'.waiting = IF client.waiting = n THEN 0 ELSE client.waiting
  <2>1. client \in AClient
    BY InvParts
  <2> QED BY <1>3, <2>1 DEF AClient, ClientStays
<1>5. ClientMoves(n)
  BY <1>4 DEF ClientMoves
<1>6. CASE turns'[n] = failed
  <2>1. TurnIsTyped(n, failed)
    BY <1>1, EndedIsTyped
  <2>2. failed.pc = "failed" /\ failed.mode = t.mode
    BY <1>2, EndedTurn
  <2> HIDE DEF failed
  <2>3. TurnHasTools(n, failed, registry[n], store[n], client', Gone')
    BY <1>1, <1>2, <1>4, <2>2, Zenon DEF TurnIsSound, TurnHasTools, Pending
  <2>4. LeavesTools(n, failed, registry[n], store[n], client'.tools, Gone')
    BY <2>2 DEF LeavesTools
  <2>5. TurnIsSound(n, Gone)'
    BY <1>2, <1>3, <1>6, <2>1, <2>2, <2>3, <2>4 DEF TurnIsSound, TurnIsTyped
  <2> QED BY <1>1, <1>3, <1>5, <2>5, TurnSteps
<1>7. CASE t.mode = "background" /\ turns'[n] = put
  <2>1. /\ put \in ATurn /\ put.pc = "put" /\ put.mode = t.mode /\ put.prev = t.prev
        /\ put.tools = t.tools /\ put.expected = t.expected /\ put.whole = t.whole
        /\ put.given = t.given /\ put.sent = t.sent
    BY <1>2 DEF ATurn, Pc
  <2> HIDE DEF put
  <2>2. TurnIsTyped(n, put)
    BY <1>1, <1>2, <2>1 DEF TurnIsSound, TurnIsTyped
  <2>3. TurnHasTools(n, put, registry[n], store[n], client', Gone')
    BY <1>1, <1>2, <1>4, <1>7, <2>1, Zenon DEF TurnIsSound, TurnHasTools, Pending, Toolless
  <2>4. client'.last = n => LeavesTools(n, put, registry[n], store[n], client'.tools, Gone')
    BY <1>1, <1>2, <1>4, <2>1 DEF TurnIsSound, LeavesTools, ClientStays
  <2>5. TurnIsSound(n, Gone)'
    BY <1>2, <1>3, <1>7, <2>1, <2>2, <2>3, <2>4 DEF TurnIsSound, TurnIsTyped
  <2> QED BY <1>1, <1>3, <1>5, <2>5, TurnSteps
<1> QED BY <1>3, <1>6, <1>7

LEMMA FirstPutKeeps ==
    ASSUME Inv, NEW n \in Turns, FirstPut(n)
    PROVE  Inv'
<1> DEFINE t == turns[n]
           new == [t EXCEPT !.pc = "upstream"]
           history == items_to_chat_messages(t.input)
<1>1. t.pc = "first_put" /\ t.pc # "none" /\ Learn(n, <<>>)
  BY DEF FirstPut
<1>2. TurnIsSound(n, Gone') /\ t \in ATurn
  BY <1>1, HandlerSteps, AtAStep
<1>3. /\ turns'[n] = new /\ store'[n] = history
      /\ count' = count /\ registry' = registry /\ budget' = budget
      /\ OnlyTurn(n)
  BY InvParts DEF FirstPut, OnlyTurn
<1>4. Headed(history)
  BY <1>2, TurnFields, ItemsToMessages, PlainIsHeaded
<1>5. /\ new \in ATurn /\ new.pc = "upstream" /\ new.mode = t.mode /\ new.prev = t.prev
      /\ new.tools = t.tools /\ new.expected = t.expected /\ new.whole = t.whole
      /\ new.given = t.given /\ new.sent = t.sent
  BY <1>2 DEF ATurn, Pc
<1>6. t.mode = "background" /\ client.waiting = n
  BY <1>1, <1>2 DEF TurnIsSound, TurnHasTools, Pending
<1>7. /\ ClientMoves(n) /\ client'.style = client.style
      /\ client'.tools = t.expected
  <2>1. <<>> \in Seq(AnInput)
    OBVIOUS
  <2> QED BY <1>1, <1>6, <2>1, LearnMoves
<1> HIDE DEF new, history
<1>8. TurnIsTyped(n, new)
  BY <1>1, <1>2, <1>5, <1>6 DEF TurnIsSound, TurnIsTyped
<1>9. TurnHasTools(n, new, registry[n], history, client', Gone')
  BY <1>1, <1>2, <1>5, <1>6, <1>7, Zenon DEF TurnIsSound, TurnHasTools, Pending
<1>10. LeavesTools(n, new, registry[n], history, client'.tools, Gone')
  BY <1>5, <1>7 DEF LeavesTools
<1>11. TurnIsSound(n, Gone)'
  BY <1>2, <1>3, <1>4, <1>5, <1>8, <1>9, <1>10 DEF TurnIsSound, TurnIsTyped
<1> QED BY <1>1, <1>3, <1>7, <1>11, TurnSteps

LEMMA PutKeeps ==
    ASSUME Inv, NEW n \in Turns, Put(n)
    PROVE  Inv'
<1> DEFINE t == turns[n]
           over == Ended(t, "over")
           history == History(t)
           out == OutputItems(t.mode, t.reply)
<1>1. t.pc = "put" /\ t.pc # "none"
  BY DEF Put
<1>2. TurnIsSound(n, Gone') /\ t \in ATurn
  BY <1>1, HandlerSteps, AtAStep
<1>3. /\ turns'[n] = over /\ store'[n] = history
      /\ count' = count /\ registry' = registry /\ budget' = budget
      /\ OnlyTurn(n)
      /\ IF t.mode \in {"whole", "compaction"} THEN Learn(n, out) ELSE client' = client
  BY InvParts DEF Put, OnlyTurn
<1>4. Headed(history)
  BY <1>2, HistoryIsHeaded DEF TurnIsSound, TurnIsTyped
<1>5. over.pc = "over" /\ over.mode = t.mode /\ over.whole = t.whole
  BY <1>2, EndedTurn
<1>6. TurnIsTyped(n, over)
  BY <1>1, EndedIsTyped
<1>7. out \in Seq(AnInput)
  BY <1>2, TurnFields, OutputItemsType
<1> HIDE DEF over, history, out
<1>8. t.mode \in {"whole", "compaction"} => client.waiting = n
  BY <1>1, <1>2 DEF TurnIsSound, TurnHasTools, Pending
<1>9. ClientMoves(n) /\ client'.style = client.style
  <2>1. CASE t.mode \in {"whole", "compaction"}
    BY <1>1, <1>3, <1>7, <1>8, <2>1, LearnMoves
  <2>2. CASE t.mode \notin {"whole", "compaction"}
    BY <1>3, <2>2, InvParts DEF ClientMoves, ClientStays
  <2> QED BY <2>1, <2>2
<1>10. client'.last = n => client'.tools = t.expected
  <2>1. CASE t.mode \in {"whole", "compaction"}
    BY <1>1, <1>3, <1>7, <1>8, <2>1, LearnMoves
  <2>2. CASE t.mode \notin {"whole", "compaction"}
    BY <1>1, <1>2, <1>3, <2>2 DEF TurnIsSound, LeavesTools
  <2> QED BY <2>1, <2>2
<1>11. over.whole /\ t.mode \notin Toolless =>
          registry[n] = t.expected \/ (registry[n] = 0 /\ GoneSince(t.expected, n + 1, Gone'))
  <2>1. t.whole /\ t.mode \notin Toolless =>
           registry[n] = t.expected \/ (registry[n] = 0 /\ GoneSince(t.expected, n, Gone'))
    BY <1>1, <1>2 DEF TurnIsSound, TurnHasTools, Toolless
  <2>2. Gone' \subseteq Nat /\ n \in Nat
    BY <1>3 DEF Gone, Turns
  <2>3. GoneSince(t.expected, n, Gone') => GoneSince(t.expected, n + 1, Gone')
    BY <2>2 DEF GoneSince
  <2> QED BY <1>5, <2>1, <2>3
<1>12. t.mode \in Toolless => registry[n] = 0 /\ GoneSince(t.expected, n + 1, Gone')
  <2>1. t.mode \in Toolless => registry[n] = 0
    BY <1>2 DEF TurnIsSound, TurnHasTools
  <2>2. t.mode \in Toolless => n \in Gone'
    BY <1>3, <1>5 DEF Gone
  <2>3. n \in Nat /\ t.expected \in 0..n
    BY <1>1, AtAStep
  <2> QED BY <2>1, <2>2, <2>3 DEF GoneSince
<1>13. client'.last = n => LeavesTools(n, over, registry[n], history, client'.tools, Gone')
  BY <1>5, <1>10, <1>11, <1>12 DEF LeavesTools, Complete, Toolless
<1>14. TurnHasTools(n, over, registry[n], history, client', Gone')
  BY <1>1, <1>2, <1>5, <1>9, Zenon DEF TurnIsSound, TurnHasTools, Pending
<1>15. TurnIsSound(n, Gone)'
  BY <1>2, <1>3, <1>4, <1>5, <1>6, <1>13, <1>14 DEF TurnIsSound, TurnIsTyped
<1> QED BY <1>1, <1>3, <1>9, <1>15, TurnSteps

LEMMA ReplyKeeps ==
    ASSUME Inv, NEW n \in Turns, Reply(n)
    PROVE  Inv'
<1> DEFINE t == turns[n]
<1>1. t.pc = "upstream" /\ t.pc # "none"
  BY DEF Reply
<1>2. TurnIsSound(n, Gone') /\ t \in ATurn
  BY <1>1, HandlerSteps, AtAStep
<1>3. PICK kinds \in Replies :
         LET reply == ReplyOf(n, kinds)
             out == OutputItems(t.mode, reply)
         IN  /\ turns' = [turns EXCEPT ![n] =
                   IF ~Puts(t) THEN Ended(t, "over")
                   ELSE [t EXCEPT !.reply = reply,
                                  !.pc = IF t.mode \in {"background"} \cup Compacting
                                         THEN "put" ELSE "put_tools"]]
             /\ CASE t.mode = "background" ->
                       client' = [client EXCEPT !.known = IF count = n THEN @ \o out ELSE @]
                  [] t.mode = "sse" \/ t.mode \in Socket \/ ~Puts(t) -> Learn(n, out)
                  [] OTHER -> UNCHANGED client
  BY Zenon DEF Reply
<1> DEFINE reply == ReplyOf(n, kinds)
           out == OutputItems(t.mode, reply)
           over == Ended(t, "over")
           pc == IF t.mode \in Toolless THEN "put" ELSE "put_tools"
           put == [t EXCEPT !.reply = reply, !.pc = pc]
           known == IF count = n THEN client.known \o out ELSE client.known
<1>4. reply \in Seq(AnInput) /\ out \in Seq(AnInput)
  BY ReplyOfType, OutputItemsType
<1>5. /\ turns'[n] = IF ~Puts(t) THEN over ELSE put
      /\ count' = count /\ store' = store /\ registry' = registry /\ budget' = budget
      /\ OnlyTurn(n)
  <2>1. turns' = [turns EXCEPT ![n] = IF ~Puts(t) THEN over ELSE put]
    BY <1>3, Zenon DEF Toolless
  <2>2. count' = count /\ store' = store /\ registry' = registry /\ budget' = budget
    BY DEF Reply
  <2> HIDE DEF over, put
  <2> QED BY <2>1, <2>2, OnlyTurnN
<1>6. t.mode = "background" => Puts(t)
  BY <1>1, <1>2 DEF TurnIsSound, TurnHasTools, Puts
<1>7. \/ t.mode = "background" /\ client' = [client EXCEPT !.known = known]
      \/ /\ t.mode # "background" /\ Learn(n, out)
         /\ Puts(t) => t.mode \notin {"whole", "compaction"}
      \/ t.mode # "background" /\ Puts(t) /\ client' = client
  <2>1. CASE t.mode = "background"
    <3>1. ~ (t.mode = "sse" \/ t.mode \in Socket \/ ~Puts(t))
      BY <1>6, <2>1 DEF Socket
    <3> QED BY <1>3, <2>1, <3>1, Zenon
  <2>2. CASE t.mode # "background"
    <3>1. IF t.mode = "sse" \/ t.mode \in Socket \/ ~Puts(t) THEN Learn(n, out)
          ELSE client' = client
      BY <1>3, <2>2, Zenon
    <3> QED BY <2>2, <3>1 DEF Socket
  <2> QED BY <2>1, <2>2
<1>8. t.mode # "background" => client.waiting = n
  BY <1>1, <1>2 DEF TurnIsSound, TurnHasTools, Pending
<1>9. /\ ClientMoves(n) /\ client'.style = client.style
      /\ client'.last = n => client'.tools = t.expected
  <2>1. CASE t.mode = "background" /\ client' = [client EXCEPT !.known = known]
    <3>1. known \in Seq(AnInput) /\ client \in AClient
      BY <1>4, InvParts, ClientFields, ConcatProperties
    <3> HIDE DEF known
    <3>2. /\ client' \in AClient /\ client'.style = client.style /\ ClientStays
          /\ client'.waiting = client.waiting
      BY <2>1, <3>1 DEF AClient, ClientStays
    <3> QED BY <1>1, <1>2, <3>2 DEF ClientMoves, ClientStays, TurnIsSound, LeavesTools
  <2>2. CASE t.mode # "background" /\ Learn(n, out)
    BY <1>1, <1>4, <1>8, <2>2, LearnMoves
  <2>3. CASE client' = client
    BY <1>1, <1>2, <2>3, InvParts DEF ClientMoves, ClientStays, TurnIsSound, LeavesTools
  <2> QED BY <1>7, <2>1, <2>2, <2>3
<1>10. CASE ~Puts(t)
  <2>1. turns'[n] = over
    BY <1>5, <1>10
  <2>2. TurnIsTyped(n, over) /\ over.pc = "over" /\ over.mode = t.mode
    BY <1>1, <1>2, EndedIsTyped, EndedTurn
  <2> HIDE DEF over
  <2>3. store[n] = Missing
    BY <1>1, <1>2, <1>6, <1>10 DEF TurnIsSound, TurnHasTools
  <2>4. TurnHasTools(n, over, registry[n], store[n], client', Gone')
    BY <1>1, <1>2, <1>9, <2>2, Zenon DEF TurnIsSound, TurnHasTools, Pending
  <2>5. LeavesTools(n, over, registry[n], store[n], client'.tools, Gone')
    BY <2>2, <2>3 DEF LeavesTools
  <2>6. TurnIsSound(n, Gone)'
    BY <1>2, <1>5, <2>1, <2>2, <2>4, <2>5 DEF TurnIsSound, TurnIsTyped
  <2> QED BY <1>1, <1>5, <1>9, <2>6, TurnSteps
<1>11. CASE Puts(t)
  <2>1. turns'[n] = put
    BY <1>5, <1>11
  <2>2. /\ put \in ATurn /\ put.pc = pc /\ put.mode = t.mode /\ put.prev = t.prev
        /\ put.tools = t.tools /\ put.expected = t.expected /\ put.whole = t.whole
        /\ put.given = t.given /\ put.sent = t.sent
    <3>1. pc \in Pc
      BY DEF Pc
    <3> HIDE DEF pc, reply
    <3> QED BY <1>2, <1>4, <3>1 DEF ATurn
  <2> HIDE DEF put
  <2>3. pc = IF t.mode \in Toolless THEN "put" ELSE "put_tools"
    OBVIOUS
  <2>4. TurnIsTyped(n, put)
    BY <1>1, <1>2, <2>2, <2>3 DEF TurnIsSound, TurnIsTyped
  <2>5. Pending(put) => client'.waiting = n
    BY <1>7, <1>8, <1>11, <2>2, <2>3 DEF Pending, Toolless
  <2>6. TurnHasTools(n, put, registry[n], store[n], client', Gone')
    BY <1>1, <1>2, <1>9, <2>2, <2>3, <2>5 DEF TurnIsSound, TurnHasTools
  <2>7. client'.last = n => LeavesTools(n, put, registry[n], store[n], client'.tools, Gone')
    BY <1>9, <2>2, <2>3 DEF LeavesTools
  <2>8. TurnIsSound(n, Gone)'
    BY <1>2, <1>5, <2>1, <2>2, <2>3, <2>4, <2>6, <2>7 DEF TurnIsSound, TurnIsTyped
  <2> QED BY <1>1, <1>5, <1>9, <2>8, TurnSteps
<1> QED BY <1>10, <1>11

\* What a turn's request becomes, before the limits.
LEMMA ConvertedIsHeaded ==
    ASSUME Inv, NEW n \in Turns, turns[n].pc # "none"
    PROVE  /\ Headed(Converted(n))
           /\ turns[n].mode \notin Compacting /\ turns[n].given # <<>> =>
                 Opens(Converted(n), Item("instructions", n))
<1> DEFINE t == turns[n]
           item == Item("instructions", n)
           current == items_to_chat_messages(t.input)
           restored == Restored(t.prev)
           prompt == Message("user", <<Item("prompt", n)>>)
<1>1. /\ t \in ATurn /\ n \in Nat /\ t.input \in Seq(AnInput) /\ t.prev \in 0..(n - 1)
      /\ t.given \in {<<>>, <<item>>}
  BY AtAStep, TurnFields DEF TurnIsTyped
<1>2. current \in Seq(PlainMessage)
  BY <1>1, ItemsToMessages
<1>3. Headed(restored)
  <2>1. CASE t.prev = 0 \/ store[t.prev] = Missing
    BY <2>1, KeepsNothing DEF Restored
  <2>2. CASE ~ (t.prev = 0 \/ store[t.prev] = Missing)
    <3>1. t.prev \in Turns
      BY <1>1, <2>2 DEF Turns
    <3> QED BY <2>2, <3>1, InvParts DEF Restored
  <2> QED BY <2>1, <2>2
<1>4. item \in AnItem
  BY <1>1, ItemTypes DEF Kind
<1>5. prompt \in PlainMessage
  <2>1. Item("prompt", n) \in APlain
    BY <1>1, ItemTypes DEF PlainKind, Kind
  <2>2. <<Item("prompt", n)>> \in Seq(APlain) /\ "user" \in Role
    BY <2>1 DEF Role
  <2> QED BY <2>2, MessageIsPlain
<1> DEFINE base == IF current # <<>> THEN current ELSE restored
           summarised == Append(base, prompt)
           asked == responses_to_chat(restored, t.given, t.input)
<1>6. Converted(n) = IF t.mode \in Compacting THEN summarised ELSE asked
  BY DEF Converted
<1>7. Headed(asked) /\ (t.given # <<>> => Opens(asked, item))
  <2> HIDE DEF restored, item
  <2> QED BY <1>1, <1>3, <1>4, RequestToMessages
<1>8. Headed(summarised)
  <2>1. Headed(base)
    BY <1>2, <1>3, PlainIsHeaded
  <2> HIDE DEF base, prompt
  <2>2. Keeps(base, summarised)
    BY <1>5, <2>1, KeepsItself, KeepsAppend
  <2> QED BY <2>1, <2>2, KeptIsHeaded
<1> HIDE DEF summarised, asked, item
<1> QED BY <1>6, <1>7, <1>8 DEF item

LEMMA ConvertedIs ==
    ASSUME Inv, NEW n \in Turns, turns[n].pc # "none"
    PROVE  /\ Headed(enforce_budgets(Converted(n), budget))
           /\ turns[n].mode \notin Compacting /\ turns[n].given # <<>> =>
                 Opens(enforce_budgets(Converted(n), budget), Item("instructions", n))
<1> DEFINE item == Item("instructions", n)
           converted == Converted(n)
<1>1. /\ Headed(converted)
      /\ turns[n].mode \notin Compacting /\ turns[n].given # <<>> => Opens(converted, item)
  BY ConvertedIsHeaded
<1> HIDE DEF converted, item
<1>2. /\ Headed(enforce_budgets(converted, budget))
      /\ Opens(converted, item) => Opens(enforce_budgets(converted, budget), item)
  BY <1>1, BudgetsKeep, InvParts
<1> QED BY <1>1, <1>2 DEF converted, item

\* If what it continues is settled and complete, its tools are those expected.
LEMMA OfferedIs ==
    ASSUME Inv, NEW n \in Turns, turns[n].pc = "convert"
    PROVE  /\ Offered(turns[n]) \in 0..n
           /\ /\ turns[n].mode \notin Compacting
              /\ turns[n].prev # 0 => Settled(turns[n].prev) /\ Complete(turns[turns[n].prev])
              => \/ Offered(turns[n]) = turns[n].expected
                 \/ /\ Offered(turns[n]) = 0 /\ turns[n].prev # 0
                    /\ GoneSince(turns[n].expected, n, Gone)
<1> DEFINE t == turns[n]
<1>1. t \in ATurn /\ n \in Nat /\ t.prev \in 0..(n - 1) /\ t.tools \in 0..n
  BY AtAStep DEF TurnIsTyped
<1>2. IF t.prev = 0 \/ t.tools # 0 THEN t.tools = t.expected
      ELSE t.prev = client.last /\ t.expected = client.tools
  BY InvParts DEF TurnHasTools
<1>3. CASE t.mode \in Compacting \/ t.tools # 0 \/ t.prev = 0
  BY <1>1, <1>2, <1>3 DEF Offered
<1>4. CASE ~ (t.mode \in Compacting \/ t.tools # 0 \/ t.prev = 0)
  <2>1. Offered(t) = registry[t.prev] /\ t.prev \in Turns /\ t.prev = client.last
        /\ t.prev # 0 /\ t.expected = client.tools
    BY <1>1, <1>2, <1>4 DEF Offered, Turns
  <2>2. registry[t.prev] \in 0..n
    BY <1>1, <2>1, InvParts
  <2>3. Settled(t.prev) /\ Complete(turns[t.prev]) =>
           \/ registry[t.prev] = client.tools
           \/ registry[t.prev] = 0 /\ GoneSince(client.tools, t.prev + 1, Gone)
    BY <2>1, InvParts DEF ClientHasTools, LeavesTools, Settled
  <2>4. GoneSince(client.tools, t.prev + 1, Gone) => GoneSince(client.tools, n, Gone)
    BY <1>1, <2>1, InvParts DEF GoneSince, Gone, Turns
  <2> QED BY <2>1, <2>2, <2>3, <2>4
<1> QED BY <1>3, <1>4

LEMMA ConvertKeeps ==
    ASSUME Inv, NEW n \in Turns, Convert(n)
    PROVE  Inv'
<1> DEFINE t == turns[n]
           pc == CASE t.mode = "background" -> "first_put"
                   [] t.mode = "warmup"     -> "put_tools"
                   [] OTHER                 -> "upstream"
           sent == enforce_budgets(Converted(n), budget)
           whole == t.prev # 0 => Settled(t.prev) /\ Complete(turns[t.prev])
           new == [t EXCEPT !.pc = pc, !.sent = sent, !.tools = Offered(t), !.whole = whole]
<1>1. t.pc = "convert" /\ t.pc # "none"
  BY DEF Convert
<1>2. TurnIsSound(n, Gone') /\ t \in ATurn /\ n \in Nat
  BY <1>1, HandlerSteps, AtAStep
<1>3. pc = IF t.mode = "background" THEN "first_put"
           ELSE IF t.mode = "warmup" THEN "put_tools" ELSE "upstream"
  OBVIOUS
<1>4. Headed(sent) /\ (t.mode \notin Compacting /\ t.given # <<>> =>
         Opens(sent, Item("instructions", n)))
  BY <1>1, ConvertedIs
<1>5. /\ Offered(t) \in 0..n
      /\ whole /\ t.mode \notin Compacting =>
            \/ Offered(t) = t.expected
            \/ Offered(t) = 0 /\ t.prev # 0 /\ GoneSince(t.expected, n, Gone')
  BY <1>1, OfferedIs, HandlerSteps, OthersStayGone, GoneSinceStill
<1>6. whole \in BOOLEAN
  OBVIOUS
<1> HIDE DEF pc, sent, whole
<1>7. /\ turns'[n] = new
      /\ count' = count /\ store' = store /\ registry' = registry /\ budget' = budget
      /\ OnlyTurn(n)
      /\ IF t.mode = "warmup" THEN Learn(n, <<>>) ELSE client' = client
  <2>1. /\ turns' = [turns EXCEPT ![n] = new]
        /\ count' = count /\ store' = store /\ registry' = registry /\ budget' = budget
        /\ IF t.mode = "warmup" THEN Learn(n, <<>>) ELSE client' = client
    BY Zenon DEF Convert, pc, sent, whole
  <2> HIDE DEF new
  <2> QED BY <2>1, OnlyTurnN
<1>8. /\ new \in ATurn /\ new.pc = pc /\ new.mode = t.mode /\ new.prev = t.prev
      /\ new.tools = Offered(t) /\ new.expected = t.expected /\ new.whole = whole
      /\ new.given = t.given /\ new.sent = sent
  <2>1. pc \in Pc /\ sent \in Seq(AMessage) /\ Offered(t) \in Nat
    BY <1>2, <1>3, <1>4, <1>5 DEF Pc, Headed
  <2> QED BY <1>2, <1>6, <2>1 DEF ATurn
<1> HIDE DEF new
<1>9. client.waiting = n
  BY <1>1, <1>2 DEF TurnIsSound, TurnHasTools, Pending
<1>10. /\ ClientMoves(n) /\ client'.style = client.style
       /\ t.mode # "warmup" => client' = client
       /\ client'.last = n =>
             t.mode = "warmup" /\ client'.tools = t.expected
  <2>1. CASE t.mode = "warmup"
    <3>1. <<>> \in Seq(AnInput)
      OBVIOUS
    <3> QED BY <1>1, <1>7, <1>9, <2>1, <3>1, LearnMoves
  <2>2. CASE t.mode # "warmup"
    <3>1. client.last < n
      BY <1>1, <1>9, AtAStep, InvParts
    <3>2. client.last # n
      BY <1>2, <3>1, InvParts
    <3> QED BY <1>7, <2>2, <3>2, InvParts DEF ClientMoves, ClientStays
  <2> QED BY <2>1, <2>2
<1>11. TurnIsTyped(n, new)
  BY <1>1, <1>2, <1>3, <1>4, <1>5, <1>8 DEF TurnIsSound, TurnIsTyped
<1>12. TurnHasTools(n, new, registry[n], store[n], client', Gone')
  <2>1. /\ t.mode # "background" => store[n] = Missing
        /\ t.mode = "background" => client'.style = "stored"
        /\ t.mode \in Toolless => registry[n] = 0
    BY <1>1, <1>2, <1>10 DEF TurnIsSound, TurnHasTools
  <2>2. Pending(new) => client'.waiting = n
    BY <1>3, <1>8, <1>9, <1>10 DEF Pending
  <2>3. new.pc = "put_tools" => t.mode \notin Toolless
    BY <1>3, <1>8 DEF Toolless, Compacting
  <2> QED BY <1>3, <1>5, <1>8, <2>1, <2>2, <2>3 DEF TurnHasTools
<1>13. client'.last = n => LeavesTools(n, new, registry[n], store[n], client'.tools, Gone')
  BY <1>3, <1>8, <1>10 DEF LeavesTools
<1>14. TurnIsSound(n, Gone)'
  BY <1>2, <1>3, <1>7, <1>8, <1>11, <1>12, <1>13 DEF TurnIsSound, TurnIsTyped
<1> QED BY <1>1, <1>7, <1>10, <1>14, TurnSteps

LEMMA NewsAreItems ==
    ASSUME Inv, NEW n \in Nat, NEW mode, NEW new \in News(n, mode)
    PROVE  new \in Seq(AnInput)
<1> DEFINE outputs == [i \in DOMAIN client.calls |-> Output(n, client.calls[i].call)]
           user == <<Item("user", n)>>
<1>1. client.calls \in Seq(AnInput)
  BY InvParts, ClientFields
<1>2. outputs \in Seq(AnInput)
  <2>1. ASSUME NEW i \in 1..Len(client.calls) PROVE Output(n, client.calls[i].call) \in AnInput
    <3>1. client.calls[i] \in AnInput /\ DOMAIN client.calls = 1..Len(client.calls)
      BY <1>1
    <3>2. client.calls[i].call \in Nat \X Nat
      BY <3>1 DEF AnInput
    <3> QED BY <3>2 DEF Output, AnInput, InputKind, Kind
  <2> QED BY <1>1, <2>1
<1>3. user \in Seq(AnInput)
  BY ItemTypes DEF InputKind, Kind
<1>4. <<>> \in Seq(AnInput)
  OBVIOUS
<1>5. new \in {<<>>, user, outputs, outputs \o user}
  BY Zenon DEF News
<1> HIDE DEF outputs, user
<1>6. outputs \o user \in Seq(AnInput)
  BY <1>2, <1>3
<1> QED BY <1>2, <1>3, <1>4, <1>5, <1>6

LEMMA BeginKeeps ==
    ASSUME Inv, NEW mode \in Mode, Begin(mode)
    PROVE  Inv'
<1> DEFINE n == count + 1
           inline == IF Continues(mode) THEN <<>> ELSE client.known
           prev == IF Continues(mode) THEN client.last ELSE 0
<1>1. /\ n \in Turns /\ client.waiting = 0 /\ Allowed(mode) /\ count' = n
      /\ client' = [client EXCEPT !.waiting = n]
      /\ store' = store /\ registry' = registry /\ budget' = budget
  BY DEF Begin
<1>2. PICK new \in News(n, mode), instructs \in BOOLEAN, declares \in BOOLEAN :
         turns' = [turns EXCEPT ![n] =
            [NoTurn EXCEPT
                !.pc = "convert", !.mode = mode, !.new = new, !.prev = prev,
                !.given = IF instructs THEN <<Item("instructions", n)>> ELSE <<>>,
                !.input = inline \o new,
                !.tools = IF declares THEN n
                          ELSE IF Continues(mode) THEN 0 ELSE client.tools,
                !.said = client.known \o new,
                !.expected = IF declares THEN n ELSE client.tools]]
  BY ZenonT(60) DEF Begin
<1> DEFINE given == IF instructs THEN <<Item("instructions", n)>> ELSE <<>>
           tools == IF declares THEN n ELSE IF Continues(mode) THEN 0 ELSE client.tools
           expected == IF declares THEN n ELSE client.tools
           input == inline \o new
           said == client.known \o new
           t == [NoTurn EXCEPT !.pc = "convert", !.mode = mode, !.new = new, !.prev = prev,
                               !.given = given, !.input = input, !.tools = tools,
                               !.said = said, !.expected = expected]
<1>3. turns' = [turns EXCEPT ![n] = t]
  BY <1>2, Zenon
<1>4. /\ n \in Nat /\ count \in Nat /\ n # 0 /\ client \in AClient /\ client.last \in 0..count
      /\ client.tools \in 0..count /\ client.known \in Seq(AnInput)
      /\ turns[n].pc = "none" /\ DOMAIN turns = Turns
  BY <1>1, InvParts, ClientFields DEF TurnIsTyped
<1>5. prev \in 0..(n - 1) /\ tools \in 0..n /\ expected \in 0..n
  <2>1. 0 \in 0..(n - 1) /\ client.last \in 0..(n - 1)
    BY <1>4
  <2>2. 0 \in 0..n /\ n \in 0..n /\ client.tools \in 0..n
    BY <1>4
  <2> QED BY <2>1, <2>2
<1>6. given \in {<<>>, <<Item("instructions", n)>>} /\ given \in Seq(AnItem)
  BY <1>4, ItemTypes DEF Kind
<1>7. new \in Seq(AnInput) /\ input \in Seq(AnInput) /\ said \in Seq(AnInput)
  <2>1. new \in Seq(AnInput)
    BY <1>4, NewsAreItems
  <2>2. inline \in Seq(AnInput)
    BY <1>4
  <2> HIDE DEF inline
  <2> QED BY <1>4, <2>1, <2>2
<1>8. IF prev = 0 \/ tools # 0 THEN tools = expected
      ELSE prev = client.last /\ expected = client.tools
  BY <1>4 DEF Continues
<1> HIDE DEF prev, given, tools, expected, input, said
<1>9. /\ t \in ATurn /\ t.pc = "convert" /\ t.mode = mode /\ t.prev = prev /\ t.given = given
      /\ t.tools = tools /\ t.expected = expected /\ t.sent = <<>>
  <2>1. /\ <<>> \in Seq(AnItem) /\ <<>> \in Seq(AnInput) /\ <<>> \in Seq(AMessage)
    OBVIOUS
  <2>2. NoTurn \in ATurn /\ NoTurn.sent = <<>>
    BY <2>1 DEF NoTurn, ATurn, Pc, Mode
  <2>3. "convert" \in Pc /\ prev \in Nat /\ tools \in Nat /\ expected \in Nat
    BY <1>4, <1>5 DEF Pc
  <2> QED BY <1>6, <1>7, <2>2, <2>3 DEF ATurn
<1> HIDE DEF t
<1>10. /\ client' \in AClient /\ client'.style = client.style /\ client'.last = client.last
       /\ client'.tools = client.tools /\ client'.waiting = n
  BY <1>1, <1>4 DEF AClient
<1>11. /\ turns'[n] = t /\ DOMAIN turns' = Turns
       /\ \A m \in Turns : m # n => turns'[m] = turns[m]
  BY <1>1, <1>3, <1>4
<1>12. Typed'
  <2>1. \A m \in Turns : TurnIsTyped(m, turns[m])'
    <3> TAKE m \in Turns
    <3>1. CASE m = n
      <4>1. Headed(t.sent)
        BY <1>9, KeepsNothing
      <4> QED BY <1>1, <1>4, <1>5, <1>6, <1>9, <1>11, <3>1, <4>1 DEF TurnIsTyped
    <3>2. CASE m # n
      <4>1. TurnIsTyped(m, turns[m])
        BY InvParts
      <4>2. m > count <=> m > count'
        BY <1>1, <1>4, <3>2 DEF Turns
      <4> QED BY <1>11, <3>2, <4>1, <4>2 DEF TurnIsTyped
    <3> QED BY <3>1, <3>2
  <2>2. /\ count' \in 0..MaxTurns /\ client'.last \in 0..count' /\ client'.tools \in 0..count'
        /\ client'.waiting # 0 => client'.waiting = count' /\ client'.last < count'
    BY <1>1, <1>4, <1>10 DEF Turns
  <2> QED BY <1>1, <1>10, <1>11, <2>1, <2>2, InvParts DEF Typed
<1>13. Gone \subseteq Gone'
  BY <1>4, <1>11 DEF Gone
<1>14. TurnsHaveTools'
  <2>1. ASSUME NEW m \in Turns
        PROVE  TurnHasTools(m, turns'[m], registry[m], store[m], client', Gone')
    <3>1. TurnHasTools(m, turns[m], registry[m], store[m], client, Gone)
      BY InvParts
    <3>2. CASE m = n
      <4>1. registry[n] = 0 /\ store[n] = Missing
        BY <1>4, <3>1, <3>2 DEF TurnHasTools
      <4>2. mode = "background" => client.style = "stored"
        BY <1>1 DEF Allowed
      <4> QED BY <1>8, <1>9, <1>10, <1>11, <3>2, <4>1, <4>2 DEF TurnHasTools
    <3>3. CASE m # n
      <4>1. client.waiting # m
        BY <1>1 DEF Turns
      <4>2. TurnHasTools(m, turns[m], registry[m], store[m], client', Gone')
        BY <1>10, <1>13, <3>1, <4>1, OthersKeepTools
      <4> QED BY <1>11, <3>3, <4>2
    <3> QED BY <3>2, <3>3
  <2> QED BY <1>1, <2>1 DEF TurnsHaveTools
<1>15. ClientHasTools'
  <2> SUFFICES ASSUME client.last # 0
               PROVE  LeavesTools(client.last, turns'[client.last], registry[client.last],
                                  store[client.last], client.tools, Gone')
    BY <1>1, <1>10 DEF ClientHasTools
  <2>1. client.last \in Turns /\ client.last # n
    BY <1>1, <1>4 DEF Turns
  <2> QED BY <1>11, <1>13, <2>1, InvParts, LeavesStill DEF ClientHasTools
<1> QED BY <1>12, <1>14, <1>15 DEF Inv

-----------------------------------------------------------------------------
(* The invariant holds, and what it says                                   *)

LEMMA InitIsSound ==
    ASSUME Init
    PROVE  Inv
<1>1. /\ turns = [n \in Turns |-> NoTurn] /\ count = 0 /\ budget \in Budgets
      /\ store = [n \in Turns |-> Missing] /\ registry = [n \in Turns |-> 0]
  BY DEF Init
<1>2. client \in AClient /\ client.last = 0 /\ client.tools = 0 /\ client.waiting = 0
  <2>1. <<>> \in Seq(AnInput)
    OBVIOUS
  <2>2. client \in [style : Style, last : {0}, known : {<<>>}, calls : {<<>>},
                    tools : {0}, waiting : {0}]
    BY DEF Init
  <2>3. /\ client = [style |-> client.style, last |-> client.last, known |-> client.known,
                      calls |-> client.calls, tools |-> client.tools,
                      waiting |-> client.waiting]
        /\ client.style \in Style /\ client.last = 0 /\ client.known = <<>>
        /\ client.calls = <<>> /\ client.tools = 0 /\ client.waiting = 0
    BY <2>2
  <2> DEFINE known == client.known
             calls == client.calls
  <2>4. known \in Seq(AnInput) /\ calls \in Seq(AnInput)
    BY <2>1, <2>3
  <2> HIDE DEF known, calls
  <2>5. client = [style |-> client.style, last |-> 0, known |-> known, calls |-> calls,
                  tools |-> 0, waiting |-> 0]
    BY <2>3 DEF known, calls
  <2> QED BY <2>3, <2>4, <2>5 DEF AClient
<1>3. NoTurn \in ATurn /\ NoTurn.pc = "none" /\ NoTurn.prev = 0 /\ NoTurn.tools = 0
      /\ NoTurn.expected = 0 /\ NoTurn.given = <<>> /\ NoTurn.sent = <<>>
  <2>1. /\ <<>> \in Seq(AnItem) /\ <<>> \in Seq(AnInput) /\ <<>> \in Seq(AMessage)
    OBVIOUS
  <2> QED BY <2>1 DEF NoTurn, ATurn, Pc, Mode
<1>4. \A n \in Turns : turns[n] = NoTurn /\ store[n] = Missing /\ registry[n] = 0
  BY <1>1
<1>5. ASSUME NEW n \in Turns PROVE TurnIsTyped(n, NoTurn)
  <2>1. n \in Nat /\ n > 0
    BY DEF Turns
  <2>2. Headed(NoTurn.sent)
    BY <1>3, KeepsNothing
  <2> QED BY <1>1, <1>3, <2>1, <2>2 DEF TurnIsTyped
<1>6. Typed
  BY <1>1, <1>2, <1>4, <1>5 DEF Typed, Turns
<1>7. ASSUME NEW n \in Turns PROVE TurnHasTools(n, NoTurn, 0, Missing, client, Gone)
  BY <1>3 DEF TurnHasTools, Pending
<1>8. TurnsHaveTools
  BY <1>4, <1>7 DEF TurnsHaveTools
<1> QED BY <1>2, <1>6, <1>8 DEF Inv, ClientHasTools

LEMMA NextKeeps ==
    ASSUME Inv, [Next]_vars
    PROVE  Inv'
<1>1. CASE UNCHANGED vars
  BY <1>1 DEF vars, Inv, Typed, TurnIsTyped, TurnsHaveTools, TurnHasTools, ClientHasTools,
              LeavesTools, Complete, Pending, Gone
<1>2. CASE Next
  BY <1>2, BeginKeeps, ConvertKeeps, FirstPutKeeps, ReplyKeeps, FailKeeps, PutToolsKeeps,
     PutKeeps DEF Next
<1> QED BY <1>1, <1>2

LEMMA InvHolds == Spec => []Inv
BY InitIsSound, NextKeeps, PTL DEF Spec

\* Histories and turns have their types, and what is held is made of messages
\* of the four roles (convert/request.rs, store.rs).
THEOREM TypeCorrect == Spec => []TypeOK
<1>1. ASSUME Inv PROVE TypeOK
  <2>1. /\ client.style \in Style
        /\ client.waiting \in {0, count}
    BY <1>1, InvParts, ClientFields
  <2>2. ASSUME NEW n \in Turns
        PROVE  /\ turns[n].pc \in Pc /\ (turns[n].pc = "none" <=> n > count)
               /\ turns[n].mode \in Mode /\ turns[n].prev \in 0..(n - 1)
               /\ turns[n].tools \in 0..n /\ registry[n] \in 0..n
    BY <1>1, InvParts, TurnFields DEF TurnIsTyped
  <2>3. ASSUME NEW n \in Turns, store[n] # Missing, NEW i \in DOMAIN store[n]
        PROVE  store[n][i].role \in {"system", "user", "assistant", "tool"}
    <3>1. Headed(store[n])
      BY <1>1, <2>3, InvParts
    <3>2. store[n][i] \in AMessage
      BY <3>1 DEF Headed
    <3> QED BY <3>2 DEF AMessage, Role
  <2> QED BY <1>1, <2>1, <2>2, <2>3, InvParts DEF TypeOK, Pc
<1> QED BY <1>1, InvHolds, PTL

\* New instructions replace the old ones. A turn without tools of its own gets
\* those last declared, never older ones; if a background or a compaction turn
\* came since, it may get none (merge_instructions, the tools registry).
THEOREM TheLastGivenApplies == Spec => []LastGivenApplies
<1>1. ASSUME Inv PROVE InstructionsAreReplaced
  <2> SUFFICES ASSUME NEW n \in Asking, turns[n].mode \notin Compacting
      PROVE  LET t == turns[n] IN
             /\ \A i \in DOMAIN t.sent : \A k \in DOMAIN t.sent[i].body :
                   t.sent[i].body[k].kind = "instructions" => i = 1 /\ Len(t.sent[1].body) = 1
             /\ t.given # <<>> => t.sent[1].body = t.given
    BY DEF InstructionsAreReplaced
  <2> DEFINE t == turns[n]
  <2>1. n \in Turns /\ t.pc = "upstream"
    BY DEF Asking, Asks
  <2>2. /\ Headed(t.sent) /\ t.given \in {<<>>, <<Item("instructions", n)>>}
        /\ t.given # <<>> => Opens(t.sent, Item("instructions", n))
    BY <1>1, <2>1, InvParts DEF TurnIsTyped
  <2>3. t.given # <<>> => t.sent[1].body = t.given
    BY <2>2 DEF Opens
  <2>4. ASSUME NEW i \in DOMAIN t.sent, NEW k \in DOMAIN t.sent[i].body,
               t.sent[i].body[k].kind = "instructions"
        PROVE  i = 1 /\ Len(t.sent[1].body) = 1
    <3>1. t.sent[i] \notin PlainMessage
      <4> SUFFICES ASSUME t.sent[i].body \in Seq(APlain) PROVE FALSE
        BY DEF PlainMessage
      <4>1. t.sent[i].body[k] \in APlain
        OBVIOUS
      <4> QED BY <2>4, <4>1 DEF APlain, PlainKind
    <3>2. i \in 1..Len(t.sent)
      BY <2>2 DEF Headed
    <3> QED BY <2>2, <3>1, <3>2 DEF Headed, Instructing
  <2> QED BY <2>3, <2>4
<1>2. ASSUME Inv PROVE ToolsCarryOver
  <2> SUFFICES ASSUME NEW n \in Asking, turns[n].mode \notin Compacting
      PROVE  LET t == turns[n] IN
             \/ t.tools = t.expected
             \/ t.tools = 0 /\ t.prev # 0 /\ Lost(t.expected, n)
    BY DEF ToolsCarryOver
  <2>1. n \in Turns /\ turns[n].pc = "upstream" /\ turns[n].whole
    BY DEF Asking, Asks
  <2>2. \/ turns[n].tools = turns[n].expected
        \/ /\ turns[n].tools = 0 /\ turns[n].prev # 0
           /\ GoneSince(turns[n].expected, n, Gone)
    BY <1>2, <2>1, InvParts DEF TurnHasTools
  <2>3. GoneSince(turns[n].expected, n, Gone) => Lost(turns[n].expected, n)
    BY DEF GoneSince, Gone, Lost
  <2> QED BY <2>2, <2>3
<1>3. ASSUME Inv PROVE LastGivenApplies
  BY <1>1, <1>2, <1>3 DEF LastGivenApplies
<1> QED BY <1>3, InvHolds, PTL

-----------------------------------------------------------------------------
(* Calls and what answers them                                             *)

\* An assistant's message that has the call.
Speaks(message, call) ==
    /\ message.role = "assistant"
    /\ \E k \in DOMAIN message.body : message.body[k].kind = "call" /\ message.body[k].call = call

\* The call was made before place n, and the user has said nothing since.
CalledBefore(ms, n, call) ==
    \E j \in 1..(n - 1) : Speaks(ms[j], call) /\ \A m \in (j + 1)..(n - 1) : ms[m].role # "user"

\* A call that may still be answered at the end.
Held(ms, call) == CalledBefore(ms, Len(ms) + 1, call)

\* Whatever a tool's message answers was called before it, in the same turn of the user.
Rounds(ms) ==
    \A i \in 1..Len(ms) : ms[i].role = "tool" => CalledBefore(ms, i, ms[i].body[1].call)

\* The same of items that follow a history with these calls.
ItemHeld(items, n, calls, call) ==
    \/ call \in calls /\ \A m \in 1..(n - 1) : items[m].kind # "user"
    \/ \E j \in 1..(n - 1) : /\ items[j].kind = "call" /\ items[j].call = call
                             /\ \A m \in (j + 1)..(n - 1) : items[m].kind # "user"

Answers(items, calls) ==
    \A i \in 1..Len(items) : items[i].kind = "output" => ItemHeld(items, i, calls, items[i].call)

CallIn(items, call) == \E k \in DOMAIN items : items[k].kind = "call" /\ items[k].call = call

-----------------------------------------------------------------------------
(* Messages one after the other                                            *)

\* What was called before is so later, while the user says nothing.
LEMMA CalledStill ==
    ASSUME NEW ms \in Seq(AMessage), NEW more \in Seq(AMessage), NEW n \in 1..(Len(ms) + 1),
           NEW to \in n..(Len(ms) + Len(more) + 1), NEW call, CalledBefore(ms, n, call),
           \A m \in n..(to - 1) : (ms \o more)[m].role # "user"
    PROVE  CalledBefore(ms \o more, to, call)
<1> DEFINE all == ms \o more
<1>1. \A i \in 1..Len(ms) : all[i] = ms[i]
  OBVIOUS
<1>2. PICK j \in 1..(n - 1) :
         Speaks(ms[j], call) /\ \A m \in (j + 1)..(n - 1) : ms[m].role # "user"
  BY DEF CalledBefore
<1>3. \A m \in n..(to - 1) : all[m].role # "user"
  OBVIOUS
<1> HIDE DEF all
<1>4. j \in 1..(to - 1) /\ j \in 1..Len(ms) /\ Speaks(all[j], call)
  BY <1>1, <1>2
<1>5. \A m \in (j + 1)..(to - 1) : all[m].role # "user"
  <2> TAKE m \in (j + 1)..(to - 1)
  <2>1. CASE m < n
    <3>1. m \in 1..Len(ms) /\ m \in (j + 1)..(n - 1)
      BY <2>1
    <3> QED BY <1>1, <1>2, <3>1
  <2>2. CASE m >= n
    <3>1. m \in n..(to - 1)
      BY <2>2
    <3> QED BY <1>3, <3>1
  <2> QED BY <2>1, <2>2
<1>6. CalledBefore(all, to, call)
  BY <1>4, <1>5 DEF CalledBefore
<1> QED BY <1>6 DEF all

\* What comes before a sequence changes nothing in it.
LEMMA CalledAfter ==
    ASSUME NEW first \in Seq(AMessage), NEW ms \in Seq(AMessage), NEW n \in 1..(Len(ms) + 1),
           NEW call, CalledBefore(ms, n, call)
    PROVE  CalledBefore(first \o ms, Len(first) + n, call)
<1> DEFINE all == first \o ms
           f == Len(first)
<1>1. \A i \in 1..Len(ms) : all[f + i] = ms[i]
  OBVIOUS
<1>2. f \in Nat /\ Len(ms) \in Nat
  OBVIOUS
<1>3. PICK j \in 1..(n - 1) :
         Speaks(ms[j], call) /\ \A m \in (j + 1)..(n - 1) : ms[m].role # "user"
  BY DEF CalledBefore
<1> HIDE DEF all, f
<1>4. f + j \in 1..(f + n - 1) /\ Speaks(all[f + j], call)
  BY <1>1, <1>2, <1>3
<1>5. \A m \in (f + j + 1)..(f + n - 1) : all[m].role # "user"
  <2> TAKE m \in (f + j + 1)..(f + n - 1)
  <2>1. m - f \in (j + 1)..(n - 1) /\ m - f \in 1..Len(ms) /\ f + (m - f) = m
    BY <1>2
  <2>2. all[f + (m - f)] = ms[m - f]
    BY <1>1, <2>1
  <2> QED BY <1>3, <2>1, <2>2
<1> DEFINE at == f + j
           to == f + n
<1>6. at \in 1..(to - 1) /\ Speaks(all[at], call) /\ \A m \in (at + 1)..(to - 1) : all[m].role # "user"
  BY <1>2, <1>4, <1>5
<1> HIDE DEF at, to
<1>7. CalledBefore(all, to, call)
  BY <1>6 DEF CalledBefore
<1> QED BY <1>7 DEF all, f, to

LEMMA HeldConcat ==
    ASSUME NEW ms \in Seq(AMessage), NEW more \in Seq(AMessage), NEW call
    PROVE  /\ Held(more, call) => Held(ms \o more, call)
           /\ Held(ms, call) /\ (\A i \in 1..Len(more) : more[i].role # "user")
                 => Held(ms \o more, call)
<1>1. Len(ms \o more) = Len(ms) + Len(more) /\ Len(ms) \in Nat /\ Len(more) \in Nat
  OBVIOUS
<1>2. ASSUME Held(more, call) PROVE Held(ms \o more, call)
  <2>1. CalledBefore(ms \o more, Len(ms) + (Len(more) + 1), call)
    BY <1>1, <1>2, CalledAfter DEF Held
  <2>2. Len(ms) + (Len(more) + 1) = Len(ms \o more) + 1
    BY <1>1
  <2> QED BY <2>1, <2>2 DEF Held
<1>3. ASSUME Held(ms, call), \A i \in 1..Len(more) : more[i].role # "user"
      PROVE  Held(ms \o more, call)
  <2>1. \A m \in (Len(ms) + 1)..(Len(ms) + Len(more)) : (ms \o more)[m].role # "user"
    <3> TAKE m \in (Len(ms) + 1)..(Len(ms) + Len(more))
    <3>1. (ms \o more)[m] = more[m - Len(ms)] /\ m - Len(ms) \in 1..Len(more)
      BY ConcatParts, <1>1
    <3> QED BY <1>3, <3>1
  <2> DEFINE n == Len(ms) + 1
             to == Len(ms) + Len(more) + 1
  <2>2. n \in 1..(Len(ms) + 1) /\ to \in n..(Len(ms) + Len(more) + 1) /\ CalledBefore(ms, n, call)
        /\ \A m \in n..(to - 1) : (ms \o more)[m].role # "user"
    BY <1>1, <1>3, <2>1 DEF Held
  <2> HIDE DEF n, to
  <2>3. CalledBefore(ms \o more, to, call)
    BY <2>2, CalledStill
  <2> QED BY <1>1, <2>3 DEF Held, to
<1> QED BY <1>2, <1>3

\* Answers to calls that are held.
AllAnswer(ms, more) ==
    \A i \in 1..Len(more) : more[i].role = "tool" /\ Held(ms, more[i].body[1].call)

LEMMA RoundsConcat ==
    ASSUME NEW ms \in Seq(AMessage), NEW more \in Seq(AMessage), Rounds(ms),
           Rounds(more) \/ AllAnswer(ms, more)
    PROVE  Rounds(ms \o more)
<1> DEFINE all == ms \o more
           n == Len(ms)
<1>1. /\ Len(all) = n + Len(more) /\ n \in Nat /\ Len(more) \in Nat
      /\ \A i \in 1..n : all[i] = ms[i]
      /\ \A i \in (n + 1)..Len(all) : all[i] = more[i - n] /\ i - n \in 1..Len(more)
  BY ConcatParts
<1> SUFFICES ASSUME NEW i \in 1..Len(all), all[i].role = "tool"
             PROVE  CalledBefore(all, i, all[i].body[1].call)
  BY DEF Rounds
<1> DEFINE call == all[i].body[1].call
<1> HIDE DEF all
<1>2. CASE i <= n
  <2>1. all[i] = ms[i] /\ i \in 1..Len(ms) /\ i \in 1..(Len(ms) + 1)
        /\ i \in i..(Len(ms) + Len(more) + 1)
    BY <1>1, <1>2
  <2>2. CalledBefore(ms, i, call)
    BY <2>1 DEF Rounds
  <2> HIDE DEF call
  <2>3. \A m \in i..(i - 1) : (ms \o more)[m].role # "user"
    OBVIOUS
  <2>4. CalledBefore(ms \o more, i, call)
    BY <2>1, <2>2, <2>3, CalledStill
  <2> QED BY <2>4 DEF all, call
<1>3. CASE i > n
  <2> DEFINE k == i - n
  <2>1. all[i] = more[k] /\ k \in 1..Len(more) /\ i = n + k /\ k \in 1..(Len(more) + 1)
    BY <1>1, <1>3
  <2> HIDE DEF k
  <2>2. CASE Rounds(more)
    <3>1. CalledBefore(more, k, call)
      BY <2>1, <2>2 DEF Rounds
    <3> HIDE DEF call
    <3>2. CalledBefore(ms \o more, Len(ms) + k, call)
      BY <2>1, <3>1, CalledAfter
    <3> QED BY <2>1, <3>2 DEF all, call
  <2>3. CASE AllAnswer(ms, more)
    <3>1. Held(ms, call)
      BY <2>1, <2>3 DEF AllAnswer
    <3>2. \A m \in (n + 1)..(i - 1) : all[m].role # "user"
      <4> TAKE m \in (n + 1)..(i - 1)
      <4>1. all[m] = more[m - n] /\ m - n \in 1..Len(more)
        BY <1>1
      <4>2. more[m - n].role = "tool"
        BY <2>3, <4>1 DEF AllAnswer
      <4> QED BY <4>1, <4>2
    <3> DEFINE from == n + 1
    <3>3. from \in 1..(Len(ms) + 1) /\ i \in from..(Len(ms) + Len(more) + 1)
          /\ CalledBefore(ms, from, call) /\ \A m \in from..(i - 1) : (ms \o more)[m].role # "user"
      BY <1>1, <1>3, <3>1, <3>2 DEF Held, all
    <3> HIDE DEF from, call
    <3>4. CalledBefore(ms \o more, i, call)
      BY <3>3, CalledStill
    <3> QED BY <3>4 DEF all, call
  <2> QED BY <2>2, <2>3
<1> QED BY <1>2, <1>3

LEMMA RoundsEmpty == Rounds(<<>>)
BY DEF Rounds

LEMMA RoundsOne ==
    ASSUME NEW m, m.role # "tool"
    PROVE  Rounds(<<m>>)
<1>1. Len(<<m>>) = 1 /\ <<m>>[1] = m
  OBVIOUS
<1> QED BY <1>1 DEF Rounds

\* One more message, which is no answer.
LEMMA RoundsAppend ==
    ASSUME NEW ms \in Seq(AMessage), Rounds(ms), NEW m \in AMessage, m.role # "tool"
    PROVE  /\ Rounds(Append(ms, m))
           /\ m.role # "user" => \A call : Held(ms, call) => Held(Append(ms, m), call)
           /\ \A call : Speaks(m, call) => Held(Append(ms, m), call)
<1> DEFINE one == <<m>>
<1>1. one \in Seq(AMessage) /\ Len(one) = 1 /\ one[1] = m /\ Append(ms, m) = ms \o one
  OBVIOUS
<1>2. Rounds(one)
  BY RoundsOne
<1> HIDE DEF one
<1>3. Rounds(ms \o one)
  BY <1>1, <1>2, RoundsConcat
<1>4. ASSUME m.role # "user", NEW call, Held(ms, call) PROVE Held(ms \o one, call)
  <2>1. \A i \in 1..Len(one) : one[i].role # "user"
    BY <1>1, <1>4
  <2> QED BY <1>1, <1>4, <2>1, HeldConcat
<1>5. ASSUME NEW call, Speaks(m, call) PROVE Held(ms \o one, call)
  <2>1. Held(one, call)
    <3>1. 1 \in 1..(2 - 1) /\ \A k \in (1 + 1)..(2 - 1) : FALSE
      OBVIOUS
    <3>2. CalledBefore(one, 2, call)
      BY <1>1, <1>5, <3>1 DEF CalledBefore
    <3> QED BY <1>1, <3>2 DEF Held
  <2> QED BY <1>1, <2>1, HeldConcat
<1> QED BY <1>1, <1>3, <1>4, <1>5

-----------------------------------------------------------------------------
(* What a walk does with calls and outputs                                 *)

LEMMA ConcatLast ==
    ASSUME NEW S, NEW a \in Seq(S), NEW b \in Seq(S)
    PROVE  /\ a \o b \in Seq(S) /\ Len(a \o b) = Len(a) + Len(b)
           /\ \A i \in 1..Len(b) : Len(a) + i \in DOMAIN (a \o b) /\ (a \o b)[Len(a) + i] = b[i]
OBVIOUS

\* The call is held by the messages so far, or kept for the next.
Waits(w, call) == Held(w.messages, call) \/ CallIn(w.calls, call)

\* Of a walk from which these calls can be answered.
WalkHolds(w, calls) ==
    /\ Rounds(w.messages)
    /\ \A i \in 1..Len(w.calls) : w.calls[i].kind = "call"
    /\ \A i \in 1..Len(w.deferred) :
          w.deferred[i].role = "tool" /\ Waits(w, w.deferred[i].body[1].call)
    /\ \A call \in calls : Waits(w, call)

LEMMA FlushHolds ==
    ASSUME NEW h, NEW w \in Walks(h), NEW calls, WalkHolds(w, calls)
    PROVE  LET f == flush(w) IN
           /\ Rounds(f.messages) /\ f.calls = <<>> /\ f.deferred = w.deferred
           /\ \A call : Waits(w, call) => Held(f.messages, call)
<1> DEFINE a == w.reasoning
           b == w.calls
           body == a \o b
           m == Message("assistant", body)
           ms == Append(w.messages, m)
           f == flush(w)
<1>1. /\ w.messages \in Seq(AMessage) /\ w.calls \in Seq(APlain) /\ w.reasoning \in Seq(APlain)
      /\ w \in AWalk
  BY WalkFields
<1>2. CASE w.calls = <<>>
  <2>1. f = w
    BY <1>2 DEF flush
  <2>2. \A call : ~CallIn(w.calls, call)
    BY <1>2 DEF CallIn
  <2> QED BY <1>2, <2>1, <2>2 DEF Waits, WalkHolds
<1>3. CASE w.calls # <<>>
  <2>1. f = [w EXCEPT !.messages = ms, !.calls = <<>>, !.reasoning = <<>>]
    BY <1>3 DEF flush
  <2> HIDE DEF ms
  <2>2. f.messages = ms /\ f.calls = <<>> /\ f.deferred = w.deferred
    BY <1>1, <2>1 DEF AWalk
  <2>3. /\ body \in Seq(APlain)
        /\ \A i \in 1..Len(b) : Len(a) + i \in DOMAIN body /\ body[Len(a) + i] = b[i]
    <3>1. a \in Seq(APlain) /\ b \in Seq(APlain)
      BY <1>1
    <3> HIDE DEF a, b
    <3> QED BY <3>1, ConcatLast
  <2>4. m \in AMessage /\ m.role = "assistant" /\ m.body = body
    <3>1. "assistant" \in Role
      BY DEF Role
    <3> HIDE DEF body
    <3> QED BY <2>3, <3>1, MessageIsPlain, PlainIsMessage DEF Message
  <2>5. ASSUME NEW call, CallIn(w.calls, call) PROVE Speaks(m, call)
    <3>1. PICK i \in 1..Len(w.calls) : w.calls[i].kind = "call" /\ w.calls[i].call = call
      BY <1>1, <2>5 DEF CallIn
    <3> DEFINE k == Len(a) + i
    <3>2. k \in DOMAIN body /\ body[k] = w.calls[i]
      BY <2>3
    <3> HIDE DEF k, body
    <3> QED BY <2>4, <3>1, <3>2 DEF Speaks
  <2> HIDE DEF m
  <2>6. /\ Rounds(ms)
        /\ \A call : Held(w.messages, call) => Held(ms, call)
        /\ \A call : Speaks(m, call) => Held(ms, call)
    BY <1>1, <2>4, RoundsAppend DEF WalkHolds, ms
  <2> HIDE DEF f
  <2> QED BY <2>2, <2>5, <2>6 DEF f, Waits
<1> QED BY <1>2, <1>3

LEMMA SettleHolds ==
    ASSUME NEW h, NEW w \in Walks(h), NEW calls, WalkHolds(w, calls)
    PROVE  LET s == settle(w) IN
           /\ s \in Walks(h)
           /\ Rounds(s.messages) /\ s.calls = <<>> /\ s.deferred = <<>>
           /\ \A call : Waits(w, call) => Held(s.messages, call)
<1> DEFINE f == flush(w)
           s == settle(w)
           ms == f.messages \o f.deferred
<1>1. /\ Rounds(f.messages) /\ f.calls = <<>> /\ f.deferred = w.deferred
      /\ \A call : Waits(w, call) => Held(f.messages, call)
  BY FlushHolds
<1>2. f \in Walks(h) /\ s \in Walks(h)
  BY FlushWalks, SettleWalks
<1>3. s = [f EXCEPT !.messages = ms, !.deferred = <<>>]
  BY DEF settle
<1> HIDE DEF f, ms, s
<1>4. s.messages = ms /\ s.deferred = <<>> /\ s.calls = <<>>
  BY <1>1, <1>2, <1>3 DEF Walks, AWalk
<1>5. f.messages \in Seq(AMessage) /\ f.deferred \in Seq(AMessage)
  BY <1>2, WalkFields, PlainIsMessage
<1>6. AllAnswer(f.messages, f.deferred)
  BY <1>1 DEF AllAnswer, WalkHolds
<1>7. Rounds(ms)
  BY <1>1, <1>5, <1>6, RoundsConcat DEF ms
<1>8. ASSUME NEW call, Waits(w, call) PROVE Held(ms, call)
  <2>1. \A i \in 1..Len(f.deferred) : f.deferred[i].role # "user"
    BY <1>6 DEF AllAnswer
  <2> QED BY <1>1, <1>5, <1>8, <2>1, HeldConcat DEF ms
<1> QED BY <1>2, <1>4, <1>7, <1>8 DEF s

\* What can be answered after an item, if these calls could before it.
After(calls, item) ==
    IF item.kind = "user" THEN {}
    ELSE IF item.kind = "call" THEN calls \cup {item.call} ELSE calls

LEMMA WalkStepHolds ==
    ASSUME NEW h, NEW w \in Walks(h), NEW calls, WalkHolds(w, calls),
           NEW item \in AnInput, item.kind = "output" => item.call \in calls, NEW old \in BOOLEAN
    PROVE  WalkHolds(walk(w, item, old), After(calls, item))
<1> DEFINE s == settle(w)
           v == walk(w, item, old)
<1>1. /\ s \in Walks(h) /\ Rounds(s.messages) /\ s.calls = <<>> /\ s.deferred = <<>>
      /\ \A call : Waits(w, call) => Held(s.messages, call)
  BY SettleHolds
<1>2. item \in APlain
  BY InputIsPlain
<1>3. /\ s \in AWalk /\ s.messages \in Seq(AMessage) /\ s.reasoning \in Seq(APlain)
      /\ w \in AWalk /\ w.calls \in Seq(APlain) /\ w.deferred \in Seq(PlainMessage)
  BY <1>1, WalkFields
<1>4. item.kind \in {"user", "reasoning", "text", "call", "output", "summary"}
  BY DEF AnInput, InputKind, Kind
\* A walk that has put down all it had.
<1>5. ASSUME NEW u, u.calls = <<>>, u.deferred = <<>>, Rounds(u.messages),
             \A call \in After(calls, item) : Held(u.messages, call)
      PROVE  WalkHolds(u, After(calls, item))
  BY <1>5 DEF WalkHolds, Waits
<1>6. CASE item.kind = "call"
  <2> DEFINE more == Append(w.calls, item)
  <2>1. v = [w EXCEPT !.calls = more]
    BY <1>6 DEF walk
  <2>2. more \in Seq(APlain) /\ Len(more) = Len(w.calls) + 1 /\ more[Len(more)] = item
        /\ \A i \in 1..Len(w.calls) : more[i] = w.calls[i]
    BY <1>2, <1>3
  <2>3. \A i \in 1..Len(more) : more[i].kind = "call"
    <3>1. \A i \in 1..Len(more) : i \in 1..Len(w.calls) \/ i = Len(more)
      BY <1>3, <2>2
    <3> HIDE DEF more
    <3> QED BY <1>6, <2>2, <3>1 DEF WalkHolds
  <2> HIDE DEF more, v
  <2>4. v.messages = w.messages /\ v.calls = more /\ v.deferred = w.deferred
    BY <1>3, <2>1 DEF AWalk
  <2>5. ASSUME NEW call, CallIn(w.calls, call) PROVE CallIn(more, call)
    <3>1. PICK k \in DOMAIN w.calls : w.calls[k].kind = "call" /\ w.calls[k].call = call
      BY <2>5 DEF CallIn
    <3>2. k \in 1..Len(w.calls) /\ k \in DOMAIN more
      BY <1>3, <2>2
    <3> QED BY <2>2, <3>1, <3>2 DEF CallIn
  <2>6. CallIn(more, item.call)
    <3>1. Len(more) \in DOMAIN more
      BY <1>3, <2>2
    <3> QED BY <1>6, <2>2, <3>1 DEF CallIn
  <2>7. \A call : Waits(w, call) => Waits(v, call)
    BY <2>4, <2>5 DEF Waits
  <2>8. Waits(v, item.call)
    BY <2>4, <2>6 DEF Waits
  <2>9. WalkHolds(v, After(calls, item))
    BY <1>6, <2>3, <2>4, <2>7, <2>8 DEF WalkHolds, After
  <2> QED BY <2>9 DEF v
<1>7. CASE item.kind = "output"
  <2> DEFINE m == Tool(item, old)
             more == Append(w.deferred, m)
  <2>1. v = [w EXCEPT !.deferred = more]
    BY <1>7 DEF walk
  <2>2. m.role = "tool" /\ m.body = <<item>> /\ m \in PlainMessage
    BY <1>2, ToolIsPlain DEF Tool, Message
  <2> HIDE DEF m
  <2>3. Len(more) = Len(w.deferred) + 1 /\ more[Len(more)] = m
        /\ \A i \in 1..Len(w.deferred) : more[i] = w.deferred[i]
    BY <1>3, <2>2
  <2> HIDE DEF more, v
  <2>4. v.messages = w.messages /\ v.calls = w.calls /\ v.deferred = more
    BY <1>3, <2>1 DEF AWalk
  <2>5. \A call : Waits(w, call) => Waits(v, call)
    BY <2>4 DEF Waits
  <2>6. m.body[1] = item /\ Waits(w, item.call)
    BY <1>7, <2>2 DEF WalkHolds
  <2>7. \A i \in 1..Len(more) : more[i].role = "tool" /\ Waits(v, more[i].body[1].call)
    <3>1. \A i \in 1..Len(more) : i \in 1..Len(w.deferred) \/ i = Len(more)
      BY <1>3, <2>3
    <3> QED BY <2>2, <2>3, <2>5, <2>6, <3>1 DEF WalkHolds
  <2>8. WalkHolds(v, After(calls, item))
    BY <1>7, <2>4, <2>5, <2>7 DEF WalkHolds, After
  <2> QED BY <2>8 DEF v
<1> HIDE DEF s
<1>8. CASE item.kind = "reasoning"
  <2> DEFINE reasoning == IF Contains(s.reasoning, item) THEN s.reasoning
                          ELSE Append(s.reasoning, item)
  <2>1. v = [s EXCEPT !.reasoning = reasoning]
    BY <1>8 DEF walk, s
  <2> HIDE DEF reasoning, v
  <2>2. v.messages = s.messages /\ v.calls = <<>> /\ v.deferred = <<>>
    BY <1>1, <1>3, <2>1 DEF AWalk
  <2>3. \A call \in After(calls, item) : Held(v.messages, call)
    BY <1>1, <1>8, <2>2 DEF After, WalkHolds
  <2>4. WalkHolds(v, After(calls, item))
    BY <1>1, <1>5, <2>2, <2>3
  <2> QED BY <2>4 DEF v
<1>9. CASE item.kind = "text"
  <2> DEFINE body == Append(s.reasoning, item)
             m == Message("assistant", body)
             ms == Append(s.messages, m)
  <2>1. v = [s EXCEPT !.messages = ms]
    BY <1>9 DEF walk, s
  <2>2. m \in AMessage /\ m.role = "assistant"
    <3>1. body \in Seq(APlain) /\ "assistant" \in Role
      BY <1>2, <1>3 DEF Role
    <3> HIDE DEF body
    <3> QED BY <3>1, MessageIsPlain, PlainIsMessage DEF Message
  <2> HIDE DEF m
  <2>3. Rounds(ms) /\ \A call : Held(s.messages, call) => Held(ms, call)
    BY <1>1, <1>3, <2>2, RoundsAppend
  <2> HIDE DEF ms, v
  <2>4. v.messages = ms /\ v.calls = <<>> /\ v.deferred = <<>>
    BY <1>1, <1>3, <2>1 DEF AWalk
  <2>5. \A call \in After(calls, item) : Held(v.messages, call)
    BY <1>1, <1>9, <2>3, <2>4 DEF After, WalkHolds
  <2>6. WalkHolds(v, After(calls, item))
    BY <1>5, <2>3, <2>4, <2>5
  <2> QED BY <2>6 DEF v
<1>10. CASE item.kind = "user"
  <2> DEFINE body == <<item>>
             m == Message("user", body)
             ms == Append(s.messages, m)
  <2>1. v = [s EXCEPT !.messages = ms, !.reasoning = <<>>]
    BY <1>10 DEF walk, s
  <2>2. m \in AMessage /\ m.role = "user"
    <3>1. body \in Seq(APlain) /\ "user" \in Role
      BY <1>2 DEF Role
    <3> HIDE DEF body
    <3> QED BY <3>1, MessageIsPlain, PlainIsMessage DEF Message
  <2> HIDE DEF m
  <2>3. Rounds(ms)
    BY <1>1, <1>3, <2>2, RoundsAppend
  <2> HIDE DEF ms, v
  <2>4. v.messages = ms /\ v.calls = <<>> /\ v.deferred = <<>>
    BY <1>1, <1>3, <2>1 DEF AWalk
  <2>5. After(calls, item) = {}
    BY <1>10 DEF After
  <2>6. WalkHolds(v, After(calls, item))
    BY <1>5, <2>3, <2>4, <2>5
  <2> QED BY <2>6 DEF v
<1>11. CASE item.kind = "summary"
  <2> DEFINE m == System(item)
             ms == Append(s.messages, m)
  <2>1. v = IF HasKey THEN [s EXCEPT !.messages = ms] ELSE s
    BY <1>11 DEF walk, s
  <2>2. m \in AMessage /\ m.role = "system"
    BY <1>2, SystemIsPlain, PlainIsMessage DEF System, Message
  <2> HIDE DEF m
  <2>3. Rounds(ms) /\ \A call : Held(s.messages, call) => Held(ms, call)
    BY <1>1, <1>3, <2>2, RoundsAppend
  <2> HIDE DEF ms, v
  <2>4. v.messages \in {ms, s.messages} /\ v.calls = <<>> /\ v.deferred = <<>>
    BY <1>1, <1>3, <2>1 DEF AWalk
  <2>5. \A call \in After(calls, item) : Held(v.messages, call)
    BY <1>1, <1>11, <2>3, <2>4 DEF After, WalkHolds
  <2>6. WalkHolds(v, After(calls, item))
    BY <1>1, <1>5, <2>3, <2>4, <2>5
  <2> QED BY <2>6 DEF v
<1> QED BY <1>4, <1>6, <1>7, <1>8, <1>9, <1>10, <1>11

LEMMA FewerCalls ==
    ASSUME NEW w, NEW calls, WalkHolds(w, calls), NEW few \in SUBSET calls
    PROVE  WalkHolds(w, few)
BY DEF WalkHolds

\* The messages of a request hold what its items do, and answer what they answer.
LEMMA AppendItemsHolds ==
    ASSUME NEW h, Headed(h), Rounds(h), NEW items \in Seq(AnInput), NEW calls,
           \A call \in calls : Held(h, call), Answers(items, calls)
    PROVE  LET ms == append_items(h, items) IN
           /\ Rounds(ms)
           /\ \A call : ItemHeld(items, Len(items) + 1, calls, call) => Held(ms, call)
<1> DEFINE n == Len(items)
           all == calls \cup {items[j].call : j \in 1..n}
           reach(i) == {call \in all : ItemHeld(items, i + 1, calls, call)}
           ms == append_items(h, items)
<1>1. PICK walked : WalksAlong(walked, h, items) /\ ms = settle(walked[n]).messages
  BY AppendItemsWalks
<1>2. /\ \A i \in 0..n : walked[i] \in Walks(h)
      /\ walked[0] = [messages |-> h, deferred |-> <<>>, calls |-> <<>>, reasoning |-> <<>>]
      /\ \A i \in 1..n : \E old \in BOOLEAN : walked[i] = walk(walked[i - 1], items[i], old)
  BY <1>1 DEF WalksAlong
<1>3. n \in Nat /\ \A i \in 1..n : items[i] \in AnInput
  OBVIOUS
<1>4. WalkHolds(walked[0], reach(0))
  <2>1. /\ walked[0].messages = h /\ walked[0].deferred = <<>> /\ walked[0].calls = <<>>
    BY <1>2
  <2>2. reach(0) \subseteq calls
    BY DEF ItemHeld
  <2>3. \A call \in reach(0) : Waits(walked[0], call)
    BY <2>1, <2>2 DEF Waits
  <2> HIDE DEF reach
  <2> QED BY <2>1, <2>3 DEF WalkHolds
<1>5. ASSUME NEW i \in 1..n, WalkHolds(walked[i - 1], reach(i - 1))
      PROVE  WalkHolds(walked[i], reach(i))
  <2> DEFINE item == items[i]
             before == reach(i - 1)
  <2>1. PICK old \in BOOLEAN : walked[i] = walk(walked[i - 1], item, old)
    BY <1>2
  <2>2. i - 1 \in 0..n /\ (i - 1) + 1 = i /\ item \in AnInput
    BY <1>3
  <2>3. item.kind = "output" => item.call \in before
    <3>1. item.kind = "output" => ItemHeld(items, i, calls, item.call)
      BY DEF Answers
    <3>2. item.call \in all
      OBVIOUS
    <3> HIDE DEF all
    <3> QED BY <2>2, <3>1, <3>2
  <2>4. reach(i) \subseteq After(before, item)
    <3> SUFFICES ASSUME NEW call \in all, ItemHeld(items, i + 1, calls, call)
                 PROVE  call \in After(before, item)
      OBVIOUS
    <3> HIDE DEF all
    <3>1. CASE call \in calls /\ \A m \in 1..i : items[m].kind # "user"
      <4>1. ItemHeld(items, i, calls, call) /\ item.kind # "user"
        BY <3>1 DEF ItemHeld
      <4> QED BY <2>2, <4>1 DEF After
    <3>2. ASSUME NEW j \in 1..i, items[j].kind = "call", items[j].call = call,
                 \A m \in (j + 1)..i : items[m].kind # "user"
          PROVE  call \in After(before, item)
      <4>1. CASE j = i
        BY <3>2, <4>1 DEF After
      <4>2. CASE j < i
        <5>1. j \in 1..(i - 1) /\ i \in (j + 1)..i /\ \A m \in (j + 1)..(i - 1) : m \in (j + 1)..i
          BY <4>2
        <5>2. ItemHeld(items, i, calls, call) /\ item.kind # "user"
          BY <3>2, <5>1 DEF ItemHeld
        <5> QED BY <2>2, <5>2 DEF After
      <4> QED BY <4>1, <4>2
    <3>3. (i + 1) - 1 = i
      OBVIOUS
    <3> QED BY <3>1, <3>2, <3>3 DEF ItemHeld
  <2>5. walked[i - 1] \in Walks(h)
    BY <1>2, <2>2
  <2> HIDE DEF reach, item, all
  <2>6. WalkHolds(walk(walked[i - 1], item, old), After(before, item))
    BY <1>5, <2>2, <2>3, <2>5, WalkStepHolds
  <2> QED BY <2>1, <2>4, <2>6, FewerCalls
<1> HIDE DEF reach
<1> DEFINE G == {i \in Nat : i <= n => WalkHolds(walked[i], reach(i))}
<1>6. 0 \in G
  BY <1>4
<1>7. \A i \in Nat : i \in G => i + 1 \in G
  <2> SUFFICES ASSUME NEW i \in Nat, i \in G, i + 1 <= n PROVE WalkHolds(walked[i + 1], reach(i + 1))
    OBVIOUS
  <2>1. i + 1 \in 1..n /\ (i + 1) - 1 = i /\ i <= n
    BY <1>3
  <2> QED BY <1>5, <2>1
<1> HIDE DEF G
<1>8. WalkHolds(walked[n], reach(n)) /\ walked[n] \in Walks(h)
  <2>1. G = Nat
    BY <1>6, <1>7, Inductive DEF G
  <2> QED BY <1>2, <1>3, <2>1 DEF G
<1>9. Rounds(ms) /\ \A call : Waits(walked[n], call) => Held(ms, call)
  BY <1>1, <1>8, SettleHolds
<1>10. ASSUME NEW call, ItemHeld(items, n + 1, calls, call) PROVE Held(ms, call)
  <2>1. call \in all
    <3>1. (n + 1) - 1 = n
      BY <1>3
    <3> QED BY <1>10, <3>1 DEF ItemHeld
  <2>2. call \in reach(n)
    BY <1>10, <2>1 DEF reach
  <2> QED BY <1>8, <1>9, <2>2 DEF WalkHolds
<1> QED BY <1>9, <1>10 DEF n, ms

\* The same messages, but for what is cut of them and what the system says.
Alike(new, ms) ==
    /\ Len(new) = Len(ms)
    /\ \A k \in 1..Len(ms) : /\ new[k].role = ms[k].role
                             /\ ms[k].role # "system" => new[k].body = ms[k].body

LEMMA AlikeHolds ==
    ASSUME NEW ms \in Seq(AMessage), NEW new, Alike(new, ms)
    PROVE  /\ Rounds(ms) => Rounds(new)
           /\ \A call : Held(ms, call) => Held(new, call)
<1>1. ASSUME NEW n \in 1..(Len(ms) + 1), NEW call, CalledBefore(ms, n, call)
      PROVE  CalledBefore(new, n, call)
  <2>1. PICK j \in 1..(n - 1) :
           Speaks(ms[j], call) /\ \A m \in (j + 1)..(n - 1) : ms[m].role # "user"
    BY <1>1 DEF CalledBefore
  <2>2. j \in 1..Len(ms) /\ \A m \in (j + 1)..(n - 1) : m \in 1..Len(ms)
    OBVIOUS
  <2>3. Speaks(new[j], call)
    BY <2>1, <2>2 DEF Speaks, Alike
  <2>4. \A m \in (j + 1)..(n - 1) : new[m].role # "user"
    BY <2>1, <2>2 DEF Alike
  <2> QED BY <2>3, <2>4 DEF CalledBefore
<1>2. ASSUME Rounds(ms) PROVE Rounds(new)
  <2> SUFFICES ASSUME NEW i \in 1..Len(new), new[i].role = "tool"
               PROVE  CalledBefore(new, i, new[i].body[1].call)
    BY DEF Rounds
  <2>1. i \in 1..Len(ms) /\ i \in 1..(Len(ms) + 1) /\ new[i].body = ms[i].body /\ ms[i].role = "tool"
    BY DEF Alike
  <2> QED BY <1>1, <1>2, <2>1 DEF Rounds
<1>3. ASSUME NEW call, Held(ms, call) PROVE Held(new, call)
  <2>1. Len(ms) + 1 \in 1..(Len(ms) + 1) /\ Len(new) = Len(ms)
    BY DEF Alike
  <2> QED BY <1>1, <1>3, <2>1 DEF Held
<1> QED BY <1>2, <1>3

\* New instructions disturb no calls.
LEMMA InstructionsHold ==
    ASSUME NEW h, Headed(h), Rounds(h), NEW item \in AnItem, NEW given \in {<<>>, <<item>>}
    PROVE  LET merged == merge_instructions(h, given) IN
           /\ Rounds(merged)
           /\ \A call : Held(h, call) => Held(merged, call)
<1> DEFINE first == System(item)
           merged == merge_instructions(h, given)
<1>1. h \in Seq(AMessage) /\ first \in AMessage /\ first.role = "system"
  BY SystemInstructs DEF Headed, Instructing, System, Message
<1>2. CASE given = <<>>
  BY <1>2 DEF merge_instructions
<1>3. CASE given = <<item>>
  <2>1. given # <<>> /\ given[1] = item
    BY <1>3
  <2>2. CASE h # <<>> /\ h[1].role = "system"
    <3>1. merged = [h EXCEPT ![1] = first]
      BY <2>1, <2>2 DEF merge_instructions
    <3> HIDE DEF first, merged
    <3>2. Alike(merged, h)
      BY <1>1, <2>2, <3>1 DEF Alike
    <3> QED BY <1>1, <3>2, AlikeHolds DEF merged
  <2>3. CASE ~ (h # <<>> /\ h[1].role = "system")
    <3> DEFINE one == <<first>>
    <3>1. merged = one \o h
      BY <2>1, <2>3 DEF merge_instructions
    <3>2. Rounds(one)
      BY <1>1, RoundsOne
    <3>3. one \in Seq(AMessage)
      BY <1>1
    <3> HIDE DEF one, merged
    <3>4. Rounds(one \o h) /\ \A call : Held(h, call) => Held(one \o h, call)
      BY <1>1, <3>2, <3>3, RoundsConcat, HeldConcat
    <3> QED BY <3>1, <3>4 DEF merged
  <2> QED BY <2>2, <2>3
<1> QED BY <1>2, <1>3

-----------------------------------------------------------------------------
(* The limits cut no call from what answers it                             *)

\* What begins with a user's message answers nothing from before it.
LEMMA RoundsFrom ==
    ASSUME NEW ms \in Seq(AMessage), Rounds(ms), NEW p \in 0..Len(ms),
           NEW s \in (p + 1)..Len(ms), ms[s].role = "user"
    PROVE  Rounds(SubSeq(ms, 1, p) \o SubSeq(ms, s, Len(ms)))
<1> DEFINE a == SubSeq(ms, 1, p)
           b == SubSeq(ms, s, Len(ms))
<1>1. a \in Seq(AMessage) /\ Len(a) = p /\ \A i \in 1..p : a[i] = ms[i]
  OBVIOUS
<1>2. b \in Seq(AMessage) /\ Len(b) = Len(ms) - s + 1 /\ \A i \in 1..Len(b) : b[i] = ms[s + i - 1]
  OBVIOUS
<1> HIDE DEF a, b
<1>3. Rounds(a)
  <2> SUFFICES ASSUME NEW i \in 1..p, a[i].role = "tool"
               PROVE  CalledBefore(a, i, a[i].body[1].call)
    BY <1>1 DEF Rounds
  <2>1. i \in 1..Len(ms) /\ a[i] = ms[i] /\ \A k \in 1..(i - 1) : a[k] = ms[k]
    BY <1>1
  <2>2. CalledBefore(ms, i, a[i].body[1].call)
    BY <2>1 DEF Rounds
  <2> QED BY <2>1, <2>2 DEF CalledBefore
<1>4. Rounds(b)
  <2> SUFFICES ASSUME NEW i \in 1..Len(b), b[i].role = "tool"
               PROVE  CalledBefore(b, i, b[i].body[1].call)
    BY DEF Rounds
  <2> DEFINE at == s + i - 1
             call == b[i].body[1].call
  <2>1. at \in 1..Len(ms) /\ b[i] = ms[at] /\ at >= s /\ at \in Nat /\ s \in Nat
    BY <1>2
  <2>2. at # s
    BY <2>1
  <2>3. PICK j \in 1..(at - 1) :
           Speaks(ms[j], call) /\ \A m \in (j + 1)..(at - 1) : ms[m].role # "user"
    BY <2>1 DEF Rounds, CalledBefore
  <2>4. j >= s
    <3> SUFFICES ASSUME j < s PROVE FALSE
      BY <2>1
    <3>1. s \in (j + 1)..(at - 1)
      BY <2>1, <2>2
    <3> QED BY <2>3, <3>1
  <2> DEFINE k == j - s + 1
  <2>5. k \in 1..(i - 1) /\ k \in 1..Len(b) /\ s + k - 1 = j
    BY <2>1, <2>3, <2>4
  <2>6. Speaks(b[k], call)
    BY <1>2, <2>3, <2>5
  <2>7. \A m \in (k + 1)..(i - 1) : b[m].role # "user"
    <3> TAKE m \in (k + 1)..(i - 1)
    <3>1. s + m - 1 \in (j + 1)..(at - 1) /\ m \in 1..Len(b)
      BY <2>1, <2>5
    <3> QED BY <1>2, <2>3, <3>1
  <2> HIDE DEF k, call
  <2>8. CalledBefore(b, i, call)
    BY <2>5, <2>6, <2>7 DEF CalledBefore
  <2> QED BY <2>8 DEF call
<1>5. Rounds(a \o b)
  BY <1>1, <1>2, <1>3, <1>4, RoundsConcat
<1> QED BY <1>5 DEF a, b

LEMMA MessageBudgetHolds ==
    ASSUME NEW ms, Headed(ms), Rounds(ms), NEW max \in Nat
    PROVE  Rounds(enforce_message_budget(ms, max))
<1> DEFINE n == Len(ms)
           prefix == Leading(ms)
           starts == {i \in DOMAIN ms : i > prefix /\ ms[i].role = "user"}
           fits == {i \in starts : prefix + (Len(ms) - i + 1) <= max}
           start == IF fits # {} THEN Min(fits) ELSE Max(starts)
           cut == SubSeq(ms, 1, prefix) \o SubSeq(ms, start, Len(ms))
<1>1. CASE max = 0 \/ Len(ms) <= max \/ starts = {}
  BY <1>1 DEF enforce_message_budget
<1>2. CASE ~ (max = 0 \/ Len(ms) <= max \/ starts = {})
  <2>1. enforce_message_budget(ms, max) = cut
    BY <1>2 DEF enforce_message_budget
  <2>2. ms \in Seq(AMessage) /\ n \in Nat /\ DOMAIN ms = 1..n
    BY DEF Headed
  <2>3. prefix \in 0..n
    BY <2>2, LeadingIs
  <2>4. starts \in SUBSET (1..n) /\ fits \in SUBSET (1..n) /\ starts # {}
        /\ fits \subseteq starts /\ \A i \in starts : i > prefix /\ ms[i].role = "user"
    BY <1>2, <2>2
  <2> HIDE DEF starts, fits, prefix
  <2>5. start \in starts
    BY <2>2, <2>4, MinIsIn, MaxIsIn
  <2>6. start \in (prefix + 1)..n /\ ms[start].role = "user"
    <3>1. start \in 1..n /\ start > prefix /\ ms[start].role = "user"
      BY <2>4, <2>5
    <3> QED BY <2>2, <2>3, <3>1
  <2> HIDE DEF start
  <2>7. Rounds(cut)
    BY <2>2, <2>3, <2>6, RoundsFrom DEF n
  <2> QED BY <2>1, <2>7
<1> QED BY <1>1, <1>2

LEMMA BudgetsHold ==
    ASSUME NEW ms, Headed(ms), Rounds(ms), NEW b \in Budgets
    PROVE  Rounds(enforce_budgets(ms, b))
<1>1. b.messages \in Nat /\ b.chars \in Nat
  OBVIOUS
<1> DEFINE left == enforce_message_budget(ms, b.messages)
           new == enforce_input_budget(left, b.chars)
<1>2. Headed(left) /\ Rounds(left)
  BY <1>1, MessageBudgetKeeps, MessageBudgetHolds
<1> HIDE DEF left
<1>3. SameBut(new, left)
  BY <1>1, <1>2, InputBudgetKeeps
<1> HIDE DEF new
<1>4. Alike(new, left)
  BY <1>3 DEF SameBut, Alike
<1>5. Rounds(new)
  BY <1>2, <1>4, AlikeHolds DEF Headed
<1> QED BY <1>5 DEF enforce_budgets, left, new

-----------------------------------------------------------------------------
(* Calls of a reply                                                        *)

\* A reply that ends with a call has its calls together, at its end: no text
\* comes between two calls of which the last is not followed by any.
OneRun(kinds) ==
    \A i, j \in DOMAIN kinds :
        i < j /\ kinds[i] = "call" /\ kinds[Len(kinds)] = "call" => kinds[j] = "call"

CallsTogether == \A kinds \in Replies : OneRun(kinds)

\* What a turn may be told: items of a reply, or a summary.
Spoken(reply) ==
    /\ \A i \in 1..Len(reply) : reply[i].kind \in {"reasoning", "text", "call", "summary"}
    /\ OneRun([i \in DOMAIN reply |-> reply[i].kind])

LEMMA CallInRange ==
    ASSUME NEW S, NEW items \in Seq(S), NEW call
    PROVE  CallIn(items, call) <=> \E x \in ToSet(items) : x.kind = "call" /\ x.call = call
BY DEF CallIn, ToSet

LEMMA CallInConcat ==
    ASSUME NEW S, NEW a \in Seq(S), NEW b \in Seq(S), NEW call
    PROVE  CallIn(a \o b, call) <=> CallIn(a, call) \/ CallIn(b, call)
<1> DEFINE ab == a \o b
           Is(x) == x.kind = "call" /\ x.call = call
<1>1. ab \in Seq(S) /\ \A x : x \in ToSet(ab) <=> x \in ToSet(a) \/ x \in ToSet(b)
  BY RangeOfConcat
<1> HIDE DEF ab
<1>2. CallIn(ab, call) <=> \E x \in ToSet(ab) : Is(x)
  BY <1>1, CallInRange
<1>3. CallIn(a, call) <=> \E x \in ToSet(a) : Is(x)
  BY CallInRange
<1>4. CallIn(b, call) <=> \E x \in ToSet(b) : Is(x)
  BY CallInRange
<1> HIDE DEF Is
<1> QED BY <1>1, <1>2, <1>3, <1>4 DEF ab

LEMMA OfKindIs ==
    ASSUME NEW S, NEW s \in Seq(S), NEW kind
    PROVE  \A x : x \in ToSet(OfKind(kind, s)) <=> x \in ToSet(s) /\ x.kind = kind
<1> DEFINE part(i) == IF s[i].kind = kind THEN <<s[i]>> ELSE <<>>
           parts == [i \in DOMAIN s |-> part(i)]
<1>1. /\ \A i \in 1..Len(s) : part(i) \in Seq(S)
      /\ \A i \in 1..Len(s) : \A x : x \in ToSet(part(i)) <=> x = s[i] /\ s[i].kind = kind
  BY DEF ToSet
<1> HIDE DEF part
<1>2. parts \in Seq(Seq(S)) /\ Len(parts) = Len(s) /\ \A i \in 1..Len(s) : parts[i] = part(i)
  <2>1. parts \in [1..Len(s) -> Seq(S)]
    BY <1>1
  <2> QED BY <2>1
<1> HIDE DEF parts
<1>3. \A x : x \in ToSet(FlattenSeq(parts)) <=> \E i \in 1..Len(s) : x \in ToSet(part(i))
  BY <1>2, FlattenRange
<1>4. \A x : x \in ToSet(s) <=> \E i \in 1..Len(s) : x = s[i]
  BY DEF ToSet
<1>5. \A x : x \in ToSet(FlattenSeq(parts)) <=> x \in ToSet(s) /\ x.kind = kind
  BY <1>1, <1>3, <1>4
<1> QED BY <1>5 DEF OfKind, parts, part

LEMMA CallInOfKind ==
    ASSUME NEW S, NEW s \in Seq(S), NEW kind, NEW call
    PROVE  CallIn(OfKind(kind, s), call) <=> kind = "call" /\ CallIn(s, call)
<1> DEFINE some == OfKind(kind, s)
<1>1. some \in Seq(S) /\ \A x : x \in ToSet(some) <=> x \in ToSet(s) /\ x.kind = kind
  BY OfKindType, OfKindIs
<1> HIDE DEF some
<1>2. CallIn(some, call) <=> \E x \in ToSet(some) : x.kind = "call" /\ x.call = call
  BY <1>1, CallInRange
<1>3. CallIn(s, call) <=> \E x \in ToSet(s) : x.kind = "call" /\ x.call = call
  BY CallInRange
<1> QED BY <1>1, <1>2, <1>3 DEF some

\* Nothing is called that was not, and every call is in the output.
LEMMA OutputHasCalls ==
    ASSUME NEW reply \in Seq(AnInput), NEW call
    PROVE  /\ CallIn(chat_to_responses(reply), call) <=> CallIn(reply, call)
           /\ \A mode : CallIn(OutputItems(mode, reply), call) <=> CallIn(reply, call)
           /\ CallIn(reply, call) => CallIn(build_response_from_state(reply), call)
<1> DEFINE r == OfKind("reasoning", reply)
           c == OfKind("call", reply)
           t == OfKind("text", reply)
<1>1. r \in Seq(AnInput) /\ c \in Seq(AnInput) /\ t \in Seq(AnInput)
  BY OfKindType
<1>2. ~CallIn(r, call) /\ ~CallIn(t, call) /\ (CallIn(c, call) <=> CallIn(reply, call))
  BY CallInOfKind
<1> HIDE DEF r, c, t
<1> DEFINE rc == r \o c
<1>3. rc \in Seq(AnInput) /\ (CallIn(rc, call) <=> CallIn(reply, call))
  BY <1>1, <1>2, CallInConcat
<1> HIDE DEF rc
<1>4. CallIn(rc \o t, call) <=> CallIn(reply, call)
  BY <1>1, <1>2, <1>3, CallInConcat
<1>5. CallIn(chat_to_responses(reply), call) <=> CallIn(reply, call)
  BY <1>4 DEF chat_to_responses, rc, r, c, t
<1>6. CallIn(reply, call) => CallIn(build_response_from_state(reply), call)
  <2>1. Open(reply) \in Seq(AnInput)
    BY OpenType
  <2> QED BY <2>1, CallInConcat DEF build_response_from_state
<1> QED BY <1>5, <1>6 DEF OutputItems

LEMMA OpenIsOf ==
    ASSUME NEW reply \in Seq(AnInput)
    PROVE  \A i \in 1..Len(Open(reply)) : \E j \in 1..Len(reply) : Open(reply)[i] = reply[j]
<1> DEFINE n == Len(reply)
           same == {i \in DOMAIN reply :
                       \A j \in i..Len(reply) : reply[j].kind = reply[Len(reply)].kind}
           first == Min(same)
           open == Open(reply)
<1>1. CASE reply = <<>>
  BY <1>1 DEF Open
<1>2. CASE reply # <<>>
  <2>1. n \in Nat /\ n \in 1..n /\ DOMAIN reply = 1..n
    BY <1>2
  <2>2. n \in same /\ same \in SUBSET (1..n)
    BY <2>1
  <2>3. open = SubSeq(reply, first, n)
    BY <1>2 DEF Open
  <2> HIDE DEF same, n
  <2>4. first \in 1..n
    BY <2>1, <2>2, MinIsIn
  <2> HIDE DEF first, open
  <2>5. /\ Len(open) = n - first + 1 /\ \A i \in 1..Len(open) : open[i] = reply[first + i - 1]
    BY <2>1, <2>3, <2>4 DEF n
  <2>6. \A i \in 1..Len(open) : first + i - 1 \in 1..n
    BY <2>1, <2>4, <2>5
  <2> QED BY <2>5, <2>6 DEF n, open
<1> QED BY <1>1, <1>2

LEMMA OutputIsOf ==
    ASSUME NEW reply \in Seq(AnInput)
    PROVE  \A x \in ToSet(chat_to_responses(reply)) : x.kind \in {"reasoning", "call", "text"}
<1> DEFINE r == OfKind("reasoning", reply)
           c == OfKind("call", reply)
           t == OfKind("text", reply)
           rc == r \o c
           all == rc \o t
<1>1. r \in Seq(AnInput) /\ c \in Seq(AnInput) /\ t \in Seq(AnInput)
  BY OfKindType
<1>2. /\ \A x \in ToSet(r) : x.kind = "reasoning"
      /\ \A x \in ToSet(c) : x.kind = "call"
      /\ \A x \in ToSet(t) : x.kind = "text"
  BY OfKindIs
<1> HIDE DEF r, c, t
<1>3. rc \in Seq(AnInput) /\ \A x \in ToSet(rc) : x \in ToSet(r) \/ x \in ToSet(c)
  BY <1>1, RangeOfConcat
<1> HIDE DEF rc
<1>4. \A x \in ToSet(all) : x \in ToSet(rc) \/ x \in ToSet(t)
  BY <1>1, <1>3, RangeOfConcat
<1>5. chat_to_responses(reply) = all
  BY DEF chat_to_responses, all, rc, r, c, t
<1> HIDE DEF all
<1> QED BY <1>2, <1>3, <1>4, <1>5

-----------------------------------------------------------------------------
(* What a turn puts holds its calls                                        *)

\* The kinds of a reply, and what a client is told of it.
LEMMA ReplyIsSpoken ==
    ASSUME CallsTogether, NEW n \in Turns, NEW kinds \in Replies
    PROVE  Spoken(ReplyOf(n, kinds))
<1>1. CASE turns[n].mode \in Compacting
  <2> DEFINE reply == <<Item("summary", n)>>
  <2>1. ReplyOf(n, kinds) = reply
    BY <1>1 DEF ReplyOf
  <2>2. Len(reply) = 1 /\ DOMAIN reply = {1} /\ reply[1].kind = "summary"
    BY DEF Item
  <2> HIDE DEF reply
  <2>3. OneRun([i \in DOMAIN reply |-> reply[i].kind])
    BY <2>2 DEF OneRun
  <2> QED BY <2>1, <2>2, <2>3 DEF Spoken
<1>2. CASE turns[n].mode \notin Compacting
  <2> DEFINE one(i) == [Item(kinds[i], n) EXCEPT !.call = IF kinds[i] = "call" THEN <<n, i>> ELSE @]
             reply == [i \in DOMAIN kinds |-> one(i)]
  <2>1. ReplyOf(n, kinds) = reply
    BY <1>2 DEF ReplyOf
  <2>2. kinds \in Seq({"reasoning", "text", "call"}) /\ OneRun(kinds)
    BY DEF CallsTogether
  <2>3. \A i \in DOMAIN kinds : one(i).kind = kinds[i]
    BY DEF Item
  <2> HIDE DEF one
  <2>4. DOMAIN reply = DOMAIN kinds /\ Len(reply) = Len(kinds)
        /\ \A i \in DOMAIN kinds : reply[i].kind = kinds[i]
    BY <2>2, <2>3
  <2> HIDE DEF reply
  <2>5. [i \in DOMAIN reply |-> reply[i].kind] = kinds
    BY <2>2, <2>4
  <2>6. \A i \in 1..Len(reply) : reply[i].kind \in {"reasoning", "text", "call", "summary"}
    BY <2>2, <2>4
  <2> QED BY <2>1, <2>2, <2>5, <2>6 DEF Spoken
<1> QED BY <1>1, <1>2

\* If some of the calls of a reply are still open, all of them are.
LEMMA OpenCalls ==
    ASSUME NEW reply \in Seq(AnInput), Spoken(reply), NEW x \in ToSet(reply), x.kind = "call"
    PROVE  LET open == OfKind("call", Open(reply)) IN
           open # <<>> => x \in ToSet(open)
<1> DEFINE n == Len(reply)
           same == {i \in DOMAIN reply :
                       \A j \in i..Len(reply) : reply[j].kind = reply[Len(reply)].kind}
           first == Min(same)
           open == Open(reply)
           some == OfKind("call", open)
<1>1. open \in Seq(AnInput) /\ some \in Seq(AnInput)
  BY OpenType, OfKindType
<1>2. SUFFICES ASSUME some # <<>> PROVE x \in ToSet(some)
  OBVIOUS
<1>3. PICK k \in 1..n : reply[k] = x
  BY DEF ToSet
<1>4. n \in Nat /\ n \in 1..n /\ DOMAIN reply = 1..n /\ reply # <<>>
  BY <1>3
<1>5. n \in same /\ same \in SUBSET (1..n)
  BY <1>4
<1>6. open = SubSeq(reply, first, n)
  BY <1>4 DEF Open
<1>7. first \in same /\ first \in 1..n /\ \A i \in same : first <= i
  <2> HIDE DEF same, n
  <2> QED BY <1>4, <1>5, MinIsIn
<1>8. \A j \in first..n : reply[j].kind = reply[n].kind
  BY <1>7
<1> HIDE DEF first, open, some
<1>9. /\ Len(open) = n - first + 1 /\ \A i \in 1..Len(open) : open[i] = reply[first + i - 1]
  BY <1>4, <1>6, <1>7
<1>10. reply[n].kind = "call"
  <2>1. some[1] \in ToSet(some)
    BY <1>1, <1>2 DEF ToSet
  <2>2. PICK y \in ToSet(open) : y.kind = "call"
    BY <1>1, <2>1, OfKindIs DEF some
  <2>3. PICK i \in 1..Len(open) : open[i] = y
    BY <1>1 DEF ToSet
  <2>4. first + i - 1 \in first..n
    BY <1>4, <1>7, <1>9
  <2> QED BY <1>8, <1>9, <2>2, <2>3, <2>4
<1>11. \A j \in k..n : reply[j].kind = "call"
  <2> DEFINE kinds == [i \in DOMAIN reply |-> reply[i].kind]
  <2>1. OneRun(kinds) /\ DOMAIN kinds = 1..n /\ Len(kinds) = n
        /\ \A i \in 1..n : kinds[i] = reply[i].kind
    BY <1>4 DEF Spoken
  <2> HIDE DEF kinds
  <2> TAKE j \in k..n
  <2>2. j \in 1..n /\ (k = j \/ k < j)
    BY <1>3, <1>4
  <2> QED BY <1>3, <1>4, <1>10, <2>1, <2>2 DEF OneRun
<1>12. first <= k
  <2>1. k \in same
    BY <1>3, <1>4, <1>10, <1>11
  <2> QED BY <1>7, <2>1
<1>13. x \in ToSet(open)
  <2> DEFINE i == k - first + 1
  <2>1. i \in DOMAIN open /\ open[i] = reply[k]
    BY <1>1, <1>3, <1>4, <1>7, <1>9, <1>12
  <2> QED BY <1>3, <2>1 DEF ToSet
<1>14. x \in ToSet(some)
  BY <1>1, <1>13, OfKindIs DEF some
<1> QED BY <1>14

LEMMA OpenHasCalls ==
    ASSUME NEW reply \in Seq(AnInput), Spoken(reply), NEW call, CallIn(reply, call)
    PROVE  LET open == OfKind("call", Open(reply)) IN
           open # <<>> => CallIn(open, call)
<1> DEFINE open == OfKind("call", Open(reply))
<1>1. PICK x \in ToSet(reply) : x.kind = "call" /\ x.call = call
  BY CallInRange
<1>2. open # <<>> => x \in ToSet(open)
  BY <1>1, OpenCalls
<1>3. open \in Seq(AnInput)
  BY OpenType, OfKindType
<1> HIDE DEF open
<1>4. x \in ToSet(open) => CallIn(open, call)
  BY <1>1, <1>3, CallInRange
<1> QED BY <1>2, <1>4 DEF open

LEMMA ResponseMessageSpeaks ==
    ASSUME NEW reply \in Seq(AnInput), Spoken(reply)
    PROVE  /\ to_response_message(reply).role = "assistant"
           /\ \A call : CallIn(reply, call) => Speaks(to_response_message(reply), call)
<1> DEFINE open(kind) == OfKind(kind, Open(reply))
           first(kind) == IF open(kind) # <<>> THEN open(kind) ELSE OfKind(kind, reply)
           rest == first("reasoning") \o OfKind("text", reply) \o open("text")
           body == rest \o first("call")
<1>1. \A kind : open(kind) \in Seq(AnInput) /\ OfKind(kind, reply) \in Seq(AnInput)
  BY OpenType, OfKindType
<1>2. \A kind : first(kind) \in Seq(AnInput)
  BY <1>1
<1>3. rest \in Seq(AnInput)
  <2> HIDE DEF first, open
  <2>1. first("reasoning") \in Seq(AnInput) /\ OfKind("text", reply) \in Seq(AnInput)
        /\ open("text") \in Seq(AnInput)
    BY <1>1, <1>2
  <2> QED BY <2>1
<1>4. ASSUME NEW call, CallIn(reply, call) PROVE CallIn(first("call"), call)
  <2>1. open("call") # <<>> => CallIn(open("call"), call)
    BY <1>4, OpenHasCalls
  <2>2. CallIn(OfKind("call", reply), call)
    BY <1>4, CallInOfKind
  <2> QED BY <2>1, <2>2
<1>5. to_response_message(reply) = Message("assistant", body)
  BY DEF to_response_message
<1> HIDE DEF rest, first
<1>6. ASSUME NEW call, CallIn(reply, call) PROVE CallIn(body, call)
  BY <1>2, <1>3, <1>4, <1>6, CallInConcat
<1> HIDE DEF body
<1> QED BY <1>5, <1>6 DEF Speaks, CallIn, Message

\* A history goes on after what the turn sent, and holds the turn's calls.
LEMMA HistoryHolds ==
    ASSUME NEW t \in ATurn, Headed(t.sent), Spoken(t.reply),
           t.mode \notin Compacting => Rounds(t.sent)
    PROVE  /\ Rounds(History(t))
           /\ t.mode \notin Compacting \cup {"warmup"} =>
                 \A call : CallIn(t.reply, call) => Held(History(t), call)
<1>1. t.reply \in Seq(AnInput) /\ t.sent \in Seq(AMessage)
  BY DEF ATurn
<1>2. Rounds(compaction_output_to_chat_messages(t.reply))
  <2> DEFINE all == [i \in DOMAIN t.reply |-> System(t.reply[i])]
  <2>1. Len(all) = Len(t.reply) /\ \A i \in 1..Len(t.reply) : all[i].role = "system"
    BY <1>1 DEF System, Message
  <2> HIDE DEF all
  <2>2. Rounds(all)
    BY <2>1 DEF Rounds
  <2> QED BY <2>2 DEF all, compaction_output_to_chat_messages
<1>3. ASSUME Rounds(t.sent)
      PROVE  LET h == Append(t.sent, to_response_message(t.reply)) IN
             Rounds(h) /\ \A call : CallIn(t.reply, call) => Held(h, call)
  <2> DEFINE m == to_response_message(t.reply)
  <2>1. m \in AMessage
    BY <1>1, ResponseMessageIsPlain, PlainIsMessage
  <2>2. m.role = "assistant" /\ \A call : CallIn(t.reply, call) => Speaks(m, call)
    BY <1>1, ResponseMessageSpeaks
  <2> HIDE DEF m
  <2>3. Rounds(Append(t.sent, m)) /\ \A call : Speaks(m, call) => Held(Append(t.sent, m), call)
    BY <1>1, <1>3, <2>1, <2>2, RoundsAppend
  <2> QED BY <2>2, <2>3 DEF m
<1>4. ASSUME Rounds(t.sent), NEW items \in Seq(AnInput),
             \A i \in 1..Len(items) : items[i].kind \notin {"user", "output"},
             \A call : CallIn(t.reply, call) => CallIn(items, call)
      PROVE  LET h == t.sent \o items_to_chat_messages(items) IN
             Rounds(h) /\ \A call : CallIn(t.reply, call) => Held(h, call)
  <2> DEFINE ms == items_to_chat_messages(items)
             none == <<>>
  <2>1. Headed(none) /\ Rounds(none) /\ ms = append_items(none, items)
    BY KeepsNothing, RoundsEmpty DEF items_to_chat_messages
  <2>2. Answers(items, {})
    BY <1>4 DEF Answers
  <2>3. ms \in Seq(AMessage)
    BY ItemsToMessages, PlainIsMessage
  <2> HIDE DEF none, ms
  <2>4. /\ Rounds(ms)
        /\ \A call : ItemHeld(items, Len(items) + 1, {}, call) => Held(ms, call)
    BY <2>1, <2>2, AppendItemsHolds
  <2>5. ASSUME NEW call, CallIn(items, call) PROVE ItemHeld(items, Len(items) + 1, {}, call)
    <3>1. PICK j \in 1..Len(items) : items[j].kind = "call" /\ items[j].call = call
      BY <2>5 DEF CallIn
    <3>2. j \in 1..((Len(items) + 1) - 1)
          /\ \A m \in (j + 1)..((Len(items) + 1) - 1) : items[m].kind # "user"
      BY <1>4
    <3> QED BY <3>1, <3>2 DEF ItemHeld
  <2>6. Rounds(t.sent \o ms) /\ \A call : Held(ms, call) => Held(t.sent \o ms, call)
    BY <1>1, <1>4, <2>3, <2>4, RoundsConcat, HeldConcat
  <2> QED BY <1>4, <2>4, <2>5, <2>6 DEF ms
<1>5. \A i \in 1..Len(t.reply) : t.reply[i].kind \notin {"user", "output"}
  BY DEF Spoken
<1>6. LET items == build_response_from_state(t.reply) IN
      /\ items \in Seq(AnInput) /\ \A i \in 1..Len(items) : items[i].kind \notin {"user", "output"}
      /\ \A call : CallIn(t.reply, call) => CallIn(items, call)
  <2> DEFINE open == Open(t.reply)
             items == t.reply \o open
  <2>1. open \in Seq(AnInput) /\ \A i \in 1..Len(open) : open[i].kind \notin {"user", "output"}
    BY <1>1, <1>5, OpenType, OpenIsOf
  <2> HIDE DEF open
  <2>2. items \in Seq(AnInput) /\ \A i \in 1..Len(items) : items[i].kind \notin {"user", "output"}
    <3>1. /\ items \in Seq(AnInput) /\ Len(items) = Len(t.reply) + Len(open)
          /\ \A i \in 1..Len(t.reply) : items[i] = t.reply[i]
          /\ \A i \in (Len(t.reply) + 1)..Len(items) :
                items[i] = open[i - Len(t.reply)] /\ i - Len(t.reply) \in 1..Len(open)
      BY <1>1, <2>1, ConcatParts, Zenon
    <3> HIDE DEF items
    <3>2. \A i \in 1..Len(items) : i \in 1..Len(t.reply) \/ i \in (Len(t.reply) + 1)..Len(items)
      BY <1>1, <3>1
    <3> QED BY <1>5, <2>1, <3>1, <3>2
  <2> QED BY <1>1, <2>2, OutputHasCalls DEF build_response_from_state, open
<1>7. LET items == chat_to_responses(t.reply) IN
      /\ items \in Seq(AnInput) /\ \A i \in 1..Len(items) : items[i].kind \notin {"user", "output"}
      /\ \A call : CallIn(t.reply, call) => CallIn(items, call)
  <2> DEFINE items == chat_to_responses(t.reply)
  <2>1. items \in Seq(AnInput)
    BY <1>1, ChatToResponsesType
  <2>2. \A x \in ToSet(items) : x.kind \in {"reasoning", "call", "text"}
    BY <1>1, OutputIsOf
  <2> HIDE DEF items
  <2>3. \A i \in 1..Len(items) : items[i] \in ToSet(items)
    BY <2>1 DEF ToSet
  <2>4. \A i \in 1..Len(items) : items[i].kind \notin {"user", "output"}
    BY <2>2, <2>3
  <2> QED BY <1>1, <2>1, <2>4, OutputHasCalls DEF items
<1>8. CASE t.mode \in Compacting
  BY <1>2, <1>8 DEF History, Compacting
<1>9. CASE t.mode = "warmup"
  BY <1>9 DEF History, Compacting
<1>10. CASE t.mode = "ws"
  <2>1. History(t) = Append(t.sent, to_response_message(t.reply)) /\ Rounds(t.sent)
    BY <1>10 DEF History, Compacting
  <2> QED BY <1>3, <2>1
<1>11. CASE t.mode = "sse"
  <2>1. /\ History(t) = t.sent \o items_to_chat_messages(build_response_from_state(t.reply))
        /\ Rounds(t.sent)
    BY <1>11 DEF History, Compacting
  <2> QED BY <1>4, <1>6, <2>1
<1>12. CASE t.mode \notin Compacting \cup {"warmup", "ws", "sse"}
  <2>1. /\ History(t) = t.sent \o items_to_chat_messages(chat_to_responses(t.reply))
        /\ Rounds(t.sent)
    BY <1>12 DEF History
  <2> QED BY <1>4, <1>7, <2>1
<1> QED BY <1>8, <1>9, <1>10, <1>11, <1>12

-----------------------------------------------------------------------------
(* Items one after the other                                               *)

LEMMA ItemHeldStill ==
    ASSUME NEW a \in Seq(AnInput), NEW b \in Seq(AnInput), NEW n \in 1..(Len(a) + 1),
           NEW to \in n..(Len(a) + Len(b) + 1), NEW call, ItemHeld(a, n, {}, call),
           \A m \in n..(to - 1) : (a \o b)[m].kind # "user"
    PROVE  ItemHeld(a \o b, to, {}, call)
<1> DEFINE all == a \o b
<1>1. \A i \in 1..Len(a) : all[i] = a[i]
  OBVIOUS
<1>2. PICK j \in 1..(n - 1) : /\ a[j].kind = "call" /\ a[j].call = call
                              /\ \A m \in (j + 1)..(n - 1) : a[m].kind # "user"
  BY DEF ItemHeld
<1>3. \A m \in n..(to - 1) : all[m].kind # "user"
  OBVIOUS
<1> HIDE DEF all
<1>4. j \in 1..(to - 1) /\ j \in 1..Len(a) /\ all[j] = a[j]
  BY <1>1, <1>2
<1>5. \A m \in (j + 1)..(to - 1) : all[m].kind # "user"
  <2> TAKE m \in (j + 1)..(to - 1)
  <2>1. CASE m < n
    <3>1. m \in 1..Len(a) /\ m \in (j + 1)..(n - 1)
      BY <2>1
    <3> QED BY <1>1, <1>2, <3>1
  <2>2. CASE m >= n
    <3>1. m \in n..(to - 1)
      BY <2>2
    <3> QED BY <1>3, <3>1
  <2> QED BY <2>1, <2>2
<1>6. ItemHeld(all, to, {}, call)
  BY <1>2, <1>4, <1>5 DEF ItemHeld
<1> QED BY <1>6 DEF all

\* Items of which no output comes after the user, and all answer these calls.
Heads(items, calls) ==
    \A i \in 1..Len(items) : items[i].kind = "output" =>
        items[i].call \in calls /\ \A m \in 1..(i - 1) : items[m].kind # "user"

LEMMA AnswersConcat ==
    ASSUME NEW a \in Seq(AnInput), NEW b \in Seq(AnInput), Answers(a, {}), NEW calls,
           \A call \in calls : ItemHeld(a, Len(a) + 1, {}, call), Heads(b, calls)
    PROVE  Answers(a \o b, {})
<1> DEFINE all == a \o b
           n == Len(a)
<1>1. /\ Len(all) = n + Len(b) /\ n \in Nat /\ Len(b) \in Nat
      /\ \A i \in 1..n : all[i] = a[i]
      /\ \A i \in (n + 1)..Len(all) : all[i] = b[i - n] /\ i - n \in 1..Len(b)
  BY ConcatParts
<1> SUFFICES ASSUME NEW i \in 1..Len(all), all[i].kind = "output"
             PROVE  ItemHeld(all, i, {}, all[i].call)
  BY DEF Answers
<1> DEFINE call == all[i].call
<1> HIDE DEF all
<1>2. CASE i <= n
  <2>1. all[i] = a[i] /\ i \in 1..Len(a) /\ i \in 1..(Len(a) + 1)
        /\ i \in i..(Len(a) + Len(b) + 1) /\ \A m \in i..(i - 1) : FALSE
    BY <1>1, <1>2
  <2>2. ItemHeld(a, i, {}, call)
    BY <2>1 DEF Answers
  <2> HIDE DEF call
  <2>3. ItemHeld(a \o b, i, {}, call)
    BY <2>1, <2>2, ItemHeldStill
  <2> QED BY <2>3 DEF all, call
<1>3. CASE i > n
  <2> DEFINE from == n + 1
             k == i - n
  <2>1. all[i] = b[k] /\ k \in 1..Len(b) /\ n + k = i /\ k \in Nat
    BY <1>1, <1>3
  <2>2. call \in calls /\ \A m \in 1..(k - 1) : b[m].kind # "user"
    BY <2>1 DEF Heads
  <2>3. \A m \in from..(i - 1) : all[m].kind # "user"
    <3> TAKE m \in from..(i - 1)
    <3>1. m \in (n + 1)..Len(all) /\ m - n \in 1..(k - 1)
      BY <1>1, <2>1
    <3> HIDE DEF k, call
    <3> QED BY <1>1, <2>2, <3>1
  <2>4. from \in 1..(Len(a) + 1) /\ i \in from..(Len(a) + Len(b) + 1) /\ ItemHeld(a, from, {}, call)
    BY <1>1, <1>3, <2>2
  <2> HIDE DEF from, call, k
  <2>5. ItemHeld(a \o b, i, {}, call)
    BY <2>3, <2>4, ItemHeldStill DEF all
  <2> QED BY <2>5 DEF all, call
<1> QED BY <1>2, <1>3

\* What the upstream says is no answer, and no user's message.
Replied(items) == \A i \in 1..Len(items) : items[i].kind \notin {"user", "output"}

LEMMA RepliesAnswer ==
    ASSUME NEW a \in Seq(AnInput), Answers(a, {}), NEW b \in Seq(AnInput), Replied(b)
    PROVE  LET all == a \o b IN
           /\ Answers(all, {})
           /\ \A call : CallIn(b, call) \/ ItemHeld(a, Len(a) + 1, {}, call)
                           => ItemHeld(all, Len(all) + 1, {}, call)
<1> DEFINE all == a \o b
           n == Len(a)
           from == n + 1
           to == n + Len(b) + 1
<1>1. /\ Len(all) = n + Len(b) /\ n \in Nat /\ Len(b) \in Nat
      /\ \A i \in (n + 1)..Len(all) : all[i] = b[i - n] /\ i - n \in 1..Len(b)
      /\ \A i \in 1..Len(b) : all[n + i] = b[i]
  BY ConcatParts, ConcatLast
<1>2. Answers(all, {})
  <2>1. Heads(b, {})
    BY DEF Heads, Replied
  <2> HIDE DEF all
  <2>2. Answers(a \o b, {})
    BY <2>1, AnswersConcat
  <2> QED BY <2>2 DEF all
<1> HIDE DEF all
<1>3. \A m \in from..(to - 1) : all[m].kind # "user"
  BY <1>1 DEF Replied
<1>4. ASSUME NEW call, ItemHeld(a, n + 1, {}, call) PROVE ItemHeld(all, to, {}, call)
  <2>1. from \in 1..(Len(a) + 1) /\ to \in from..(Len(a) + Len(b) + 1) /\ ItemHeld(a, from, {}, call)
    BY <1>1, <1>4
  <2> HIDE DEF from, to
  <2>2. ItemHeld(a \o b, to, {}, call)
    BY <1>3, <2>1, ItemHeldStill DEF all
  <2> QED BY <2>2 DEF all
<1>5. ASSUME NEW call, CallIn(b, call) PROVE ItemHeld(all, to, {}, call)
  <2>1. PICK i \in 1..Len(b) : b[i].kind = "call" /\ b[i].call = call
    BY <1>5 DEF CallIn
  <2> DEFINE j == n + i
  <2>2. j \in 1..(to - 1) /\ all[j] = b[i] /\ \A m \in (j + 1)..(to - 1) : m \in from..(to - 1)
    BY <1>1
  <2> HIDE DEF j, to, from
  <2> QED BY <1>3, <2>1, <2>2 DEF ItemHeld
<1>6. to = Len(all) + 1
  BY <1>1
<1> QED BY <1>2, <1>4, <1>5, <1>6 DEF all

-----------------------------------------------------------------------------
(* Calls and outputs of turns                                              *)

Called(c) == {c.calls[k].call : k \in DOMAIN c.calls}

\* The client knows no answer without its call, and may still answer its calls.
ClientAnswers(c) ==
    /\ Answers(c.known, {})
    /\ \A call \in Called(c) : ItemHeld(c.known, Len(c.known) + 1, {}, call)

\* Of a turn, from what it is asked to what it put: who continues by id answers
\* what was called last, others bring the calls with their answers.
TurnAnswers(t, history, c) ==
    /\ Spoken(t.reply)
    /\ t.mode \in Compacting => \A i \in 1..Len(t.reply) : t.reply[i].kind # "call"
    /\ t.pc = "upstream" => t.mode # "warmup"
    /\ t.pc = "convert" =>
          /\ t.mode \in Compacting => t.new = <<>>
          /\ IF t.prev = 0 THEN Answers(t.input, {})
             ELSE t.input = t.new /\ t.prev = c.last /\ Answers(t.new, Called(c))
    /\ Pending(t) => Answers(c.known \o t.new, {})
    /\ t.pc \in {"first_put", "upstream", "put_tools", "put"} /\ t.whole => Rounds(t.sent)
    /\ t.pc = "over" /\ history # Missing /\ Complete(t) => Rounds(history)

\* The calls that the client may answer are those that turn t has left or will leave.
LeavesCalls(t, history, c) ==
    /\ t.pc \in {"first_put", "upstream"} \/ t.mode \in Compacting \cup {"warmup"} => Called(c) = {}
    /\ t.pc \in {"put_tools", "put"} => \A call \in Called(c) : CallIn(t.reply, call)
    /\ t.pc = "over" /\ history # Missing /\ Complete(t) => \A call \in Called(c) : Held(history, call)

RoundsInv ==
    /\ \A n \in Turns : TurnAnswers(turns[n], store[n], client)
    /\ ClientAnswers(client)
    /\ client.last # 0 => LeavesCalls(turns[client.last], store[client.last], client)

\* A turn that the client does not wait for is not touched by what it learns.
LEMMA RoundsSteps ==
    ASSUME Inv, RoundsInv, NEW n \in Turns, OnlyTurn(n),
           \/ n = count
           \/ client'.known = client.known /\ client'.calls = client.calls /\ client'.last = client.last,
           \/ client'.last = n
           \/ client'.calls = client.calls /\ client'.last = client.last,
           TurnAnswers(turns'[n], store'[n], client'), ClientAnswers(client'),
           client'.last = n => LeavesCalls(turns'[n], store'[n], client')
    PROVE  RoundsInv'
<1>1. \A m \in Turns : m # n => turns'[m] = turns[m] /\ store'[m] = store[m]
  BY DEF OnlyTurn
<1>2. ASSUME NEW m \in Turns PROVE TurnAnswers(turns'[m], store'[m], client')
  <2>1. CASE m # n
    <3>1. TurnAnswers(turns[m], store[m], client)
      BY DEF RoundsInv
    <3>2. CASE client'.known = client.known /\ client'.calls = client.calls
               /\ client'.last = client.last
      <4>1. TurnAnswers(turns[m], store[m], client')
        BY <3>1, <3>2 DEF TurnAnswers, Called
      <4> QED BY <1>1, <2>1, <4>1
    <3>3. CASE n = count
      <4>1. ~Pending(turns[m])
        <5> SUFFICES ASSUME Pending(turns[m]) PROVE FALSE
          OBVIOUS
        <5>1. client.waiting = m
          BY InvParts DEF TurnHasTools
        <5> QED BY <2>1, <3>3, <5>1, InvParts DEF Turns
      <4>2. turns[m].pc # "convert"
        BY <4>1 DEF Pending
      <4>3. TurnAnswers(turns[m], store[m], client')
        BY <3>1, <4>1, <4>2 DEF TurnAnswers
      <4> QED BY <1>1, <2>1, <4>3
    <3> QED BY <3>2, <3>3
  <2> QED BY <2>1
<1>3. ASSUME client'.last # 0
      PROVE  LeavesCalls(turns'[client'.last], store'[client'.last], client')
  <2>1. CASE client'.last = n
    BY <2>1
  <2>2. CASE client'.last # n
    <3>1. client'.calls = client.calls /\ client'.last = client.last
      BY <2>2
    <3>2. client.last \in Turns
      BY <1>3, <3>1, InvParts DEF Turns
    <3>3. LeavesCalls(turns[client.last], store[client.last], client)
      BY <1>3, <3>1 DEF RoundsInv
    <3>4. LeavesCalls(turns[client.last], store[client.last], client')
      BY <3>1, <3>3 DEF LeavesCalls, Called
    <3> QED BY <1>1, <2>2, <3>1, <3>2, <3>4
  <2> QED BY <2>1, <2>2
<1> QED BY <1>2, <1>3 DEF RoundsInv

-----------------------------------------------------------------------------
(* What the client learns, and what it says next                           *)

LEMMA OutputIsReplied ==
    ASSUME NEW mode, NEW reply \in Seq(AnInput), Spoken(reply)
    PROVE  Replied(OutputItems(mode, reply))
<1> DEFINE out == chat_to_responses(reply)
<1>1. Replied(reply)
  BY DEF Spoken, Replied
<1>2. Replied(out)
  <2>1. out \in Seq(AnInput) /\ \A x \in ToSet(out) : x.kind \in {"reasoning", "call", "text"}
    BY ChatToResponsesType, OutputIsOf
  <2> HIDE DEF out
  <2>2. \A i \in 1..Len(out) : out[i] \in ToSet(out)
    BY <2>1 DEF ToSet
  <2> QED BY <2>1, <2>2 DEF Replied
<1> QED BY <1>1, <1>2 DEF OutputItems

\* The turn the client waits for is the last that began.
LEMMA PendingIsLast ==
    ASSUME Inv, NEW n \in Turns, Pending(turns[n])
    PROVE  client.waiting = n /\ n = count /\ client.last # n
<1>1. client.waiting = n
  BY InvParts DEF TurnHasTools
<1>2. n # 0 /\ n \in Nat
  BY DEF Turns
<1>3. n = count /\ client.last < count /\ client.last \in Nat
  BY <1>1, <1>2, InvParts, ClientFields
<1> QED BY <1>1, <1>2, <1>3

LEMMA LearnAnswers ==
    ASSUME Inv, RoundsInv, NEW n \in Turns, turns[n].pc # "none", Pending(turns[n]),
           NEW out \in Seq(AnInput), Replied(out), Learn(n, out)
    PROVE  /\ n = count /\ client'.last = n
           /\ ClientAnswers(client')
           /\ \A call \in Called(client') : CallIn(out, call)
<1> DEFINE t == turns[n]
           calls == OfKind("call", out)
           said == client.known \o t.new
           known == client'.known
<1>1. n = count /\ client.waiting = n
  BY PendingIsLast
<1>2. t \in ATurn /\ client \in AClient /\ client.known \in Seq(AnInput) /\ t.new \in Seq(AnInput)
  BY AtAStep, TurnFields, ClientFields, InvParts
<1>3. said \in Seq(AnInput) /\ Answers(said, {})
  BY <1>2 DEF RoundsInv, TurnAnswers
<1>4. /\ known = IF t.mode \in Compacting THEN out ELSE said \o out
      /\ client'.calls = calls /\ client'.last = n
  BY <1>2, Zenon DEF Learn, AClient
<1>5. \A call \in Called(client') : CallIn(out, call)
  <2>1. calls \in Seq(AnInput) /\ \A x \in ToSet(calls) : x \in ToSet(out) /\ x.kind = "call"
    BY OfKindType, OfKindIs
  <2> HIDE DEF calls
  <2> TAKE call \in Called(client')
  <2>2. PICK k \in DOMAIN calls : calls[k].call = call
    BY <1>4 DEF Called
  <2>3. calls[k] \in ToSet(calls)
    BY <2>1 DEF ToSet
  <2> QED BY <2>1, <2>2, <2>3, CallInRange
<1> HIDE DEF said, known, calls
<1>6. PICK a \in Seq(AnInput) : Answers(a, {}) /\ known = a \o out
  <2>1. CASE t.mode \in Compacting
    <3> DEFINE none == <<>>
    <3>1. none \in Seq(AnInput) /\ Answers(none, {}) /\ known = none \o out
      BY <1>4, <2>1 DEF Answers
    <3> QED BY <3>1
  <2>2. CASE t.mode \notin Compacting
    BY <1>3, <1>4, <2>2
  <2> QED BY <2>1, <2>2
<1>7. /\ Answers(known, {})
      /\ \A call : CallIn(out, call) => ItemHeld(known, Len(known) + 1, {}, call)
  BY <1>6, RepliesAnswer
<1>8. ClientAnswers(client')
  BY <1>5, <1>7 DEF ClientAnswers, known
<1> QED BY <1>1, <1>4, <1>5, <1>8

LEMMA NewsHeads ==
    ASSUME Inv, NEW n \in Nat, NEW mode, NEW new \in News(n, mode)
    PROVE  Heads(new, Called(client)) /\ (mode \in Compacting => new = <<>>)
<1> DEFINE calls == client.calls
           outputs == [i \in DOMAIN calls |-> Output(n, calls[i].call)]
           user == <<Item("user", n)>>
<1>1. calls \in Seq(AnInput)
  BY InvParts, ClientFields
<1>2. /\ Len(outputs) = Len(calls)
      /\ \A i \in 1..Len(outputs) : outputs[i].kind = "output" /\ outputs[i].call \in Called(client)
  BY <1>1 DEF Output, Called
<1>3. Len(user) = 1 /\ user[1].kind = "user"
  BY DEF Item
<1>4. new \in {<<>>, user, outputs, outputs \o user}
  BY Zenon DEF News
<1>5. outputs \in Seq(AnInput) /\ user \in Seq(AnInput)
  <2>1. ASSUME NEW i \in 1..Len(calls) PROVE Output(n, calls[i].call) \in AnInput
    <3>1. calls[i] \in AnInput
      BY <1>1
    <3>2. calls[i].call \in Nat \X Nat
      BY <3>1 DEF AnInput
    <3> QED BY <3>2 DEF Output, AnInput, InputKind, Kind
  <2>2. user \in Seq(AnInput)
    BY ItemTypes DEF InputKind, Kind
  <2> QED BY <1>1, <2>1, <2>2
<1>6. mode \in Compacting => new = <<>>
  BY Zenon DEF News
<1> HIDE DEF outputs, user
<1>7. CASE new = <<>>
  BY <1>6, <1>7 DEF Heads
<1>8. CASE new = user
  <2>1. Len(new) = 1 /\ new[1].kind = "user"
    BY <1>3, <1>8
  <2>2. \A i \in 1..1 : i = 1
    OBVIOUS
  <2>3. \A i \in 1..Len(new) : new[i].kind # "output"
    BY <2>1, <2>2
  <2> QED BY <1>6, <2>3 DEF Heads
<1>9. CASE new = outputs
  BY <1>2, <1>6, <1>9 DEF Heads
<1>10. CASE new = outputs \o user
  <2>1. /\ Len(new) = Len(outputs) + Len(user)
        /\ \A i \in 1..Len(outputs) : new[i] = outputs[i]
        /\ \A i \in (Len(outputs) + 1)..Len(new) :
              new[i] = user[i - Len(outputs)] /\ i - Len(outputs) \in 1..Len(user)
        /\ Len(outputs) \in Nat
    BY <1>5, <1>10, ConcatParts
  <2>2. ASSUME NEW i \in 1..Len(new), new[i].kind = "output"
        PROVE  new[i].call \in Called(client) /\ \A m \in 1..(i - 1) : new[m].kind # "user"
    <3>1. i \in 1..Len(outputs)
      <4> SUFFICES ASSUME i \notin 1..Len(outputs) PROVE FALSE
        OBVIOUS
      <4>1. i \in (Len(outputs) + 1)..Len(new)
        BY <2>1
      <4>2. new[i] = user[1]
        BY <1>3, <2>1, <4>1
      <4> QED BY <1>3, <2>2, <4>2
    <3>2. \A m \in 1..(i - 1) : m \in 1..Len(outputs)
      BY <2>1, <3>1
    <3> QED BY <1>2, <2>1, <3>1, <3>2
  <2> QED BY <1>6, <2>2 DEF Heads
<1> QED BY <1>4, <1>7, <1>8, <1>9, <1>10

\* What the client adds answers what was called, by id and inline.
LEMMA NewsAnswer ==
    ASSUME Inv, RoundsInv, NEW n \in Nat, NEW mode, NEW new \in News(n, mode)
    PROVE  Answers(client.known \o new, {}) /\ Answers(new, Called(client))
<1>1. new \in Seq(AnInput) /\ Heads(new, Called(client))
  BY NewsAreItems, NewsHeads
<1>2. client.known \in Seq(AnInput) /\ ClientAnswers(client)
  BY InvParts, ClientFields DEF RoundsInv
<1>3. Answers(client.known \o new, {})
  BY <1>1, <1>2, AnswersConcat DEF ClientAnswers
<1>4. Answers(new, Called(client))
  BY <1>1 DEF Heads, Answers, ItemHeld
<1> QED BY <1>3, <1>4

\* What a turn sends has no answer without its call, if it found all it continues.
LEMMA ConvertedHolds ==
    ASSUME Inv, RoundsInv, NEW n \in Turns, turns[n].pc = "convert",
           turns[n].prev # 0 => Settled(turns[n].prev) /\ Complete(turns[turns[n].prev])
    PROVE  Rounds(enforce_budgets(Converted(n), budget))
<1> DEFINE t == turns[n]
           item == Item("instructions", n)
           current == items_to_chat_messages(t.input)
           restored == Restored(t.prev)
           prompt == Message("user", <<Item("prompt", n)>>)
           calls == IF t.prev = 0 THEN {} ELSE Called(client)
<1>1. /\ t \in ATurn /\ n \in Nat /\ t.input \in Seq(AnInput) /\ t.prev \in 0..(n - 1)
      /\ t.given \in {<<>>, <<item>>}
  BY AtAStep, TurnFields DEF TurnIsTyped
<1>2. TurnAnswers(t, store[n], client)
  BY DEF RoundsInv
<1>3. /\ Headed(restored) /\ Rounds(restored) /\ \A call \in calls : Held(restored, call)
      /\ Answers(t.input, calls)
  <2>1. CASE t.prev = 0
    <3>1. restored = <<>>
      BY <2>1 DEF Restored
    <3>2. Headed(<<>>) /\ Rounds(<<>>)
      BY KeepsNothing, RoundsEmpty
    <3> QED BY <1>2, <2>1, <3>1, <3>2 DEF TurnAnswers
  <2>2. CASE t.prev # 0
    <3>1. t.prev \in Turns /\ t.prev = client.last /\ Settled(t.prev) /\ Complete(turns[t.prev])
      BY <1>1, <1>2, <2>2 DEF Turns, TurnAnswers
    <3>2. /\ turns[t.prev].pc = "over" /\ store[t.prev] # Missing /\ restored = store[t.prev]
      BY <2>2, <3>1 DEF Settled, Restored
    <3>3. Headed(store[t.prev])
      BY <3>1, <3>2, InvParts
    <3>4. Rounds(store[t.prev])
      BY <3>1, <3>2 DEF RoundsInv, TurnAnswers
    <3>5. LeavesCalls(turns[t.prev], store[t.prev], client)
      BY <2>2, <3>1 DEF RoundsInv
    <3>6. \A call \in Called(client) : Held(store[t.prev], call)
      BY <3>1, <3>2, <3>5 DEF LeavesCalls
    <3> QED BY <1>2, <2>2, <3>2, <3>3, <3>4, <3>6 DEF TurnAnswers
  <2> QED BY <2>1, <2>2
<1>4. item \in AnItem
  BY <1>1, ItemTypes DEF Kind
<1> DEFINE base == IF current # <<>> THEN current ELSE restored
           summarised == Append(base, prompt)
           asked == responses_to_chat(restored, t.given, t.input)
<1>5. Converted(n) = IF t.mode \in Compacting THEN summarised ELSE asked
  BY DEF Converted
<1>6. ASSUME t.mode \notin Compacting PROVE Rounds(asked)
  <2> DEFINE merged == merge_instructions(restored, t.given)
  <2>1. /\ Rounds(merged) /\ \A call \in calls : Held(merged, call)
    <3> HIDE DEF restored, item, calls
    <3> QED BY <1>1, <1>3, <1>4, InstructionsHold
  <2>2. Headed(merged)
    <3> HIDE DEF restored, item
    <3> QED BY <1>1, <1>3, <1>4, InstructionsKeep
  <2> HIDE DEF merged, calls
  <2>3. Rounds(append_items(merged, t.input))
    BY <1>1, <1>3, <2>1, <2>2, AppendItemsHolds
  <2> QED BY <2>3 DEF responses_to_chat, merged
<1>7. ASSUME t.mode \in Compacting PROVE Rounds(summarised)
  <2>1. prompt \in AMessage /\ prompt.role = "user"
    <3>1. Item("prompt", n) \in APlain
      BY <1>1, ItemTypes DEF PlainKind, Kind
    <3>2. <<Item("prompt", n)>> \in Seq(APlain) /\ "user" \in Role
      BY <3>1 DEF Role
    <3> QED BY <3>2, MessageIsPlain, PlainIsMessage DEF Message
  <2>2. Rounds(current) /\ current \in Seq(AMessage)
    <3>1. Answers(t.input, {})
      <4>1. CASE t.prev = 0
        BY <1>3, <4>1
      <4>2. CASE t.prev # 0
        <5>1. t.input = <<>>
          BY <1>2, <1>7, <4>2 DEF TurnAnswers
        <5> QED BY <5>1 DEF Answers
      <4> QED BY <4>1, <4>2
    <3> DEFINE none == <<>>
    <3>2. Headed(none) /\ Rounds(none) /\ current = append_items(none, t.input)
      BY KeepsNothing, RoundsEmpty DEF items_to_chat_messages
    <3>3. current \in Seq(AMessage)
      BY <1>1, ItemsToMessages, PlainIsMessage
    <3> HIDE DEF none, current
    <3> QED BY <1>1, <3>1, <3>2, <3>3, AppendItemsHolds
  <2>3. Rounds(base) /\ base \in Seq(AMessage)
    <3> HIDE DEF current, restored
    <3> QED BY <1>3, <2>2 DEF Headed
  <2> HIDE DEF base, prompt
  <2> QED BY <2>1, <2>3, RoundsAppend
<1> DEFINE converted == Converted(n)
<1>8. Rounds(converted)
  <2> HIDE DEF summarised, asked
  <2> QED BY <1>5, <1>6, <1>7
<1>9. Headed(converted)
  <2> DEFINE kept == enforce_budgets(converted, budget)
  <2> QED BY ConvertedIsHeaded
<1> HIDE DEF converted
<1> QED BY <1>8, <1>9, BudgetsHold, InvParts DEF converted

-----------------------------------------------------------------------------
(* Every action keeps calls before what answers them                       *)

LEMMA NothingIsSpoken ==
    /\ <<>> \in Seq(AnInput) /\ Spoken(<<>>) /\ Replied(<<>>)
    /\ \A call : ~CallIn(<<>>, call)
BY DEF Spoken, OneRun, Replied, CallIn

\* A turn that is over has nothing left to say.
LEMMA EndedAnswers ==
    ASSUME NEW t \in ATurn, NEW pc \in {"over", "failed"}, NEW history, NEW c,
           pc = "over" /\ history # Missing /\ Complete(t) => Rounds(history)
    PROVE  TurnAnswers(Ended(t, pc), history, c)
<1> DEFINE e == Ended(t, pc)
<1>1. e.pc = pc /\ e.mode = t.mode /\ e.whole = t.whole
  BY EndedTurn
<1>2. e.reply = <<>>
  BY DEF Ended, NoTurn
<1> HIDE DEF e
<1>3. Spoken(e.reply) /\ \A i \in 1..Len(e.reply) : FALSE
  BY <1>2, NothingIsSpoken
<1>4. ~Pending(e)
  BY <1>1 DEF Pending
<1>5. TurnAnswers(e, history, c)
  BY <1>1, <1>3, <1>4 DEF TurnAnswers, Complete
<1> QED BY <1>5 DEF e

LEMMA PutToolsAnswers ==
    ASSUME Inv, RoundsInv, NEW n \in Turns, PutTools(n)
    PROVE  RoundsInv'
<1> DEFINE t == turns[n]
           new == [t EXCEPT !.pc = "put"]
<1>1. t.pc = "put_tools" /\ t \in ATurn /\ TurnAnswers(t, store[n], client)
  BY AtAStep DEF PutTools, RoundsInv
<1>2. turns'[n] = new /\ client' = client /\ store' = store /\ OnlyTurn(n)
  BY InvParts DEF PutTools, OnlyTurn
<1>3. /\ new.pc = "put" /\ new.mode = t.mode /\ new.reply = t.reply /\ new.new = t.new
      /\ new.sent = t.sent /\ new.whole = t.whole
  BY <1>1 DEF ATurn
<1> HIDE DEF new
<1>4. Pending(new) => Pending(t)
  BY <1>1, <1>3 DEF Pending
<1>5. TurnAnswers(new, store[n], client)
  BY <1>1, <1>3, <1>4 DEF TurnAnswers
<1>6. client.last = n => LeavesCalls(new, store[n], client)
  <2> SUFFICES ASSUME client.last = n PROVE LeavesCalls(new, store[n], client)
    OBVIOUS
  <2>1. LeavesCalls(t, store[n], client)
    BY DEF RoundsInv, Turns
  <2> QED BY <1>1, <1>3, <2>1 DEF LeavesCalls
<1> QED BY <1>2, <1>5, <1>6, RoundsSteps DEF RoundsInv

LEMMA FailAnswers ==
    ASSUME Inv, RoundsInv, NEW n \in Turns, Fail(n)
    PROVE  RoundsInv'
<1> DEFINE t == turns[n]
           failed == Ended(t, "failed")
           put == [t EXCEPT !.pc = "put"]
<1>1. t.pc = "upstream" /\ t \in ATurn /\ TurnAnswers(t, store[n], client)
  BY AtAStep DEF Fail, RoundsInv
<1>2. /\ turns'[n] = failed \/ (t.mode = "background" /\ turns'[n] = put)
      /\ client' = [client EXCEPT !.waiting = IF @ = n THEN 0 ELSE @]
      /\ store' = store /\ OnlyTurn(n)
  BY InvParts DEF Fail, OnlyTurn
<1>3. client'.known = client.known /\ client'.calls = client.calls /\ client'.last = client.last
  BY <1>2, InvParts DEF AClient
<1>4. client.last = n => Called(client') = {}
  <2> SUFFICES ASSUME client.last = n PROVE Called(client) = {}
    BY <1>3 DEF Called
  <2>1. LeavesCalls(t, store[n], client)
    BY DEF RoundsInv, Turns
  <2> QED BY <1>1, <2>1 DEF LeavesCalls
<1>5. ClientAnswers(client')
  BY <1>3 DEF RoundsInv, ClientAnswers, Called
<1>6. CASE turns'[n] = failed
  <2>1. failed.pc = "failed" /\ TurnAnswers(failed, store[n], client')
    BY <1>1, EndedTurn, EndedAnswers
  <2> HIDE DEF failed
  <2>2. client'.last = n => LeavesCalls(failed, store[n], client')
    BY <1>3, <1>4, <2>1 DEF LeavesCalls
  <2> QED BY <1>2, <1>3, <1>5, <1>6, <2>1, <2>2, RoundsSteps
<1>7. CASE t.mode = "background" /\ turns'[n] = put
  <2>1. /\ put.pc = "put" /\ put.mode = t.mode /\ put.reply = t.reply /\ put.new = t.new
        /\ put.sent = t.sent /\ put.whole = t.whole
    BY <1>1 DEF ATurn
  <2> HIDE DEF put
  <2>2. ~Pending(put)
    BY <1>7, <2>1 DEF Pending
  <2>3. TurnAnswers(put, store[n], client')
    BY <1>1, <2>1, <2>2 DEF TurnAnswers
  <2>4. client'.last = n => LeavesCalls(put, store[n], client')
    BY <1>3, <1>4, <2>1 DEF LeavesCalls
  <2> QED BY <1>2, <1>3, <1>5, <1>7, <2>3, <2>4, RoundsSteps
<1> QED BY <1>2, <1>6, <1>7

LEMMA FirstPutAnswers ==
    ASSUME Inv, RoundsInv, NEW n \in Turns, FirstPut(n)
    PROVE  RoundsInv'
<1> DEFINE t == turns[n]
           new == [t EXCEPT !.pc = "upstream"]
<1>1. /\ t.pc = "first_put" /\ t \in ATurn /\ TurnAnswers(t, store[n], client)
      /\ Learn(n, <<>>)
  BY AtAStep DEF FirstPut, RoundsInv
<1>2. t.mode = "background" /\ Pending(t)
  BY <1>1, InvParts DEF TurnHasTools, Pending
<1>3. turns'[n] = new /\ OnlyTurn(n)
  BY InvParts DEF FirstPut, OnlyTurn
<1>4. /\ n = count /\ client'.last = n /\ ClientAnswers(client')
      /\ \A call \in Called(client') : CallIn(<<>>, call)
  BY <1>1, <1>2, NothingIsSpoken, LearnAnswers
<1>5. Called(client') = {}
  BY <1>4, NothingIsSpoken
<1>6. /\ new.pc = "upstream" /\ new.mode = t.mode /\ new.reply = t.reply /\ new.new = t.new
      /\ new.sent = t.sent /\ new.whole = t.whole
  BY <1>1 DEF ATurn
<1> HIDE DEF new
<1>7. ~Pending(new)
  BY <1>2, <1>6 DEF Pending
<1>8. TurnAnswers(new, store'[n], client')
  BY <1>1, <1>2, <1>6, <1>7 DEF TurnAnswers
<1>9. LeavesCalls(new, store'[n], client')
  BY <1>5, <1>6 DEF LeavesCalls
<1> QED BY <1>3, <1>4, <1>8, <1>9, RoundsSteps

LEMMA PutAnswers ==
    ASSUME Inv, RoundsInv, NEW n \in Turns, Put(n)
    PROVE  RoundsInv'
<1> DEFINE t == turns[n]
           over == Ended(t, "over")
           history == History(t)
           out == OutputItems(t.mode, t.reply)
           learns == t.mode \in {"whole", "compaction"}
<1>1. /\ t.pc = "put" /\ t \in ATurn /\ TurnAnswers(t, store[n], client)
      /\ Headed(t.sent) /\ t.reply \in Seq(AnInput)
  BY AtAStep, TurnFields DEF Put, RoundsInv, TurnIsTyped
<1>2. /\ turns'[n] = over /\ store'[n] = history /\ OnlyTurn(n)
      /\ IF learns THEN Learn(n, out) ELSE client' = client
  BY InvParts DEF Put, OnlyTurn
<1>3. Spoken(t.reply) /\ (t.mode \in Compacting => \A call : ~CallIn(t.reply, call))
  BY <1>1 DEF TurnAnswers, CallIn
<1>4. Complete(t) =>
         /\ Rounds(history)
         /\ t.mode \notin Compacting \cup {"warmup"} =>
               \A call : CallIn(t.reply, call) => Held(history, call)
  <2> SUFFICES ASSUME Complete(t)
               PROVE  /\ Rounds(history)
                      /\ t.mode \notin Compacting \cup {"warmup"} =>
                            \A call : CallIn(t.reply, call) => Held(history, call)
    OBVIOUS
  <2>1. t.mode \notin Compacting => Rounds(t.sent)
    BY <1>1 DEF TurnAnswers, Complete
  <2> QED BY <1>1, <1>3, <2>1, HistoryHolds
<1> HIDE DEF history, out
<1>5. learns =>
         /\ n = count /\ client'.last = n /\ ClientAnswers(client')
         /\ \A call \in Called(client') : CallIn(t.reply, call)
  <2> SUFFICES ASSUME learns
               PROVE  /\ n = count /\ client'.last = n /\ ClientAnswers(client')
                      /\ \A call \in Called(client') : CallIn(t.reply, call)
    OBVIOUS
  <2>1. Pending(t) /\ Learn(n, out)
    BY <1>1, <1>2 DEF Pending
  <2>2. out \in Seq(AnInput) /\ Replied(out) /\ \A call : CallIn(out, call) => CallIn(t.reply, call)
    BY <1>1, <1>3, OutputItemsType, OutputIsReplied, OutputHasCalls DEF out
  <2>3. /\ n = count /\ client'.last = n /\ ClientAnswers(client')
        /\ \A call \in Called(client') : CallIn(out, call)
    BY <1>1, <2>1, <2>2, LearnAnswers
  <2> QED BY <2>2, <2>3
<1>6. ~learns => client' = client
  BY <1>2
<1> HIDE DEF learns
<1>7. client'.last = n =>
         /\ \A call \in Called(client') : CallIn(t.reply, call)
         /\ t.mode \in Compacting \cup {"warmup"} => Called(client') = {}
  <2>1. CASE learns
    <3>1. t.mode # "warmup"
      BY <2>1 DEF learns
    <3> QED BY <1>3, <1>5, <2>1, <3>1
  <2>2. CASE ~learns
    <3> SUFFICES ASSUME client.last = n
                 PROVE  /\ \A call \in Called(client) : CallIn(t.reply, call)
                        /\ t.mode \in Compacting \cup {"warmup"} => Called(client) = {}
      BY <1>6, <2>2
    <3>1. LeavesCalls(t, store[n], client)
      BY DEF RoundsInv, Turns
    <3> QED BY <1>1, <3>1 DEF LeavesCalls
  <2> QED BY <2>1, <2>2
<1>8. over.pc = "over" /\ over.mode = t.mode /\ over.whole = t.whole
      /\ TurnAnswers(over, history, client')
  BY <1>1, <1>4, EndedTurn, EndedAnswers
<1> HIDE DEF over
<1>9. client'.last = n => LeavesCalls(over, history, client')
  <2>1. Complete(over) <=> Complete(t)
    BY <1>8 DEF Complete
  <2> QED BY <1>4, <1>7, <1>8, <2>1 DEF LeavesCalls
<1>10. ClientAnswers(client')
  BY <1>5, <1>6 DEF RoundsInv
<1> QED BY <1>2, <1>5, <1>6, <1>8, <1>9, <1>10, RoundsSteps

LEMMA ReplyAnswers ==
    ASSUME CallsTogether, Inv, RoundsInv, NEW n \in Turns, Reply(n)
    PROVE  RoundsInv'
<1> DEFINE t == turns[n]
<1>1. t.pc = "upstream" /\ t \in ATurn /\ TurnAnswers(t, store[n], client)
  BY AtAStep DEF Reply, RoundsInv
<1>2. PICK kinds \in Replies :
         LET reply == ReplyOf(n, kinds)
             out == OutputItems(t.mode, reply)
         IN  /\ turns' = [turns EXCEPT ![n] =
                   IF ~Puts(t) THEN Ended(t, "over")
                   ELSE [t EXCEPT !.reply = reply,
                                  !.pc = IF t.mode \in {"background"} \cup Compacting
                                         THEN "put" ELSE "put_tools"]]
             /\ CASE t.mode = "background" ->
                       client' = [client EXCEPT !.known = IF count = n THEN @ \o out ELSE @]
                  [] t.mode = "sse" \/ t.mode \in Socket \/ ~Puts(t) -> Learn(n, out)
                  [] OTHER -> UNCHANGED client
  BY Zenon DEF Reply
<1> DEFINE reply == ReplyOf(n, kinds)
           out == OutputItems(t.mode, reply)
           over == Ended(t, "over")
           pc == IF t.mode \in Toolless THEN "put" ELSE "put_tools"
           put == [t EXCEPT !.reply = reply, !.pc = pc]
           known == IF count = n THEN client.known \o out ELSE client.known
<1>3. /\ reply \in Seq(AnInput) /\ out \in Seq(AnInput) /\ Spoken(reply) /\ Replied(out)
      /\ \A call : CallIn(out, call) => CallIn(reply, call)
  BY ReplyOfType, OutputItemsType, ReplyIsSpoken, OutputIsReplied, OutputHasCalls
<1>4. t.mode \in Compacting =>
         (\A i \in 1..Len(reply) : reply[i].kind # "call") /\ \A call : ~CallIn(reply, call)
  <2> SUFFICES ASSUME t.mode \in Compacting
               PROVE  (\A i \in 1..Len(reply) : reply[i].kind # "call")
                      /\ \A call : ~CallIn(reply, call)
    OBVIOUS
  <2>1. \A i \in 1..Len(reply) : reply[i].kind # "call"
    <3>1. reply = <<Item("summary", n)>>
      BY DEF ReplyOf
    <3>2. Len(reply) = 1 /\ reply[1].kind = "summary"
      BY <3>1 DEF Item
    <3> HIDE DEF reply
    <3> QED BY <3>2
  <2> QED BY <1>3, <2>1 DEF CallIn
<1>5. turns'[n] = (IF ~Puts(t) THEN over ELSE put) /\ store' = store /\ OnlyTurn(n)
  <2>1. turns' = [turns EXCEPT ![n] = IF ~Puts(t) THEN over ELSE put]
    BY <1>2, Zenon DEF Toolless
  <2>2. count' = count /\ store' = store /\ registry' = registry /\ budget' = budget
    BY DEF Reply
  <2> HIDE DEF over, put
  <2> QED BY <2>1, <2>2, OnlyTurnN
<1>6. t.mode = "background" => Puts(t)
  BY <1>1, InvParts DEF TurnHasTools, Puts
<1>7. \/ t.mode = "background" /\ client' = [client EXCEPT !.known = known]
      \/ t.mode # "background" /\ Learn(n, out) /\ (Puts(t) => t.mode \notin {"whole", "compaction"})
      \/ t.mode # "background" /\ Puts(t) /\ client' = client
  <2>1. CASE t.mode = "background"
    <3>1. ~ (t.mode = "sse" \/ t.mode \in Socket \/ ~Puts(t))
      BY <1>6, <2>1 DEF Socket
    <3> QED BY <1>2, <2>1, <3>1, Zenon
  <2>2. CASE t.mode # "background"
    <3>1. IF t.mode = "sse" \/ t.mode \in Socket \/ ~Puts(t) THEN Learn(n, out)
          ELSE client' = client
      BY <1>2, <2>2, Zenon
    <3> QED BY <2>2, <3>1 DEF Socket
  <2> QED BY <2>1, <2>2
<1> HIDE DEF reply, out, known
<1>8. client.last = n => Called(client) = {}
  <2> SUFFICES ASSUME client.last = n PROVE Called(client) = {}
    OBVIOUS
  <2>1. LeavesCalls(t, store[n], client)
    BY DEF RoundsInv, Turns
  <2> QED BY <1>1, <2>1 DEF LeavesCalls
<1>9. /\ ClientAnswers(client')
      /\ n = count \/ (client'.known = client.known /\ client'.calls = client.calls
                       /\ client'.last = client.last)
      /\ client'.last = n \/ (client'.calls = client.calls /\ client'.last = client.last)
      /\ client'.last = n => \A call \in Called(client') : CallIn(reply, call)
  <2>1. CASE t.mode = "background" /\ client' = [client EXCEPT !.known = known]
    <3>1. client \in AClient /\ client.known \in Seq(AnInput) /\ ClientAnswers(client)
      BY InvParts, ClientFields DEF RoundsInv
    <3>2. client'.known = known /\ client'.calls = client.calls /\ client'.last = client.last
      BY <2>1, <3>1 DEF AClient
    <3>3. Called(client') = Called(client)
      BY <3>2 DEF Called
    <3>4. CASE count = n
      <4>1. known = client.known \o out
        BY <3>4 DEF known
      <4>2. ClientAnswers(client')
        BY <1>3, <3>1, <3>2, <3>3, <4>1, RepliesAnswer DEF ClientAnswers
      <4> QED BY <1>8, <3>2, <3>3, <3>4, <4>2
    <3>5. CASE count # n
      <4>1. client'.known = client.known
        BY <3>2, <3>5 DEF known
      <4>2. ClientAnswers(client')
        BY <3>1, <3>3, <4>1 DEF ClientAnswers
      <4> QED BY <1>8, <3>2, <3>3, <4>1, <4>2
    <3> QED BY <3>4, <3>5
  <2>2. CASE t.mode # "background" /\ Learn(n, out)
    <3>1. Pending(t)
      BY <1>1, <2>2 DEF Pending
    <3>2. /\ n = count /\ client'.last = n /\ ClientAnswers(client')
          /\ \A call \in Called(client') : CallIn(out, call)
      BY <1>1, <1>3, <2>2, <3>1, LearnAnswers
    <3> QED BY <1>3, <3>2
  <2>3. CASE client' = client
    BY <1>8, <2>3 DEF RoundsInv
  <2> QED BY <1>7, <2>1, <2>2, <2>3
<1>10. CASE ~Puts(t)
  <2>1. t.mode # "background" /\ store[n] = Missing
    BY <1>1, <1>6, <1>10, InvParts DEF TurnHasTools
  <2>2. turns'[n] = over /\ over.pc = "over" /\ over.mode = t.mode
    BY <1>1, <1>5, <1>10, EndedTurn
  <2>3. TurnAnswers(over, store[n], client')
    BY <1>1, <2>1, EndedAnswers
  <2> HIDE DEF over
  <2>4. client'.last = n => LeavesCalls(over, store[n], client')
    <3> SUFFICES ASSUME client'.last = n PROVE LeavesCalls(over, store[n], client')
      OBVIOUS
    <3>1. t.mode \in Compacting => Called(client') = {}
      BY <1>4, <1>9
    <3>2. t.mode # "warmup"
      BY <1>1 DEF TurnAnswers
    <3> QED BY <2>1, <2>2, <3>1, <3>2 DEF LeavesCalls
  <2> QED BY <1>5, <1>9, <2>2, <2>3, <2>4, RoundsSteps
<1>11. CASE Puts(t)
  <2>1. turns'[n] = put
    BY <1>5, <1>11
  <2>2. /\ put.pc = pc /\ put.mode = t.mode /\ put.reply = reply /\ put.new = t.new
        /\ put.sent = t.sent /\ put.whole = t.whole
    <3> HIDE DEF pc
    <3> QED BY <1>1 DEF ATurn
  <2> HIDE DEF put
  <2>3. Pending(put) /\ t.mode # "background" => client' = client /\ Pending(t)
    <3> SUFFICES ASSUME Pending(put), t.mode # "background" PROVE client' = client /\ Pending(t)
      OBVIOUS
    <3>1. t.mode \in {"whole", "compaction"}
      BY <2>2 DEF Pending
    <3> QED BY <1>1, <1>7, <1>11, <3>1 DEF Pending
  <2>4. t.mode = "background" => ~Pending(put)
    BY <2>2 DEF Pending
  <2>5. Pending(put) => Answers(client'.known \o put.new, {})
    BY <1>1, <2>2, <2>3, <2>4 DEF TurnAnswers
  <2>6. pc \in {"put", "put_tools"} /\ t.mode # "warmup"
    BY <1>1 DEF TurnAnswers
  <2> HIDE DEF pc
  <2>7. TurnAnswers(put, store[n], client')
    BY <1>1, <1>3, <1>4, <2>2, <2>5, <2>6 DEF TurnAnswers
  <2>8. client'.last = n => LeavesCalls(put, store[n], client')
    <3> SUFFICES ASSUME client'.last = n PROVE LeavesCalls(put, store[n], client')
      OBVIOUS
    <3>1. t.mode \in Compacting => Called(client') = {}
      BY <1>4, <1>9
    <3> QED BY <1>9, <2>2, <2>6, <3>1 DEF LeavesCalls
  <2> QED BY <1>5, <1>9, <2>1, <2>7, <2>8, RoundsSteps
<1> QED BY <1>10, <1>11

LEMMA ConvertAnswers ==
    ASSUME Inv, RoundsInv, NEW n \in Turns, Convert(n)
    PROVE  RoundsInv'
<1> DEFINE t == turns[n]
           pc == CASE t.mode = "background" -> "first_put"
                   [] t.mode = "warmup"     -> "put_tools"
                   [] OTHER                 -> "upstream"
           sent == enforce_budgets(Converted(n), budget)
           tools == Offered(t)
           whole == t.prev # 0 => Settled(t.prev) /\ Complete(turns[t.prev])
           new == [t EXCEPT !.pc = pc, !.sent = sent, !.tools = tools, !.whole = whole]
<1>1. t.pc = "convert" /\ t \in ATurn /\ TurnAnswers(t, store[n], client) /\ Pending(t)
  BY AtAStep DEF Convert, RoundsInv, Pending
<1>2. pc = IF t.mode = "background" THEN "first_put"
           ELSE IF t.mode = "warmup" THEN "put_tools" ELSE "upstream"
  OBVIOUS
<1>3. whole => Rounds(sent)
  BY <1>1, ConvertedHolds
<1> HIDE DEF pc, sent, whole, tools
<1>4. /\ turns'[n] = new /\ store' = store /\ OnlyTurn(n)
      /\ IF t.mode = "warmup" THEN Learn(n, <<>>) ELSE client' = client
  <2>1. /\ turns' = [turns EXCEPT ![n] = new]
        /\ count' = count /\ store' = store /\ registry' = registry /\ budget' = budget
        /\ IF t.mode = "warmup" THEN Learn(n, <<>>) ELSE client' = client
    BY Zenon DEF Convert, pc, sent, whole, tools
  <2> HIDE DEF new
  <2> QED BY <2>1, OnlyTurnN
<1>5. /\ new.pc = pc /\ new.mode = t.mode /\ new.reply = t.reply /\ new.new = t.new
      /\ new.sent = sent /\ new.whole = whole
  BY <1>1 DEF ATurn
<1> HIDE DEF new
<1>6. CASE t.mode = "warmup"
  <2>1. /\ n = count /\ client'.last = n /\ ClientAnswers(client')
        /\ \A call \in Called(client') : CallIn(<<>>, call)
    BY <1>1, <1>4, <1>6, NothingIsSpoken, LearnAnswers
  <2>2. Called(client') = {}
    BY <2>1, NothingIsSpoken
  <2>3. ~Pending(new)
    BY <1>2, <1>5, <1>6 DEF Pending
  <2>4. TurnAnswers(new, store[n], client')
    BY <1>1, <1>2, <1>3, <1>5, <1>6, <2>3 DEF TurnAnswers
  <2>5. LeavesCalls(new, store[n], client')
    BY <1>2, <1>5, <1>6, <2>2 DEF LeavesCalls
  <2> QED BY <1>4, <2>1, <2>4, <2>5, RoundsSteps
<1>7. CASE t.mode # "warmup"
  <2>1. client' = client /\ client.last # n
    BY <1>1, <1>4, <1>7, PendingIsLast
  <2>2. TurnAnswers(new, store[n], client)
    BY <1>1, <1>2, <1>3, <1>5, <1>7 DEF TurnAnswers
  <2> QED BY <1>4, <2>1, <2>2, RoundsSteps DEF RoundsInv
<1> QED BY <1>6, <1>7

LEMMA BeginAnswers ==
    ASSUME Inv, RoundsInv, NEW mode \in Mode, Begin(mode)
    PROVE  RoundsInv'
<1> DEFINE n == count + 1
           inline == IF Continues(mode) THEN <<>> ELSE client.known
           prev == IF Continues(mode) THEN client.last ELSE 0
<1>1. /\ n \in Turns /\ client.waiting = 0 /\ client' = [client EXCEPT !.waiting = n]
      /\ store' = store
  BY DEF Begin
<1>2. PICK new \in News(n, mode), instructs \in BOOLEAN, declares \in BOOLEAN :
         turns' = [turns EXCEPT ![n] =
            [NoTurn EXCEPT
                !.pc = "convert", !.mode = mode, !.new = new, !.prev = prev,
                !.given = IF instructs THEN <<Item("instructions", n)>> ELSE <<>>,
                !.input = inline \o new,
                !.tools = IF declares THEN n
                          ELSE IF Continues(mode) THEN 0 ELSE client.tools,
                !.said = client.known \o new,
                !.expected = IF declares THEN n ELSE client.tools]]
  BY ZenonT(60) DEF Begin
<1> DEFINE given == IF instructs THEN <<Item("instructions", n)>> ELSE <<>>
           tools == IF declares THEN n ELSE IF Continues(mode) THEN 0 ELSE client.tools
           expected == IF declares THEN n ELSE client.tools
           input == inline \o new
           said == client.known \o new
           t == [NoTurn EXCEPT !.pc = "convert", !.mode = mode, !.new = new, !.prev = prev,
                               !.given = given, !.input = input, !.tools = tools,
                               !.said = said, !.expected = expected]
<1>3. turns' = [turns EXCEPT ![n] = t]
  BY <1>2, Zenon
<1>4. /\ n \in Nat /\ n # 0 /\ client \in AClient /\ client.known \in Seq(AnInput)
      /\ client.last \in 0..count /\ count \in Nat /\ DOMAIN turns = Turns
      /\ new \in Seq(AnInput)
  BY <1>1, InvParts, ClientFields, NewsAreItems
<1>5. /\ Answers(client.known \o new, {}) /\ Answers(new, Called(client))
      /\ mode \in Compacting => new = <<>>
  BY <1>4, NewsAnswer, NewsHeads
<1>6. IF prev = 0 THEN Answers(input, {})
      ELSE input = new /\ prev = client.last /\ Answers(new, Called(client))
  <2>1. CASE Continues(mode)
    <3>1. prev = client.last /\ prev # 0 /\ input = <<>> \o new
      BY <2>1 DEF Continues
    <3>2. <<>> \o new = new
      BY <1>4
    <3> QED BY <1>5, <3>1, <3>2
  <2>2. CASE ~Continues(mode)
    BY <1>5, <2>2
  <2> QED BY <2>1, <2>2
<1> HIDE DEF given, tools, expected, input, said, prev
<1>7. /\ t.pc = "convert" /\ t.mode = mode /\ t.new = new /\ t.prev = prev /\ t.input = input
      /\ t.reply = <<>>
  BY DEF NoTurn
<1> HIDE DEF t
<1>8. client'.known = client.known /\ client'.calls = client.calls /\ client'.last = client.last
  BY <1>1, <1>4 DEF AClient
<1>9. Called(client') = Called(client)
  BY <1>8 DEF Called
<1>10. turns'[n] = t /\ \A m \in Turns : m # n => turns'[m] = turns[m]
  BY <1>1, <1>3, <1>4
<1>11. TurnAnswers(t, store[n], client')
  <2>1. Spoken(t.reply) /\ \A i \in 1..Len(t.reply) : FALSE
    BY <1>7, NothingIsSpoken
  <2> QED BY <1>5, <1>6, <1>7, <1>8, <1>9, <2>1 DEF TurnAnswers
<1>12. \A m \in Turns : TurnAnswers(turns'[m], store'[m], client')
  <2> TAKE m \in Turns
  <2>1. CASE m = n
    BY <1>1, <1>10, <1>11, <2>1
  <2>2. CASE m # n
    <3>1. TurnAnswers(turns[m], store[m], client)
      BY DEF RoundsInv
    <3>2. TurnAnswers(turns[m], store[m], client')
      BY <1>8, <1>9, <3>1 DEF TurnAnswers
    <3> QED BY <1>1, <1>10, <2>2, <3>2
  <2> QED BY <2>1, <2>2
<1>13. ClientAnswers(client')
  BY <1>8, <1>9 DEF RoundsInv, ClientAnswers
<1>14. ASSUME client'.last # 0
       PROVE  LeavesCalls(turns'[client'.last], store'[client'.last], client')
  <2>1. client.last \in Turns /\ client.last # n
    BY <1>1, <1>4, <1>8, <1>14 DEF Turns
  <2>2. LeavesCalls(turns[client.last], store[client.last], client)
    BY <1>8, <1>14 DEF RoundsInv
  <2>3. LeavesCalls(turns[client.last], store[client.last], client')
    BY <1>9, <2>2 DEF LeavesCalls
  <2> QED BY <1>1, <1>8, <1>10, <2>1, <2>3
<1> QED BY <1>12, <1>13, <1>14 DEF RoundsInv

LEMMA InitAnswers ==
    ASSUME Init
    PROVE  RoundsInv
<1>1. /\ \A n \in Turns : turns[n] = NoTurn /\ store[n] = Missing
      /\ client.known = <<>> /\ client.calls = <<>> /\ client.last = 0
  BY DEF Init
<1>2. NoTurn.pc = "none" /\ NoTurn.reply = <<>>
  BY DEF NoTurn
<1>3. Spoken(NoTurn.reply) /\ \A i \in 1..Len(NoTurn.reply) : FALSE
  BY <1>2, NothingIsSpoken
<1>4. TurnAnswers(NoTurn, Missing, client)
  BY <1>2, <1>3 DEF TurnAnswers, Pending
<1>5. ClientAnswers(client)
  BY <1>1 DEF ClientAnswers, Answers, Called
<1> QED BY <1>1, <1>4, <1>5 DEF RoundsInv

LEMMA RoundsKept ==
    ASSUME CallsTogether, Inv, RoundsInv, [Next]_vars
    PROVE  RoundsInv'
<1>1. CASE UNCHANGED vars
  <2>1. turns' = turns /\ store' = store /\ client' = client
    BY <1>1 DEF vars
  <2>2. \A n \in Turns : TurnAnswers(turns'[n], store'[n], client')
    BY <2>1 DEF RoundsInv
  <2>3. ClientAnswers(client')
    BY <2>1 DEF RoundsInv
  <2>4. client'.last # 0 => LeavesCalls(turns'[client'.last], store'[client'.last], client')
    BY <2>1 DEF RoundsInv
  <2> QED BY <2>2, <2>3, <2>4 DEF RoundsInv
<1>2. CASE Next
  BY <1>2, BeginAnswers, ConvertAnswers, FirstPutAnswers, ReplyAnswers, FailAnswers,
     PutToolsAnswers, PutAnswers DEF Next
<1> QED BY <1>1, <1>2

LEMMA RoundsHold == CallsTogether => (Spec => []RoundsInv)
<1> SUFFICES ASSUME CallsTogether PROVE Spec => []RoundsInv
  OBVIOUS
<1>1. Inv /\ RoundsInv /\ [Next]_vars => RoundsInv'
  BY RoundsKept
<1> QED BY <1>1, InitAnswers, InvHolds, PTL DEF Spec

\* No answer of a tool reaches the upstream without its call, over any chain of
\* modes and any limit (append_items, enforce_message_budget, what each mode puts).
THEOREM AnswersFollowCalls == CallsTogether => (Spec => []CallsPrecedeOutputs)
<1> SUFFICES ASSUME CallsTogether PROVE Spec => []CallsPrecedeOutputs
  OBVIOUS
<1>1. ASSUME Inv, RoundsInv PROVE CallsPrecedeOutputs
  <2> SUFFICES ASSUME NEW n \in Asking, NEW i \in DOMAIN turns[n].sent,
                      turns[n].sent[i].role = "tool"
               PROVE  \E j \in 1..(i - 1) : \E k \in DOMAIN turns[n].sent[j].body :
                         /\ turns[n].sent[j].body[k].kind = "call"
                         /\ turns[n].sent[j].body[k].call = turns[n].sent[i].body[1].call
    BY DEF CallsPrecedeOutputs
  <2> DEFINE t == turns[n]
  <2>1. n \in Turns /\ t.pc = "upstream" /\ t.whole
    BY DEF Asking, Asks
  <2>2. Rounds(t.sent)
    BY <1>1, <2>1 DEF RoundsInv, TurnAnswers
  <2>3. i \in 1..Len(t.sent)
    BY <1>1, <2>1, InvParts DEF TurnIsTyped, Headed
  <2> QED BY <2>2, <2>3 DEF Rounds, CalledBefore, Speaks
<1> QED BY <1>1, InvHolds, RoundsHold, PTL

-----------------------------------------------------------------------------
(* Words: what is said to somebody, which is sent again                    *)

WordKind == {"user", "text", "call", "output"}

Words(items) == {x \in ToSet(items) : x.kind \in WordKind}

Says(ms, x) == \E i \in 1..Len(ms) : x \in ToSet(ms[i].body)

\* A system message says none, so that other instructions may replace it.
Silent(message) == message.role = "system" => \A x \in ToSet(message.body) : x.kind \notin WordKind

Quiet(ms) == \A i \in 1..Len(ms) : Silent(ms[i])

LEMMA SaysConcat ==
    ASSUME NEW a \in Seq(AMessage), NEW b \in Seq(AMessage)
    PROVE  /\ \A x : Says(a \o b, x) <=> Says(a, x) \/ Says(b, x)
           /\ Quiet(a) /\ Quiet(b) => Quiet(a \o b)
<1> DEFINE ab == a \o b
<1>1. /\ Len(a) \in Nat /\ Len(b) \in Nat /\ Len(ab) = Len(a) + Len(b)
      /\ \A i \in 1..Len(a) : ab[i] = a[i]
      /\ \A i \in 1..Len(b) : ab[Len(a) + i] = b[i]
  OBVIOUS
<1> HIDE DEF ab
<1>2. \A i \in 1..Len(ab) : i \in 1..Len(a) \/ \E k \in 1..Len(b) : i = Len(a) + k
  <2> TAKE i \in 1..Len(ab)
  <2>1. CASE i > Len(a)
    <3>1. i - Len(a) \in 1..Len(b) /\ i = Len(a) + (i - Len(a))
      BY <1>1, <2>1
    <3> QED BY <3>1
  <2>2. CASE i <= Len(a)
    BY <1>1, <2>2
  <2> QED BY <1>1, <2>1, <2>2
<1>3. /\ \A i \in 1..Len(a) : i \in 1..Len(ab)
      /\ \A k \in 1..Len(b) : Len(a) + k \in 1..Len(ab)
  BY <1>1
<1>4. ASSUME NEW x PROVE Says(ab, x) <=> Says(a, x) \/ Says(b, x)
  <2>1. Says(ab, x) => Says(a, x) \/ Says(b, x)
    BY <1>1, <1>2 DEF Says
  <2>2. Says(a, x) \/ Says(b, x) => Says(ab, x)
    BY <1>1, <1>3 DEF Says
  <2> QED BY <2>1, <2>2
<1>5. Quiet(a) /\ Quiet(b) => Quiet(ab)
  BY <1>1, <1>2 DEF Quiet
<1> QED BY <1>4, <1>5 DEF ab

LEMMA SaysAppend ==
    ASSUME NEW ms \in Seq(AMessage), NEW m \in AMessage
    PROVE  /\ \A x : Says(Append(ms, m), x) <=> Says(ms, x) \/ x \in ToSet(m.body)
           /\ Quiet(ms) /\ Silent(m) => Quiet(Append(ms, m))
<1> DEFINE one == <<m>>
<1>1. one \in Seq(AMessage) /\ Append(ms, m) = ms \o one /\ Len(one) = 1 /\ one[1] = m
  OBVIOUS
<1> HIDE DEF one
<1>2. \A i \in 1..Len(one) : i = 1
  BY <1>1
<1>3. 1 \in 1..Len(one)
  BY <1>1
<1>4. \A x : Says(one, x) <=> x \in ToSet(m.body)
  BY <1>1, <1>2, <1>3 DEF Says
<1>5. Silent(m) => Quiet(one)
  BY <1>1, <1>2 DEF Quiet
<1> QED BY <1>1, <1>4, <1>5, SaysConcat

\* What is said is in the messages one after the other.
LEMMA SaysFlatten ==
    ASSUME NEW ms \in Seq(AMessage), NEW x, Says(ms, x)
    PROVE  Contains(Flatten(ms), x)
<1> DEFINE ss == [i \in DOMAIN ms |-> ms[i].body]
           all == FlattenSeq(ss)
<1>1. ss \in Seq(Seq(AnItem)) /\ Len(ss) = Len(ms) /\ \A i \in 1..Len(ms) : ss[i] = ms[i].body
  <2>1. \A i \in 1..Len(ms) : ms[i].body \in Seq(AnItem)
    <3>1. \A m \in AMessage : m.body \in Seq(AnItem)
      BY DEF AMessage
    <3> QED BY <3>1
  <2>2. ss \in [1..Len(ms) -> Seq(AnItem)]
    BY <2>1
  <2> QED BY <2>2
<1> HIDE DEF ss
<1>2. x \in ToSet(all)
  BY <1>1, FlattenRange DEF Says
<1> HIDE DEF all
<1>3. Contains(all, x)
  BY <1>2 DEF ToSet, Contains
<1> QED BY <1>3 DEF Flatten, all, ss

LEMMA SameSays ==
    ASSUME NEW ms, NEW new, SameBut(new, ms)
    PROVE  (\A x : Says(new, x) <=> Says(ms, x)) /\ (Quiet(ms) => Quiet(new))
BY DEF SameBut, Says, Quiet, Silent

-----------------------------------------------------------------------------
(* A walk loses no word                                                    *)

\* It is said, or kept to be said.
Heard(w, x) == Says(w.messages, x) \/ x \in ToSet(w.calls) \/ Says(w.deferred, x)

\* Of a walk that has heard all of these.
WalkSays(w, heard) ==
    /\ Quiet(w.messages)
    /\ \A i \in 1..Len(w.deferred) : w.deferred[i].role = "tool"
    /\ \A x \in heard : Heard(w, x)

LEMMA NothingIsSaid ==
    Quiet(<<>>) /\ (\A x : ~Says(<<>>, x) /\ x \notin ToSet(<<>>))
BY DEF Quiet, Says, ToSet

LEMMA FlushSays ==
    ASSUME NEW h, NEW w \in Walks(h), NEW heard, WalkSays(w, heard)
    PROVE  LET f == flush(w) IN
           /\ Quiet(f.messages) /\ f.calls = <<>> /\ f.deferred = w.deferred
           /\ \A x : Heard(w, x) => Says(f.messages, x) \/ Says(f.deferred, x)
<1> DEFINE a == w.reasoning
           b == w.calls
           body == a \o b
           m == Message("assistant", body)
           ms == Append(w.messages, m)
           f == flush(w)
<1>1. /\ w.messages \in Seq(AMessage) /\ w.calls \in Seq(APlain) /\ w.reasoning \in Seq(APlain)
      /\ w \in AWalk
  BY WalkFields
<1>2. CASE w.calls = <<>>
  <2>1. f = w
    BY <1>2 DEF flush
  <2> QED BY <1>2, <2>1, NothingIsSaid DEF Heard, WalkSays
<1>3. CASE w.calls # <<>>
  <2>1. f = [w EXCEPT !.messages = ms, !.calls = <<>>, !.reasoning = <<>>]
    BY <1>3 DEF flush
  <2> HIDE DEF ms
  <2>2. f.messages = ms /\ f.calls = <<>> /\ f.deferred = w.deferred
    BY <1>1, <2>1 DEF AWalk
  <2>3. body \in Seq(APlain) /\ \A x \in ToSet(b) : x \in ToSet(body)
    <3>1. a \in Seq(APlain) /\ b \in Seq(APlain)
      BY <1>1
    <3> HIDE DEF a, b
    <3> QED BY <3>1, RangeOfConcat
  <2>4. m \in AMessage /\ m.role = "assistant" /\ m.body = body
    <3>1. "assistant" \in Role
      BY DEF Role
    <3> HIDE DEF body
    <3> QED BY <2>3, <3>1, MessageIsPlain, PlainIsMessage DEF Message
  <2> HIDE DEF m
  <2>5. /\ Quiet(ms)
        /\ \A x : Says(ms, x) <=> Says(w.messages, x) \/ x \in ToSet(m.body)
    BY <1>1, <2>4, SaysAppend DEF WalkSays, Silent, ms
  <2> HIDE DEF f, body
  <2> QED BY <2>2, <2>3, <2>4, <2>5 DEF f, Heard
<1> QED BY <1>2, <1>3

LEMMA SettleSays ==
    ASSUME NEW h, NEW w \in Walks(h), NEW heard, WalkSays(w, heard)
    PROVE  LET s == settle(w) IN
           /\ s \in Walks(h)
           /\ Quiet(s.messages) /\ s.calls = <<>> /\ s.deferred = <<>>
           /\ \A x \in heard : Says(s.messages, x)
<1> DEFINE f == flush(w)
           s == settle(w)
           ms == f.messages \o f.deferred
<1>1. /\ Quiet(f.messages) /\ f.calls = <<>> /\ f.deferred = w.deferred
      /\ \A x : Heard(w, x) => Says(f.messages, x) \/ Says(f.deferred, x)
  BY FlushSays
<1>2. f \in Walks(h) /\ s \in Walks(h)
  BY FlushWalks, SettleWalks
<1>3. s = [f EXCEPT !.messages = ms, !.deferred = <<>>]
  BY DEF settle
<1> HIDE DEF f, ms, s
<1>4. s.messages = ms /\ s.deferred = <<>> /\ s.calls = <<>>
  BY <1>1, <1>2, <1>3 DEF Walks, AWalk
<1>5. f.messages \in Seq(AMessage) /\ f.deferred \in Seq(AMessage)
  BY <1>2, WalkFields, PlainIsMessage
<1>6. Quiet(f.deferred)
  BY <1>1 DEF Quiet, Silent, WalkSays
<1>7. Quiet(ms) /\ \A x : Says(ms, x) <=> Says(f.messages, x) \/ Says(f.deferred, x)
  BY <1>1, <1>5, <1>6, SaysConcat DEF ms
<1> QED BY <1>1, <1>2, <1>4, <1>7 DEF s, WalkSays

LEMMA WalkStepSays ==
    ASSUME NEW h, NEW w \in Walks(h), NEW heard, WalkSays(w, heard),
           NEW item \in AnInput, NEW old \in BOOLEAN
    PROVE  LET v == walk(w, item, old) IN
           WalkSays(v, heard) /\ (item.kind \in WordKind => Heard(v, item))
<1> DEFINE s == settle(w)
           v == walk(w, item, old)
<1>1. /\ s \in Walks(h) /\ Quiet(s.messages) /\ s.calls = <<>> /\ s.deferred = <<>>
      /\ \A x \in heard : Says(s.messages, x)
  BY SettleSays
<1>2. item \in APlain
  BY InputIsPlain
<1>3. /\ s \in AWalk /\ s.messages \in Seq(AMessage) /\ s.reasoning \in Seq(APlain)
      /\ w \in AWalk /\ w.calls \in Seq(APlain) /\ w.deferred \in Seq(PlainMessage)
      /\ w.deferred \in Seq(AMessage)
  BY <1>1, WalkFields, PlainIsMessage
<1>4. item.kind \in {"user", "reasoning", "text", "call", "output", "summary"}
  BY DEF AnInput, InputKind, Kind
<1>5. CASE item.kind = "call"
  <2> DEFINE more == Append(w.calls, item)
  <2>1. v = [w EXCEPT !.calls = more]
    BY <1>5 DEF walk
  <2>2. \A x : x \in ToSet(more) <=> x \in ToSet(w.calls) \/ x = item
    BY <1>2, <1>3, RangeOfAppend
  <2> HIDE DEF more, v
  <2>3. v.messages = w.messages /\ v.calls = more /\ v.deferred = w.deferred
    BY <1>3, <2>1 DEF AWalk
  <2>4. Heard(v, item) /\ \A x : Heard(w, x) => Heard(v, x)
    BY <2>2, <2>3 DEF Heard
  <2>5. WalkSays(v, heard)
    BY <2>3, <2>4 DEF WalkSays
  <2> QED BY <2>4, <2>5 DEF v
<1>6. CASE item.kind = "output"
  <2> DEFINE m == Tool(item, old)
             more == Append(w.deferred, m)
  <2>1. v = [w EXCEPT !.deferred = more]
    BY <1>6 DEF walk
  <2>2. m.role = "tool" /\ m.body = <<item>> /\ m \in PlainMessage /\ m \in AMessage
    BY <1>2, ToolIsPlain, PlainIsMessage DEF Tool, Message
  <2> HIDE DEF m
  <2>3. item \in ToSet(m.body)
    BY <2>2 DEF ToSet
  <2>4. Len(more) = Len(w.deferred) + 1 /\ more[Len(more)] = m
        /\ \A i \in 1..Len(w.deferred) : more[i] = w.deferred[i]
    BY <1>3, <2>2
  <2>5. \A x : Says(more, x) <=> Says(w.deferred, x) \/ x \in ToSet(m.body)
    BY <1>3, <2>2, SaysAppend
  <2> HIDE DEF more, v
  <2>6. v.messages = w.messages /\ v.calls = w.calls /\ v.deferred = more
    BY <1>3, <2>1 DEF AWalk
  <2>7. Heard(v, item) /\ \A x : Heard(w, x) => Heard(v, x)
    BY <2>3, <2>5, <2>6 DEF Heard
  <2>8. \A i \in 1..Len(more) : more[i].role = "tool"
    <3>1. \A i \in 1..Len(more) : i \in 1..Len(w.deferred) \/ i = Len(more)
      BY <1>3, <2>4
    <3> QED BY <2>2, <2>4, <3>1 DEF WalkSays
  <2>9. WalkSays(v, heard)
    BY <2>6, <2>7, <2>8 DEF WalkSays
  <2> QED BY <2>7, <2>9 DEF v
<1> HIDE DEF s
\* A walk that has put down all it had, and a message after that.
<1>7. ASSUME NEW u, NEW m \in AMessage, Silent(m), u.calls = <<>>, u.deferred = <<>>,
             u.messages = Append(s.messages, m)
      PROVE  WalkSays(u, heard) /\ \A x \in ToSet(m.body) : Heard(u, x)
  <2>1. Quiet(u.messages) /\ \A x : Says(u.messages, x) <=> Says(s.messages, x) \/ x \in ToSet(m.body)
    BY <1>1, <1>3, <1>7, SaysAppend
  <2>2. Len(u.deferred) = 0
    BY <1>7
  <2>3. \A i \in 1..Len(u.deferred) : FALSE
    BY <2>2
  <2> QED BY <1>1, <2>1, <2>3 DEF WalkSays, Heard
<1>8. ASSUME NEW u, u.calls = <<>>, u.deferred = <<>>, u.messages = s.messages
      PROVE  WalkSays(u, heard)
  <2>2. Len(u.deferred) = 0
    BY <1>8
  <2>3. \A i \in 1..Len(u.deferred) : FALSE
    BY <2>2
  <2> QED BY <1>1, <1>8, <2>3 DEF WalkSays, Heard
<1>9. CASE item.kind = "reasoning"
  <2> DEFINE reasoning == IF Contains(s.reasoning, item) THEN s.reasoning
                          ELSE Append(s.reasoning, item)
  <2>1. v = [s EXCEPT !.reasoning = reasoning]
    BY <1>9 DEF walk, s
  <2> HIDE DEF reasoning, v
  <2>2. v.messages = s.messages /\ v.calls = <<>> /\ v.deferred = <<>>
    BY <1>1, <1>3, <2>1 DEF AWalk
  <2>3. WalkSays(v, heard)
    BY <1>8, <2>2
  <2> QED BY <1>9, <2>3 DEF v, WordKind
<1>10. CASE item.kind = "text"
  <2> DEFINE body == Append(s.reasoning, item)
             m == Message("assistant", body)
             ms == Append(s.messages, m)
  <2>1. v = [s EXCEPT !.messages = ms]
    BY <1>10 DEF walk, s
  <2>2. m \in AMessage /\ m.role = "assistant" /\ item \in ToSet(m.body)
    <3>1. body \in Seq(APlain) /\ "assistant" \in Role /\ item \in ToSet(body)
      BY <1>2, <1>3, RangeOfAppend DEF Role
    <3> HIDE DEF body
    <3> QED BY <3>1, MessageIsPlain, PlainIsMessage DEF Message
  <2>3. Silent(m)
    BY <2>2 DEF Silent
  <2> HIDE DEF m, ms, v
  <2>4. v.messages = ms /\ v.calls = <<>> /\ v.deferred = <<>>
    BY <1>1, <1>3, <2>1 DEF AWalk
  <2>5. WalkSays(v, heard) /\ Heard(v, item)
    BY <1>7, <2>2, <2>3, <2>4 DEF ms
  <2> QED BY <2>5 DEF v
<1>11. CASE item.kind = "user"
  <2> DEFINE body == <<item>>
             m == Message("user", body)
             ms == Append(s.messages, m)
  <2>1. v = [s EXCEPT !.messages = ms, !.reasoning = <<>>]
    BY <1>11 DEF walk, s
  <2>2. m \in AMessage /\ m.role = "user" /\ item \in ToSet(m.body)
    <3>1. body \in Seq(APlain) /\ "user" \in Role /\ item \in ToSet(body)
      BY <1>2 DEF Role, ToSet
    <3> HIDE DEF body
    <3> QED BY <3>1, MessageIsPlain, PlainIsMessage DEF Message
  <2>3. Silent(m)
    BY <2>2 DEF Silent
  <2> HIDE DEF m, ms, v
  <2>4. v.messages = ms /\ v.calls = <<>> /\ v.deferred = <<>>
    BY <1>1, <1>3, <2>1 DEF AWalk
  <2>5. WalkSays(v, heard) /\ Heard(v, item)
    BY <1>7, <2>2, <2>3, <2>4 DEF ms
  <2> QED BY <2>5 DEF v
<1>12. CASE item.kind = "summary"
  <2> DEFINE m == System(item)
             ms == Append(s.messages, m)
  <2>1. v = IF HasKey THEN [s EXCEPT !.messages = ms] ELSE s
    BY <1>12 DEF walk, s
  <2>2. m \in AMessage /\ m.body = <<item>>
    BY <1>2, SystemIsPlain, PlainIsMessage DEF System, Message
  <2>3. Silent(m)
    BY <1>12, <2>2 DEF Silent, ToSet, WordKind
  <2> HIDE DEF m, ms, v
  <2>4. CASE HasKey
    <3>1. v.messages = ms /\ v.calls = <<>> /\ v.deferred = <<>>
      BY <1>1, <1>3, <2>1, <2>4 DEF AWalk
    <3>2. WalkSays(v, heard)
      BY <1>7, <2>2, <2>3, <3>1 DEF ms
    <3> QED BY <1>12, <3>2 DEF v, WordKind
  <2>5. CASE ~HasKey
    <3>1. WalkSays(v, heard)
      BY <1>1, <1>8, <2>1, <2>5
    <3> QED BY <1>12, <3>1 DEF v, WordKind
  <2> QED BY <2>4, <2>5
<1> QED BY <1>4, <1>5, <1>6, <1>9, <1>10, <1>11, <1>12

\* The messages of a request say what its history and its items do.
LEMMA AppendItemsSays ==
    ASSUME NEW h, Headed(h), Quiet(h), NEW items \in Seq(AnInput)
    PROVE  LET ms == append_items(h, items) IN
           /\ Quiet(ms)
           /\ \A x : Says(h, x) \/ x \in Words(items) => Says(ms, x)
<1> DEFINE n == Len(items)
           heard(i) == {x \in AnItem : Says(h, x) \/ \E j \in 1..i : items[j] = x /\ x.kind \in WordKind}
           ms == append_items(h, items)
<1>1. PICK walked : WalksAlong(walked, h, items) /\ ms = settle(walked[n]).messages
  BY AppendItemsWalks
<1>2. /\ \A i \in 0..n : walked[i] \in Walks(h)
      /\ walked[0] = [messages |-> h, deferred |-> <<>>, calls |-> <<>>, reasoning |-> <<>>]
      /\ \A i \in 1..n : \E old \in BOOLEAN : walked[i] = walk(walked[i - 1], items[i], old)
  BY <1>1 DEF WalksAlong
<1>3. n \in Nat /\ \A i \in 1..n : items[i] \in AnInput
  OBVIOUS
<1>4. WalkSays(walked[0], heard(0))
  <2>1. walked[0].messages = h /\ walked[0].deferred = <<>> /\ walked[0].calls = <<>>
    BY <1>2
  <2>2. \A x \in heard(0) : Says(h, x)
    OBVIOUS
  <2> HIDE DEF heard
  <2>3. Len(walked[0].deferred) = 0
    BY <2>1
  <2> QED BY <2>1, <2>2, <2>3 DEF WalkSays, Heard
<1>5. ASSUME NEW i \in 1..n, WalkSays(walked[i - 1], heard(i - 1))
      PROVE  WalkSays(walked[i], heard(i))
  <2> DEFINE item == items[i]
             before == heard(i - 1)
  <2>1. PICK old \in BOOLEAN : walked[i] = walk(walked[i - 1], item, old)
    BY <1>2
  <2>2. i - 1 \in 0..n /\ item \in AnInput
    BY <1>3
  <2>3. \A x \in heard(i) : x \in before \/ (x = item /\ item.kind \in WordKind)
    <3>1. \A j \in 1..i : j \in 1..(i - 1) \/ j = i
      OBVIOUS
    <3> QED BY <3>1
  <2>4. walked[i - 1] \in Walks(h)
    BY <1>2, <2>2
  <2> HIDE DEF heard, item
  <2>5. WalkSays(walked[i], before) /\ (item.kind \in WordKind => Heard(walked[i], item))
    BY <1>5, <2>1, <2>2, <2>4, WalkStepSays
  <2> HIDE DEF before
  <2> QED BY <2>3, <2>5 DEF WalkSays
<1> HIDE DEF heard
<1> DEFINE G == {i \in Nat : i <= n => WalkSays(walked[i], heard(i))}
<1>6. 0 \in G
  BY <1>4
<1>7. \A i \in Nat : i \in G => i + 1 \in G
  <2> SUFFICES ASSUME NEW i \in Nat, i \in G, i + 1 <= n PROVE WalkSays(walked[i + 1], heard(i + 1))
    OBVIOUS
  <2>1. i + 1 \in 1..n /\ (i + 1) - 1 = i /\ i <= n
    BY <1>3
  <2> QED BY <1>5, <2>1
<1> HIDE DEF G
<1>8. WalkSays(walked[n], heard(n)) /\ walked[n] \in Walks(h)
  <2>1. G = Nat
    BY <1>6, <1>7, Inductive DEF G
  <2> QED BY <1>2, <1>3, <2>1 DEF G
<1>9. Quiet(ms) /\ \A x \in heard(n) : Says(ms, x)
  BY <1>1, <1>8, SettleSays
<1>10. ASSUME NEW x, Says(h, x) PROVE x \in heard(n)
  <2>1. PICK i \in 1..Len(h) : x \in ToSet(h[i].body)
    BY <1>10 DEF Says
  <2>2. h[i].body \in Seq(AnItem)
    <3>1. \A m \in AMessage : m.body \in Seq(AnItem)
      BY DEF AMessage
    <3> QED BY <3>1 DEF Headed
  <2>3. x \in AnItem
    BY <2>1, <2>2 DEF ToSet
  <2> QED BY <1>10, <2>3 DEF heard
<1>11. ASSUME NEW x \in Words(items) PROVE x \in heard(n)
  <2>1. PICK j \in 1..n : items[j] = x /\ x.kind \in WordKind
    BY DEF Words, ToSet
  <2>2. x \in AnItem
    BY <1>3, <2>1, InputIsPlain
  <2> QED BY <2>1, <2>2 DEF heard
<1> QED BY <1>9, <1>10, <1>11 DEF ms

\* The leading message of the system says nothing that is lost with it.
LEMMA InstructionsSay ==
    ASSUME NEW h, Headed(h), Quiet(h), NEW n \in Nat,
           NEW given \in {<<>>, <<Item("instructions", n)>>}
    PROVE  LET merged == merge_instructions(h, given) IN
           /\ Quiet(merged)
           /\ \A x : Says(h, x) /\ x.kind \in WordKind => Says(merged, x)
<1> DEFINE item == Item("instructions", n)
           first == System(item)
           merged == merge_instructions(h, given)
<1>1. item \in AnItem /\ item.kind = "instructions"
  BY ItemTypes DEF Kind, Item
<1>2. h \in Seq(AMessage) /\ first \in AMessage /\ first.role = "system" /\ first.body = <<item>>
  BY <1>1, SystemInstructs DEF Headed, Instructing, System, Message
<1>3. Silent(first)
  BY <1>1, <1>2 DEF Silent, ToSet, WordKind
<1> HIDE DEF item
<1>4. CASE given = <<>>
  BY <1>4 DEF merge_instructions
<1>5. CASE given = <<item>>
  <2>1. given # <<>> /\ given[1] = item
    BY <1>5
  <2>2. CASE h # <<>> /\ h[1].role = "system"
    <3>1. merged = [h EXCEPT ![1] = first]
      BY <2>1, <2>2 DEF merge_instructions
    <3> HIDE DEF first, merged
    <3>2. /\ Len(merged) = Len(h) /\ merged[1] = first /\ 1 \in 1..Len(h)
          /\ \A i \in 1..Len(h) : i # 1 => merged[i] = h[i]
      BY <1>2, <2>2, <3>1
    <3>3. Quiet(merged)
      BY <1>3, <3>2 DEF Quiet
    <3>4. ASSUME NEW x, Says(h, x), x.kind \in WordKind PROVE Says(merged, x)
      <4>1. PICK i \in 1..Len(h) : x \in ToSet(h[i].body)
        BY <3>4 DEF Says
      <4>2. i # 1
        BY <2>2, <3>4, <4>1 DEF Quiet, Silent
      <4> QED BY <3>2, <4>1, <4>2 DEF Says
    <3> QED BY <3>3, <3>4 DEF merged
  <2>3. CASE ~ (h # <<>> /\ h[1].role = "system")
    <3> DEFINE one == <<first>>
    <3>1. merged = one \o h
      BY <2>1, <2>3 DEF merge_instructions
    <3>2. one \in Seq(AMessage) /\ Len(one) = 1 /\ one[1] = first
      BY <1>2
    <3> HIDE DEF one, merged, first
    <3>3. Quiet(one)
      BY <1>3, <3>2 DEF Quiet
    <3>4. Quiet(one \o h) /\ \A x : Says(h, x) => Says(one \o h, x)
      BY <1>2, <3>2, <3>3, SaysConcat
    <3> QED BY <3>1, <3>4 DEF merged
  <2> QED BY <2>2, <2>3
<1> QED BY <1>4, <1>5 DEF item

\* Without a limit on messages, what is cut is no message.
LEMMA BudgetsSay ==
    ASSUME NEW ms, Headed(ms), NEW b \in Budgets, b.messages = 0
    PROVE  /\ \A x : Says(enforce_budgets(ms, b), x) <=> Says(ms, x)
           /\ Quiet(ms) => Quiet(enforce_budgets(ms, b))
<1>1. b.messages \in Nat /\ b.chars \in Nat
  BY ConversationAssumption
<1>2. enforce_message_budget(ms, b.messages) = ms
  BY DEF enforce_message_budget
<1> DEFINE new == enforce_input_budget(ms, b.chars)
<1>3. SameBut(new, ms)
  BY <1>1, InputBudgetKeeps
<1>4. new = enforce_budgets(ms, b)
  BY <1>2 DEF enforce_budgets
<1> HIDE DEF new
<1> QED BY <1>3, <1>4, SameSays

-----------------------------------------------------------------------------
(* What a turn puts says what it was told                                  *)

LEMMA OutputWords ==
    ASSUME NEW reply \in Seq(AnInput)
    PROVE  /\ \A x \in Words(reply) : x.kind \in {"text", "call"} => x \in Words(chat_to_responses(reply))
           /\ \A mode : Words(OutputItems(mode, reply)) \subseteq Words(reply)
<1> DEFINE r == OfKind("reasoning", reply)
           c == OfKind("call", reply)
           t == OfKind("text", reply)
           rc == r \o c
           all == rc \o t
<1>1. r \in Seq(AnInput) /\ c \in Seq(AnInput) /\ t \in Seq(AnInput)
  BY OfKindType
<1>2. /\ \A x : x \in ToSet(r) <=> x \in ToSet(reply) /\ x.kind = "reasoning"
      /\ \A x : x \in ToSet(c) <=> x \in ToSet(reply) /\ x.kind = "call"
      /\ \A x : x \in ToSet(t) <=> x \in ToSet(reply) /\ x.kind = "text"
  BY OfKindIs
<1> HIDE DEF r, c, t
<1>3. rc \in Seq(AnInput) /\ \A x : x \in ToSet(rc) <=> x \in ToSet(r) \/ x \in ToSet(c)
  BY <1>1, RangeOfConcat
<1> HIDE DEF rc
<1>4. \A x : x \in ToSet(all) <=> x \in ToSet(rc) \/ x \in ToSet(t)
  BY <1>1, <1>3, RangeOfConcat
<1>5. chat_to_responses(reply) = all
  BY DEF chat_to_responses, all, rc, r, c, t
<1> HIDE DEF all
<1>6. /\ \A x \in Words(reply) : x.kind \in {"text", "call"} => x \in Words(all)
      /\ Words(all) \subseteq Words(reply)
  BY <1>2, <1>3, <1>4 DEF Words, WordKind
<1>7. \A mode : Words(OutputItems(mode, reply)) \subseteq Words(reply)
  BY <1>5, <1>6 DEF OutputItems
<1> QED BY <1>5, <1>6, <1>7

LEMMA ResponseMessageSays ==
    ASSUME NEW reply \in Seq(AnInput), Spoken(reply)
    PROVE  Words(reply) \subseteq ToSet(to_response_message(reply).body)
<1> DEFINE open(kind) == OfKind(kind, Open(reply))
           first(kind) == IF open(kind) # <<>> THEN open(kind) ELSE OfKind(kind, reply)
           reasoning == first("reasoning")
           text == OfKind("text", reply)
           more == open("text")
           calls == first("call")
           rt == reasoning \o text
           rest == rt \o more
           body == rest \o calls
<1>1. \A kind : open(kind) \in Seq(AnInput) /\ OfKind(kind, reply) \in Seq(AnInput)
  BY OpenType, OfKindType
<1>2. /\ reasoning \in Seq(AnInput) /\ text \in Seq(AnInput) /\ more \in Seq(AnInput)
      /\ calls \in Seq(AnInput)
  BY <1>1
<1>3. \A x \in ToSet(reply) : x.kind = "text" => x \in ToSet(text)
  BY OfKindIs
<1>4. \A x \in ToSet(reply) : x.kind = "call" => x \in ToSet(calls)
  <2> TAKE x \in ToSet(reply)
  <2> HAVE x.kind = "call"
  <2>1. open("call") # <<>> => x \in ToSet(open("call"))
    BY OpenCalls
  <2>2. x \in ToSet(OfKind("call", reply))
    BY OfKindIs
  <2> QED BY <2>1, <2>2
<1>5. to_response_message(reply).body = body
  BY DEF to_response_message, Message
<1> HIDE DEF reasoning, text, more, calls
<1>6. rt \in Seq(AnInput) /\ \A x \in ToSet(text) : x \in ToSet(rt)
  BY <1>2, RangeOfConcat
<1> HIDE DEF rt
<1>7. rest \in Seq(AnInput) /\ \A x \in ToSet(rt) : x \in ToSet(rest)
  BY <1>2, <1>6, RangeOfConcat
<1> HIDE DEF rest
<1>8. \A x : x \in ToSet(rest) \/ x \in ToSet(calls) => x \in ToSet(body)
  BY <1>2, <1>7, RangeOfConcat
<1> HIDE DEF body
<1>9. \A x \in Words(reply) : x \in ToSet(reply) /\ x.kind \in {"text", "call"}
  <2>1. \A x \in ToSet(reply) : x.kind \in {"reasoning", "text", "call", "summary"}
    BY DEF ToSet, Spoken
  <2> QED BY <2>1 DEF Words, WordKind
<1> QED BY <1>3, <1>4, <1>5, <1>6, <1>7, <1>8, <1>9

LEMMA HistorySays ==
    ASSUME NEW t \in ATurn, Headed(t.sent), Spoken(t.reply),
           t.mode \notin Compacting => Quiet(t.sent),
           t.mode \in Compacting => \A i \in 1..Len(t.reply) : t.reply[i].kind = "summary"
    PROVE  /\ Quiet(History(t))
           /\ t.mode \notin Compacting =>
                 \A x : /\ Says(t.sent, x) => Says(History(t), x)
                        /\ t.mode # "warmup" /\ x \in Words(t.reply) => Says(History(t), x)
<1>1. t.reply \in Seq(AnInput) /\ t.sent \in Seq(AMessage)
  BY DEF ATurn
<1>2. t.mode \in Compacting => Quiet(compaction_output_to_chat_messages(t.reply))
  <2> SUFFICES ASSUME t.mode \in Compacting
               PROVE  Quiet(compaction_output_to_chat_messages(t.reply))
    OBVIOUS
  <2> DEFINE all == [i \in DOMAIN t.reply |-> System(t.reply[i])]
  <2>1. Len(all) = Len(t.reply) /\ \A i \in 1..Len(t.reply) : all[i] = System(t.reply[i])
    BY <1>1
  <2> HIDE DEF all
  <2>2. \A i \in 1..Len(t.reply) : Silent(System(t.reply[i]))
    BY DEF Silent, System, Message, ToSet, WordKind
  <2>3. Quiet(all)
    BY <2>1, <2>2 DEF Quiet
  <2> QED BY <2>3 DEF all, compaction_output_to_chat_messages
<1>3. ASSUME Quiet(t.sent)
      PROVE  LET h == Append(t.sent, to_response_message(t.reply)) IN
             Quiet(h) /\ \A x : Says(t.sent, x) \/ x \in Words(t.reply) => Says(h, x)
  <2> DEFINE m == to_response_message(t.reply)
  <2>1. m \in AMessage
    BY <1>1, ResponseMessageIsPlain, PlainIsMessage
  <2>2. m.role = "assistant" /\ Words(t.reply) \subseteq ToSet(m.body)
    BY <1>1, ResponseMessageSpeaks, ResponseMessageSays
  <2> HIDE DEF m
  <2>3. Silent(m)
    BY <2>2 DEF Silent
  <2>4. Quiet(Append(t.sent, m))
        /\ \A x : Says(Append(t.sent, m), x) <=> Says(t.sent, x) \/ x \in ToSet(m.body)
    BY <1>1, <1>3, <2>1, <2>3, SaysAppend
  <2> QED BY <2>2, <2>4 DEF m
<1>4. ASSUME Quiet(t.sent), NEW items \in Seq(AnInput), Words(t.reply) \subseteq Words(items)
      PROVE  LET h == t.sent \o items_to_chat_messages(items) IN
             Quiet(h) /\ \A x : Says(t.sent, x) \/ x \in Words(t.reply) => Says(h, x)
  <2> DEFINE ms == items_to_chat_messages(items)
             none == <<>>
  <2>1. Headed(none) /\ Quiet(none) /\ ms = append_items(none, items)
    BY KeepsNothing, NothingIsSaid DEF items_to_chat_messages
  <2>2. ms \in Seq(AMessage)
    BY ItemsToMessages, PlainIsMessage
  <2> HIDE DEF none, ms
  <2>3. Quiet(ms) /\ \A x \in Words(items) : Says(ms, x)
    BY <2>1, AppendItemsSays
  <2>4. Quiet(t.sent \o ms) /\ \A x : Says(t.sent \o ms, x) <=> Says(t.sent, x) \/ Says(ms, x)
    BY <1>1, <1>4, <2>2, <2>3, SaysConcat
  <2> QED BY <1>4, <2>3, <2>4 DEF ms
<1>5. LET items == build_response_from_state(t.reply) IN
      items \in Seq(AnInput) /\ Words(t.reply) \subseteq Words(items)
  <2> DEFINE open == Open(t.reply)
             items == t.reply \o open
  <2>1. open \in Seq(AnInput)
    BY <1>1, OpenType
  <2> HIDE DEF open
  <2>2. items \in Seq(AnInput) /\ \A x \in ToSet(t.reply) : x \in ToSet(items)
    BY <1>1, <2>1, RangeOfConcat
  <2> HIDE DEF items
  <2>3. Words(t.reply) \subseteq Words(items)
    BY <2>2 DEF Words
  <2> QED BY <2>2, <2>3 DEF build_response_from_state, items, open
<1>6. LET items == chat_to_responses(t.reply) IN
      items \in Seq(AnInput) /\ Words(t.reply) \subseteq Words(items)
  <2>1. \A x \in ToSet(t.reply) : x.kind \in {"reasoning", "text", "call", "summary"}
    BY <1>1 DEF ToSet, Spoken
  <2>2. Words(t.reply) \subseteq Words(chat_to_responses(t.reply))
    BY <1>1, <2>1, OutputWords DEF Words, WordKind
  <2> QED BY <1>1, <2>2, ChatToResponsesType
<1>7. CASE t.mode \in Compacting
  BY <1>2, <1>7 DEF History, Compacting
<1>8. CASE t.mode = "warmup"
  BY <1>8 DEF History, Compacting
<1>9. CASE t.mode = "ws"
  <2>1. History(t) = Append(t.sent, to_response_message(t.reply)) /\ Quiet(t.sent)
    BY <1>9 DEF History, Compacting
  <2> QED BY <1>3, <2>1
<1>10. CASE t.mode = "sse"
  <2>1. /\ History(t) = t.sent \o items_to_chat_messages(build_response_from_state(t.reply))
        /\ Quiet(t.sent)
    BY <1>10 DEF History, Compacting
  <2> QED BY <1>4, <1>5, <2>1
<1>11. CASE t.mode \notin Compacting \cup {"warmup", "ws", "sse"}
  <2>1. /\ History(t) = t.sent \o items_to_chat_messages(chat_to_responses(t.reply))
        /\ Quiet(t.sent)
    BY <1>11 DEF History
  <2> QED BY <1>4, <1>6, <2>1
<1> QED BY <1>7, <1>8, <1>9, <1>10, <1>11

-----------------------------------------------------------------------------
(* The invariant                                                           *)

\* Of turn n, from what it is asked to what it put: what was said so far is what
\* the client knows and what it added, and it is sent.
TurnSays(n, t, history, c) ==
    /\ t.mode \in Compacting => \A i \in 1..Len(t.reply) : t.reply[i].kind = "summary"
    /\ Pending(t) => t.said = c.known \o t.new
    /\ t.pc = "convert" /\ t.prev = 0 => t.input = t.said
    /\ t.pc = "upstream" /\ t.mode = "background" => c.last >= n
    /\ t.pc \in {"first_put", "upstream", "put_tools", "put"} /\ t.whole =>
          Quiet(t.sent) /\ \A x \in Words(t.said) : Says(t.sent, x)
    /\ t.pc = "over" /\ history # Missing /\ Complete(t) => Quiet(history)

\* What the client knows is what turn t has put or will put.
LeavesWords(t, history, c) ==
    /\ t.mode \in Compacting => Words(c.known) = {}
    /\ t.pc = "upstream" /\ t.whole => \A x \in Words(c.known) : Says(t.sent, x)
    /\ t.pc \in {"put_tools", "put"} /\ t.whole =>
          \A x \in Words(c.known) : Says(t.sent, x) \/ (t.mode # "warmup" /\ x \in Words(t.reply))
    /\ t.pc = "over" /\ history # Missing /\ Complete(t) => \A x \in Words(c.known) : Says(history, x)

WordsInv ==
    /\ \A n \in Turns : TurnSays(n, turns[n], store[n], client)
    /\ client.last # 0 => LeavesWords(turns[client.last], store[client.last], client)

LEMMA WordsOfConcat ==
    ASSUME NEW S, NEW a \in Seq(S), NEW b \in Seq(S)
    PROVE  Words(a \o b) = Words(a) \cup Words(b)
BY RangeOfConcat DEF Words

LEMMA WordsSteps ==
    ASSUME Inv, WordsInv, NEW n \in Turns, OnlyTurn(n),
           n = count \/ (client'.known = client.known /\ client'.last = client.last),
           client'.last = n \/ (client'.known = client.known /\ client'.last = client.last),
           TurnSays(n, turns'[n], store'[n], client'),
           client'.last = n => LeavesWords(turns'[n], store'[n], client')
    PROVE  WordsInv'
<1>1. \A m \in Turns : m # n => turns'[m] = turns[m] /\ store'[m] = store[m]
  BY DEF OnlyTurn
<1>2. ASSUME NEW m \in Turns PROVE TurnSays(m, turns'[m], store'[m], client')
  <2>1. CASE m # n
    <3>1. TurnSays(m, turns[m], store[m], client)
      BY DEF WordsInv
    <3>2. CASE client'.known = client.known /\ client'.last = client.last
      <4>1. TurnSays(m, turns[m], store[m], client')
        BY <3>1, <3>2 DEF TurnSays
      <4> QED BY <1>1, <2>1, <4>1
    <3>3. CASE n = count
      <4>1. ~Pending(turns[m])
        <5> SUFFICES ASSUME Pending(turns[m]) PROVE FALSE
          OBVIOUS
        <5>1. client.waiting = m
          BY InvParts DEF TurnHasTools
        <5> QED BY <2>1, <3>3, <5>1, InvParts DEF Turns
      <4>2. turns[m].pc # "convert"
        BY <4>1 DEF Pending
      <4>3. turns[m].pc = "upstream" => client'.last \in {client.last, n} /\ m <= n /\ m \in Nat /\ n \in Nat
        <5> SUFFICES ASSUME turns[m].pc = "upstream"
                     PROVE  client'.last \in {client.last, n} /\ m <= n /\ m \in Nat /\ n \in Nat
          OBVIOUS
        <5>1. m \in 1..count /\ m \in Nat
          BY AtAStep
        <5> QED BY <3>3, <5>1, InvParts
      <4>4. turns[m].pc = "upstream" /\ turns[m].mode = "background" => client'.last >= m
        BY <3>1, <4>3 DEF TurnSays
      <4>5. TurnSays(m, turns[m], store[m], client')
        BY <3>1, <4>1, <4>2, <4>4 DEF TurnSays
      <4> QED BY <1>1, <2>1, <4>5
    <3> QED BY <3>2, <3>3
  <2> QED BY <2>1
<1>3. ASSUME client'.last # 0
      PROVE  LeavesWords(turns'[client'.last], store'[client'.last], client')
  <2>1. CASE client'.last = n
    BY <2>1
  <2>2. CASE client'.last # n
    <3>1. client'.known = client.known /\ client'.last = client.last
      BY <2>2
    <3>2. client.last \in Turns
      BY <1>3, <3>1, InvParts DEF Turns
    <3>3. LeavesWords(turns[client.last], store[client.last], client)
      BY <1>3, <3>1 DEF WordsInv
    <3>4. LeavesWords(turns[client.last], store[client.last], client')
      BY <3>1, <3>3 DEF LeavesWords
    <3> QED BY <1>1, <2>2, <3>1, <3>2, <3>4
  <2> QED BY <2>1, <2>2
<1> QED BY <1>2, <1>3 DEF WordsInv

\* The client learns what was said so far and what it is told; or a summary only.
LEMMA LearnSays ==
    ASSUME Inv, WordsInv, NEW n \in Turns, turns[n].pc # "none", Pending(turns[n]),
           NEW out \in Seq(AnInput), Learn(n, out)
    PROVE  /\ n = count /\ client'.last = n
           /\ turns[n].mode \in Compacting => Words(client'.known) = Words(out)
           /\ turns[n].mode \notin Compacting =>
                 Words(client'.known) = Words(turns[n].said) \cup Words(out)
<1> DEFINE t == turns[n]
           said == client.known \o t.new
<1>1. n = count /\ client.waiting = n
  BY PendingIsLast
<1>2. t \in ATurn /\ client \in AClient /\ client.known \in Seq(AnInput) /\ t.new \in Seq(AnInput)
  BY AtAStep, TurnFields, ClientFields, InvParts
<1>3. said = t.said /\ said \in Seq(AnInput)
  <2>1. TurnSays(n, t, store[n], client)
    BY DEF WordsInv
  <2>2. t.said = said
    BY <2>1 DEF TurnSays
  <2>3. said \in Seq(AnInput)
    BY <1>2
  <2> QED BY <2>2, <2>3
<1>4. /\ client'.known = IF t.mode \in Compacting THEN out ELSE said \o out
      /\ client'.last = n
  BY <1>2, Zenon DEF Learn, AClient
<1> HIDE DEF said
<1>5. Words(said \o out) = Words(said) \cup Words(out)
  BY <1>3, WordsOfConcat
<1> QED BY <1>1, <1>3, <1>4, <1>5

\* Nothing becomes nothing.
LEMMA NoMessages == items_to_chat_messages(<<>>) = <<>>
<1> DEFINE none == <<>>
           start == [messages |-> none, deferred |-> none, calls |-> none, reasoning |-> none]
<1>1. none \in Seq(AnInput) /\ Headed(none)
  BY KeepsNothing
<1>2. PICK walked : WalksAlong(walked, none, none)
                    /\ append_items(none, none) = settle(walked[Len(none)]).messages
  <2> HIDE DEF none
  <2> QED BY <1>1, AppendItemsWalks
<1>3. walked[0] = start /\ Len(none) = 0
  BY <1>2 DEF WalksAlong
<1>4. settle(start).messages = none
  BY DEF settle, flush
<1> QED BY <1>2, <1>3, <1>4 DEF items_to_chat_messages

LEMMA ConvertedSays ==
    ASSUME Inv, RoundsInv, WordsInv, budget.messages = 0, NEW n \in Turns, turns[n].pc = "convert",
           turns[n].prev # 0 => Settled(turns[n].prev) /\ Complete(turns[turns[n].prev])
    PROVE  LET sent == enforce_budgets(Converted(n), budget) IN
           Quiet(sent) /\ \A x \in Words(turns[n].said) : Says(sent, x)
<1> DEFINE t == turns[n]
           item == Item("instructions", n)
           current == items_to_chat_messages(t.input)
           restored == Restored(t.prev)
           prompt == Message("user", <<Item("prompt", n)>>)
<1>1. /\ t \in ATurn /\ n \in Nat /\ t.input \in Seq(AnInput) /\ t.prev \in 0..(n - 1)
      /\ t.given \in {<<>>, <<item>>} /\ t.new \in Seq(AnInput)
      /\ client.known \in Seq(AnInput)
  BY AtAStep, TurnFields, ClientFields, InvParts DEF TurnIsTyped
<1>2. TurnAnswers(t, store[n], client) /\ TurnSays(n, t, store[n], client)
  BY DEF RoundsInv, WordsInv
<1>3. /\ Headed(restored) /\ Quiet(restored)
      /\ \A x \in Words(t.said) : Says(restored, x) \/ x \in Words(t.input)
      /\ t.prev = 0 => restored = <<>>
  <2>1. CASE t.prev = 0
    <3>1. restored = <<>>
      BY <2>1 DEF Restored
    <3>2. Headed(<<>>) /\ Quiet(<<>>)
      BY KeepsNothing, NothingIsSaid
    <3>3. t.input = t.said
      BY <1>2, <2>1 DEF TurnSays
    <3> QED BY <3>1, <3>2, <3>3
  <2>2. CASE t.prev # 0
    <3>1. t.prev \in Turns /\ t.prev = client.last /\ Settled(t.prev) /\ Complete(turns[t.prev])
      BY <1>1, <1>2, <2>2 DEF Turns, TurnAnswers
    <3>2. /\ turns[t.prev].pc = "over" /\ store[t.prev] # Missing /\ restored = store[t.prev]
      BY <2>2, <3>1 DEF Settled, Restored
    <3>3. Headed(store[t.prev])
      BY <3>1, <3>2, InvParts
    <3>4. Quiet(store[t.prev])
      BY <3>1, <3>2 DEF WordsInv, TurnSays
    <3>5. LeavesWords(turns[t.prev], store[t.prev], client)
      BY <2>2, <3>1 DEF WordsInv
    <3>6. \A x \in Words(client.known) : Says(store[t.prev], x)
      BY <3>1, <3>2, <3>5 DEF LeavesWords
    <3>7. t.said = client.known \o t.new /\ t.input = t.new
      BY <1>2, <2>2 DEF TurnSays, TurnAnswers, Pending
    <3>8. Words(t.said) = Words(client.known) \cup Words(t.input)
      BY <1>1, <3>7, WordsOfConcat
    <3> QED BY <2>2, <3>2, <3>3, <3>4, <3>6, <3>8
  <2> QED BY <2>1, <2>2
<1>4. item \in AnItem
  BY <1>1, ItemTypes DEF Kind
<1> DEFINE base == IF current # <<>> THEN current ELSE restored
           summarised == Append(base, prompt)
           asked == responses_to_chat(restored, t.given, t.input)
           AllSaid(ms) == Quiet(ms) /\ \A x \in Words(t.said) : Says(ms, x)
<1>5. Converted(n) = IF t.mode \in Compacting THEN summarised ELSE asked
  BY DEF Converted
<1>6. ASSUME t.mode \notin Compacting PROVE AllSaid(asked)
  <2> DEFINE merged == merge_instructions(restored, t.given)
  <2>1. /\ Quiet(merged) /\ \A x : Says(restored, x) /\ x.kind \in WordKind => Says(merged, x)
    <3> HIDE DEF restored
    <3> QED BY <1>1, <1>3, InstructionsSay
  <2>2. Headed(merged)
    <3> HIDE DEF restored, item
    <3> QED BY <1>1, <1>3, <1>4, InstructionsKeep
  <2> HIDE DEF merged
  <2>3. /\ Quiet(append_items(merged, t.input))
        /\ \A x : Says(merged, x) \/ x \in Words(t.input) => Says(append_items(merged, t.input), x)
    BY <1>1, <2>1, <2>2, AppendItemsSays
  <2>4. asked = append_items(merged, t.input)
    BY DEF responses_to_chat, merged
  <2> HIDE DEF asked, restored
  <2> QED BY <1>3, <2>1, <2>3, <2>4 DEF Words
<1>7. ASSUME t.mode \in Compacting PROVE AllSaid(summarised)
  <2>1. prompt \in AMessage /\ Silent(prompt)
    <3>1. Item("prompt", n) \in APlain
      BY <1>1, ItemTypes DEF PlainKind, Kind
    <3>2. <<Item("prompt", n)>> \in Seq(APlain) /\ "user" \in Role
      BY <3>1 DEF Role
    <3> QED BY <3>2, MessageIsPlain, PlainIsMessage DEF Message, Silent
  <2>2. /\ Quiet(current) /\ current \in Seq(AMessage)
        /\ \A x \in Words(t.input) : Says(current, x)
    <3> DEFINE none == <<>>
    <3>1. Headed(none) /\ Quiet(none) /\ current = append_items(none, t.input)
      BY KeepsNothing, NothingIsSaid DEF items_to_chat_messages
    <3>2. current \in Seq(AMessage)
      BY <1>1, ItemsToMessages, PlainIsMessage
    <3> HIDE DEF none, current
    <3> QED BY <1>1, <3>1, <3>2, AppendItemsSays
  <2>3. t.prev # 0 => current = <<>>
    <3>1. t.prev # 0 => t.input = <<>>
      BY <1>2, <1>7 DEF TurnAnswers
    <3> QED BY <3>1, NoMessages
  <2> HIDE DEF current, restored
  <2>4. AllSaid(base) /\ base \in Seq(AMessage)
    <3>1. CASE current = <<>>
      BY <1>3, <2>2, <3>1, NothingIsSaid DEF Headed
    <3>2. CASE current # <<>>
      BY <1>3, <2>2, <2>3, <3>2, NothingIsSaid
    <3> QED BY <3>1, <3>2
  <2> HIDE DEF base, prompt
  <2> QED BY <2>1, <2>4, SaysAppend
<1> DEFINE converted == Converted(n)
<1>8. AllSaid(converted)
  <2> HIDE DEF summarised, asked, AllSaid
  <2> QED BY <1>5, <1>6, <1>7
<1>9. Headed(converted)
  <2> DEFINE kept == enforce_budgets(converted, budget)
  <2> QED BY ConvertedIsHeaded
<1> HIDE DEF converted
<1> QED BY <1>8, <1>9, BudgetsSay, InvParts DEF converted

-----------------------------------------------------------------------------
(* Every action keeps what was said                                        *)

LEMMA EndedSays ==
    ASSUME NEW n, NEW t \in ATurn, NEW pc \in {"over", "failed"}, NEW history, NEW c,
           pc = "over" /\ history # Missing /\ Complete(t) => Quiet(history)
    PROVE  TurnSays(n, Ended(t, pc), history, c)
<1> DEFINE e == Ended(t, pc)
<1>1. e.pc = pc /\ e.mode = t.mode /\ e.whole = t.whole
  BY EndedTurn
<1>2. e.reply = <<>>
  BY DEF Ended, NoTurn
<1> HIDE DEF e
<1>3. \A i \in 1..Len(e.reply) : FALSE
  BY <1>2
<1>4. ~Pending(e)
  BY <1>1 DEF Pending
<1>5. TurnSays(n, e, history, c)
  BY <1>1, <1>3, <1>4 DEF TurnSays, Complete
<1> QED BY <1>5 DEF e

LEMMA PutToolsSays ==
    ASSUME Inv, WordsInv, NEW n \in Turns, PutTools(n)
    PROVE  WordsInv'
<1> DEFINE t == turns[n]
           new == [t EXCEPT !.pc = "put"]
<1>1. t.pc = "put_tools" /\ t \in ATurn /\ TurnSays(n, t, store[n], client)
  BY AtAStep DEF PutTools, WordsInv
<1>2. turns'[n] = new /\ client' = client /\ store' = store /\ OnlyTurn(n)
  BY InvParts DEF PutTools, OnlyTurn
<1>3. /\ new.pc = "put" /\ new.mode = t.mode /\ new.reply = t.reply /\ new.new = t.new
      /\ new.sent = t.sent /\ new.whole = t.whole /\ new.said = t.said
  BY <1>1 DEF ATurn
<1> HIDE DEF new
<1>4. Pending(new) => Pending(t)
  BY <1>1, <1>3 DEF Pending
<1>5. TurnSays(n, new, store[n], client)
  BY <1>1, <1>3, <1>4 DEF TurnSays
<1>6. client.last = n => LeavesWords(new, store[n], client)
  <2> SUFFICES ASSUME client.last = n PROVE LeavesWords(new, store[n], client)
    OBVIOUS
  <2>1. LeavesWords(t, store[n], client)
    BY DEF WordsInv, Turns
  <2> QED BY <1>1, <1>3, <2>1 DEF LeavesWords
<1> QED BY <1>2, <1>5, <1>6, WordsSteps

LEMMA FailSays ==
    ASSUME Inv, WordsInv, NEW n \in Turns, Fail(n)
    PROVE  WordsInv'
<1> DEFINE t == turns[n]
           failed == Ended(t, "failed")
           put == [t EXCEPT !.pc = "put"]
<1>1. t.pc = "upstream" /\ t \in ATurn /\ TurnSays(n, t, store[n], client)
  BY AtAStep DEF Fail, WordsInv
<1>2. /\ turns'[n] = failed \/ (t.mode = "background" /\ turns'[n] = put)
      /\ client' = [client EXCEPT !.waiting = IF @ = n THEN 0 ELSE @]
      /\ store' = store /\ OnlyTurn(n)
  BY InvParts DEF Fail, OnlyTurn
<1>3. client'.known = client.known /\ client'.last = client.last
  BY <1>2, InvParts DEF AClient
<1>4. client.last = n => LeavesWords(t, store[n], client)
  BY DEF WordsInv, Turns
<1>5. CASE turns'[n] = failed
  <2>1. failed.pc = "failed" /\ failed.mode = t.mode /\ TurnSays(n, failed, store[n], client')
    BY <1>1, EndedTurn, EndedSays
  <2> HIDE DEF failed
  <2>2. client'.last = n => LeavesWords(failed, store[n], client')
    BY <1>3, <1>4, <2>1 DEF LeavesWords
  <2> QED BY <1>2, <1>3, <1>5, <2>1, <2>2, WordsSteps
<1>6. CASE t.mode = "background" /\ turns'[n] = put
  <2>1. /\ put.pc = "put" /\ put.mode = t.mode /\ put.reply = t.reply /\ put.new = t.new
        /\ put.sent = t.sent /\ put.whole = t.whole /\ put.said = t.said
    BY <1>1 DEF ATurn
  <2> HIDE DEF put
  <2>2. ~Pending(put)
    BY <1>6, <2>1 DEF Pending
  <2>3. TurnSays(n, put, store[n], client')
    BY <1>1, <2>1, <2>2 DEF TurnSays
  <2>4. client'.last = n => LeavesWords(put, store[n], client')
    BY <1>1, <1>3, <1>4, <2>1 DEF LeavesWords
  <2> QED BY <1>2, <1>3, <1>6, <2>3, <2>4, WordsSteps
<1> QED BY <1>2, <1>5, <1>6

LEMMA NoWords == Words(<<>>) = {} /\ <<>> \in Seq(AnInput)
BY DEF Words, ToSet

LEMMA FirstPutSays ==
    ASSUME Inv, WordsInv, NEW n \in Turns, FirstPut(n)
    PROVE  WordsInv'
<1> DEFINE t == turns[n]
           new == [t EXCEPT !.pc = "upstream"]
<1>1. /\ t.pc = "first_put" /\ t \in ATurn /\ TurnSays(n, t, store[n], client)
      /\ Learn(n, <<>>) /\ n \in Nat
  BY AtAStep DEF FirstPut, WordsInv
<1>2. t.mode = "background" /\ Pending(t)
  BY <1>1, InvParts DEF TurnHasTools, Pending
<1>3. turns'[n] = new /\ OnlyTurn(n)
  BY InvParts DEF FirstPut, OnlyTurn
<1>4. n = count /\ client'.last = n /\ Words(client'.known) = Words(t.said)
  BY <1>1, <1>2, NoWords, LearnSays DEF Compacting
<1>5. /\ new.pc = "upstream" /\ new.mode = t.mode /\ new.reply = t.reply /\ new.new = t.new
      /\ new.sent = t.sent /\ new.whole = t.whole /\ new.said = t.said
  BY <1>1 DEF ATurn
<1> HIDE DEF new
<1>6. ~Pending(new)
  BY <1>2, <1>5 DEF Pending
<1>7. client'.last >= n
  BY <1>1, <1>4
<1>8. TurnSays(n, new, store'[n], client')
  BY <1>1, <1>2, <1>5, <1>6, <1>7 DEF TurnSays
<1>9. LeavesWords(new, store'[n], client')
  BY <1>1, <1>2, <1>4, <1>5 DEF TurnSays, LeavesWords, Compacting
<1> QED BY <1>3, <1>4, <1>8, <1>9, WordsSteps

LEMMA PutSays ==
    ASSUME Inv, RoundsInv, WordsInv, NEW n \in Turns, Put(n)
    PROVE  WordsInv'
<1> DEFINE t == turns[n]
           over == Ended(t, "over")
           history == History(t)
           out == OutputItems(t.mode, t.reply)
           learns == t.mode \in {"whole", "compaction"}
<1>1. /\ t.pc = "put" /\ t \in ATurn /\ TurnAnswers(t, store[n], client)
      /\ TurnSays(n, t, store[n], client)
      /\ Headed(t.sent) /\ t.reply \in Seq(AnInput)
  BY AtAStep, TurnFields DEF Put, RoundsInv, WordsInv, TurnIsTyped
<1>2. /\ turns'[n] = over /\ store'[n] = history /\ OnlyTurn(n)
      /\ IF learns THEN Learn(n, out) ELSE client' = client
  BY InvParts DEF Put, OnlyTurn
<1>3. /\ Spoken(t.reply)
      /\ t.mode \in Compacting => (\A i \in 1..Len(t.reply) : t.reply[i].kind = "summary")
                                  /\ Words(t.reply) = {}
  BY <1>1 DEF TurnAnswers, TurnSays, Words, ToSet, WordKind
<1>4. Complete(t) =>
         /\ Quiet(history)
         /\ t.mode \notin Compacting =>
               \A x : /\ Says(t.sent, x) => Says(history, x)
                      /\ t.mode # "warmup" /\ x \in Words(t.reply) => Says(history, x)
  <2> SUFFICES ASSUME Complete(t)
               PROVE  /\ Quiet(history)
                      /\ t.mode \notin Compacting =>
                            \A x : /\ Says(t.sent, x) => Says(history, x)
                                   /\ t.mode # "warmup" /\ x \in Words(t.reply) => Says(history, x)
    OBVIOUS
  <2>1. t.mode \notin Compacting => Quiet(t.sent)
    BY <1>1 DEF TurnSays, Complete
  <2> QED BY <1>1, <1>3, <2>1, HistorySays
<1>5. out \in Seq(AnInput) /\ Words(out) \subseteq Words(t.reply)
  BY <1>1, OutputItemsType, OutputWords
<1> HIDE DEF history, out
<1>6. learns =>
         /\ n = count /\ client'.last = n
         /\ t.mode \in Compacting => Words(client'.known) = Words(out)
         /\ t.mode \notin Compacting => Words(client'.known) = Words(t.said) \cup Words(out)
  <2>1. learns => Pending(t)
    BY <1>1 DEF Pending
  <2> QED BY <1>1, <1>2, <1>5, <2>1, LearnSays
<1>7. ~learns => client' = client
  BY <1>2
<1>8. learns => t.mode # "warmup"
  OBVIOUS
<1> HIDE DEF learns
<1>9. client'.last = n =>
         /\ t.mode \in Compacting => Words(client'.known) = {}
         /\ t.whole => \A x \in Words(client'.known) :
               Says(t.sent, x) \/ (t.mode # "warmup" /\ x \in Words(t.reply))
  <2>1. CASE learns
    <3>1. t.mode \in Compacting => Words(client'.known) = {}
      BY <1>3, <1>5, <1>6, <2>1
    <3>2. t.mode \notin Compacting /\ t.whole => \A x \in Words(client'.known) :
             Says(t.sent, x) \/ (t.mode # "warmup" /\ x \in Words(t.reply))
      <4>1. t.whole => \A x \in Words(t.said) : Says(t.sent, x)
        BY <1>1 DEF TurnSays
      <4> QED BY <1>5, <1>6, <1>8, <2>1, <4>1
    <3> QED BY <3>1, <3>2
  <2>2. CASE ~learns
    <3> SUFFICES ASSUME client.last = n
                 PROVE  /\ t.mode \in Compacting => Words(client.known) = {}
                        /\ t.whole => \A x \in Words(client.known) :
                              Says(t.sent, x) \/ (t.mode # "warmup" /\ x \in Words(t.reply))
      BY <1>7, <2>2
    <3>1. LeavesWords(t, store[n], client)
      BY DEF WordsInv, Turns
    <3> QED BY <1>1, <3>1 DEF LeavesWords
  <2> QED BY <2>1, <2>2
<1>10. over.pc = "over" /\ over.mode = t.mode /\ over.whole = t.whole
       /\ TurnSays(n, over, history, client')
  BY <1>1, <1>4, EndedTurn, EndedSays
<1> HIDE DEF over
<1>11. client'.last = n => LeavesWords(over, history, client')
  <2>1. Complete(over) <=> t.mode \in Compacting \/ t.whole
    BY <1>10 DEF Complete
  <2>2. Complete(t) <=> t.mode \in Compacting \/ t.whole
    BY DEF Complete
  <2> QED BY <1>4, <1>9, <1>10, <2>1, <2>2 DEF LeavesWords
<1> QED BY <1>2, <1>6, <1>7, <1>10, <1>11, WordsSteps

LEMMA ReplySays ==
    ASSUME CallsTogether, Inv, RoundsInv, WordsInv, NEW n \in Turns, Reply(n)
    PROVE  WordsInv'
<1> DEFINE t == turns[n]
<1>1. t.pc = "upstream" /\ t \in ATurn /\ TurnAnswers(t, store[n], client)
      /\ TurnSays(n, t, store[n], client)
  BY AtAStep DEF Reply, RoundsInv, WordsInv
<1>2. PICK kinds \in Replies :
         LET reply == ReplyOf(n, kinds)
             out == OutputItems(t.mode, reply)
         IN  /\ turns' = [turns EXCEPT ![n] =
                   IF ~Puts(t) THEN Ended(t, "over")
                   ELSE [t EXCEPT !.reply = reply,
                                  !.pc = IF t.mode \in {"background"} \cup Compacting
                                         THEN "put" ELSE "put_tools"]]
             /\ CASE t.mode = "background" ->
                       client' = [client EXCEPT !.known = IF count = n THEN @ \o out ELSE @]
                  [] t.mode = "sse" \/ t.mode \in Socket \/ ~Puts(t) -> Learn(n, out)
                  [] OTHER -> UNCHANGED client
  BY Zenon DEF Reply
<1> DEFINE reply == ReplyOf(n, kinds)
           out == OutputItems(t.mode, reply)
           over == Ended(t, "over")
           pc == IF t.mode \in Toolless THEN "put" ELSE "put_tools"
           put == [t EXCEPT !.reply = reply, !.pc = pc]
           known == IF count = n THEN client.known \o out ELSE client.known
<1>3. /\ reply \in Seq(AnInput) /\ out \in Seq(AnInput) /\ Words(out) \subseteq Words(reply)
  BY ReplyOfType, OutputItemsType, OutputWords
<1>4. t.mode \in Compacting =>
         (\A i \in 1..Len(reply) : reply[i].kind = "summary") /\ Words(reply) = {}
  <2> SUFFICES ASSUME t.mode \in Compacting
               PROVE  (\A i \in 1..Len(reply) : reply[i].kind = "summary") /\ Words(reply) = {}
    OBVIOUS
  <2>1. \A i \in 1..Len(reply) : reply[i].kind = "summary"
    <3>1. reply = <<Item("summary", n)>>
      BY DEF ReplyOf
    <3>2. Len(reply) = 1 /\ reply[1].kind = "summary"
      BY <3>1 DEF Item
    <3> HIDE DEF reply
    <3> QED BY <3>2
  <2> HIDE DEF reply
  <2> QED BY <1>3, <2>1 DEF Words, ToSet, WordKind
<1>5. turns'[n] = (IF ~Puts(t) THEN over ELSE put) /\ store' = store /\ OnlyTurn(n)
  <2>1. turns' = [turns EXCEPT ![n] = IF ~Puts(t) THEN over ELSE put]
    BY <1>2, Zenon DEF Toolless
  <2>2. count' = count /\ store' = store /\ registry' = registry /\ budget' = budget
    BY DEF Reply
  <2> HIDE DEF over, put
  <2> QED BY <2>1, <2>2, OnlyTurnN
<1>6. t.mode = "background" => Puts(t)
  BY <1>1, InvParts DEF TurnHasTools, Puts
<1>7. \/ t.mode = "background" /\ client' = [client EXCEPT !.known = known]
      \/ t.mode # "background" /\ Learn(n, out) /\ (Puts(t) => t.mode \notin {"whole", "compaction"})
      \/ t.mode # "background" /\ Puts(t) /\ client' = client
  <2>1. CASE t.mode = "background"
    <3>1. ~ (t.mode = "sse" \/ t.mode \in Socket \/ ~Puts(t))
      BY <1>6, <2>1 DEF Socket
    <3> QED BY <1>2, <2>1, <3>1, Zenon
  <2>2. CASE t.mode # "background"
    <3>1. IF t.mode = "sse" \/ t.mode \in Socket \/ ~Puts(t) THEN Learn(n, out)
          ELSE client' = client
      BY <1>2, <2>2, Zenon
    <3> QED BY <2>2, <3>1 DEF Socket
  <2> QED BY <2>1, <2>2
<1> HIDE DEF reply, out, known
<1>8. t.mode # "background" => Pending(t) /\ client.last # n
  <2>1. t.mode # "background" => Pending(t)
    BY <1>1 DEF Pending
  <2> QED BY <2>1, PendingIsLast
<1>9. /\ n = count \/ (client'.known = client.known /\ client'.last = client.last)
      /\ client'.last = n \/ (client'.known = client.known /\ client'.last = client.last)
      /\ client'.last >= client.last
      /\ client'.last = n =>
            /\ t.mode \in Compacting => Words(client'.known) = {}
            /\ t.whole => \A x \in Words(client'.known) : Says(t.sent, x) \/ x \in Words(reply)
  <2>0. client \in AClient /\ client.known \in Seq(AnInput) /\ client.last \in 0..count
        /\ count \in Nat /\ n \in 1..count
    BY <1>1, InvParts, ClientFields, AtAStep
  <2>1. CASE t.mode = "background" /\ client' = [client EXCEPT !.known = known]
    <3>1. client'.known = known /\ client'.last = client.last
      BY <2>0, <2>1 DEF AClient
    <3>2. (client.last = n /\ t.whole) => \A x \in Words(client.known) : Says(t.sent, x)
      <4>1. client.last = n => LeavesWords(t, store[n], client)
        BY DEF WordsInv, Turns
      <4> QED BY <1>1, <4>1 DEF LeavesWords
    <3>3. t.mode \notin Compacting
      BY <2>1 DEF Compacting
    <3>4. CASE count = n
      <4>1. known = client.known \o out
        BY <3>4 DEF known
      <4>2. Words(known) = Words(client.known) \cup Words(out)
        BY <1>3, <2>0, <4>1, WordsOfConcat
      <4>3. client.last >= n
        BY <1>1, <2>1 DEF TurnSays
      <4>4. client.last = n
        BY <2>0, <3>4, <4>3
      <4> QED BY <1>3, <2>0, <3>1, <3>2, <3>3, <3>4, <4>2, <4>4
    <3>5. CASE count # n
      <4>1. client'.known = client.known
        BY <3>1, <3>5 DEF known
      <4> QED BY <2>0, <3>1, <3>2, <3>3, <4>1
    <3> QED BY <3>4, <3>5
  <2>2. CASE t.mode # "background" /\ Learn(n, out)
    <3>1. /\ n = count /\ client'.last = n
          /\ t.mode \in Compacting => Words(client'.known) = Words(out)
          /\ t.mode \notin Compacting => Words(client'.known) = Words(t.said) \cup Words(out)
      BY <1>1, <1>3, <1>8, <2>2, LearnSays
    <3>2. t.mode \in Compacting => Words(client'.known) = {}
      BY <1>3, <1>4, <3>1
    <3>3. t.whole => \A x \in Words(t.said) : Says(t.sent, x)
      BY <1>1 DEF TurnSays
    <3>4. client'.last >= client.last
      BY <2>0, <3>1
    <3> QED BY <1>3, <3>1, <3>2, <3>3, <3>4
  <2>3. CASE t.mode # "background" /\ client' = client
    BY <1>8, <2>0, <2>3
  <2> QED BY <1>7, <2>1, <2>2, <2>3
<1>10. t.mode # "warmup"
  BY <1>1 DEF TurnAnswers
<1>11. CASE ~Puts(t)
  <2>1. t.mode # "background" /\ store[n] = Missing
    BY <1>1, <1>6, <1>11, InvParts DEF TurnHasTools
  <2>2. turns'[n] = over /\ over.pc = "over" /\ over.mode = t.mode
    BY <1>1, <1>5, <1>11, EndedTurn
  <2>3. TurnSays(n, over, store[n], client')
    BY <1>1, <2>1, EndedSays
  <2> HIDE DEF over
  <2>4. client'.last = n => LeavesWords(over, store[n], client')
    BY <1>9, <2>1, <2>2 DEF LeavesWords
  <2> QED BY <1>5, <1>9, <2>2, <2>3, <2>4, WordsSteps
<1>12. CASE Puts(t)
  <2>1. turns'[n] = put
    BY <1>5, <1>12
  <2>2. /\ put.pc = pc /\ put.mode = t.mode /\ put.reply = reply /\ put.new = t.new
        /\ put.sent = t.sent /\ put.whole = t.whole /\ put.said = t.said
    <3> HIDE DEF pc
    <3> QED BY <1>1 DEF ATurn
  <2> HIDE DEF put
  <2>3. Pending(put) /\ t.mode # "background" => client' = client /\ Pending(t)
    <3> SUFFICES ASSUME Pending(put), t.mode # "background" PROVE client' = client /\ Pending(t)
      OBVIOUS
    <3>1. t.mode \in {"whole", "compaction"}
      BY <2>2 DEF Pending
    <3> QED BY <1>1, <1>7, <1>12, <3>1 DEF Pending
  <2>4. t.mode = "background" => ~Pending(put)
    BY <2>2 DEF Pending
  <2>5. Pending(put) => put.said = client'.known \o put.new
    BY <1>1, <2>2, <2>3, <2>4 DEF TurnSays
  <2>6. pc \in {"put", "put_tools"}
    OBVIOUS
  <2> HIDE DEF pc
  <2>7. TurnSays(n, put, store[n], client')
    BY <1>1, <1>4, <2>2, <2>5, <2>6 DEF TurnSays
  <2>8. client'.last = n => LeavesWords(put, store[n], client')
    BY <1>9, <1>10, <2>2, <2>6 DEF LeavesWords
  <2> QED BY <1>5, <1>9, <2>1, <2>7, <2>8, WordsSteps
<1> QED BY <1>11, <1>12

LEMMA ConvertSays ==
    ASSUME Inv, RoundsInv, WordsInv, budget.messages = 0, NEW n \in Turns, Convert(n)
    PROVE  WordsInv'
<1> DEFINE t == turns[n]
           pc == CASE t.mode = "background" -> "first_put"
                   [] t.mode = "warmup"     -> "put_tools"
                   [] OTHER                 -> "upstream"
           sent == enforce_budgets(Converted(n), budget)
           tools == Offered(t)
           whole == t.prev # 0 => Settled(t.prev) /\ Complete(turns[t.prev])
           new == [t EXCEPT !.pc = pc, !.sent = sent, !.tools = tools, !.whole = whole]
<1>1. t.pc = "convert" /\ t \in ATurn /\ TurnSays(n, t, store[n], client) /\ Pending(t)
  BY AtAStep DEF Convert, WordsInv, Pending
<1>2. pc = IF t.mode = "background" THEN "first_put"
           ELSE IF t.mode = "warmup" THEN "put_tools" ELSE "upstream"
  OBVIOUS
<1>3. whole => Quiet(sent) /\ \A x \in Words(t.said) : Says(sent, x)
  BY <1>1, ConvertedSays
<1> HIDE DEF pc, sent, whole, tools
<1>4. /\ turns'[n] = new /\ store' = store /\ OnlyTurn(n)
      /\ IF t.mode = "warmup" THEN Learn(n, <<>>) ELSE client' = client
  <2>1. /\ turns' = [turns EXCEPT ![n] = new]
        /\ count' = count /\ store' = store /\ registry' = registry /\ budget' = budget
        /\ IF t.mode = "warmup" THEN Learn(n, <<>>) ELSE client' = client
    BY Zenon DEF Convert, pc, sent, whole, tools
  <2> HIDE DEF new
  <2> QED BY <2>1, OnlyTurnN
<1>5. /\ new.pc = pc /\ new.mode = t.mode /\ new.reply = t.reply /\ new.new = t.new
      /\ new.sent = sent /\ new.whole = whole /\ new.said = t.said
  BY <1>1 DEF ATurn
<1> HIDE DEF new
<1>6. CASE t.mode = "warmup"
  <2>1. n = count /\ client'.last = n /\ Words(client'.known) = Words(t.said)
    BY <1>1, <1>4, <1>6, NoWords, LearnSays DEF Compacting
  <2>2. ~Pending(new)
    BY <1>2, <1>5, <1>6 DEF Pending
  <2>3. TurnSays(n, new, store[n], client')
    BY <1>1, <1>2, <1>3, <1>5, <1>6, <2>2 DEF TurnSays
  <2>4. LeavesWords(new, store[n], client')
    BY <1>2, <1>3, <1>5, <1>6, <2>1 DEF LeavesWords, Compacting
  <2> QED BY <1>4, <2>1, <2>3, <2>4, WordsSteps
<1>7. CASE t.mode # "warmup"
  <2>1. client' = client /\ client.last # n
    BY <1>1, <1>4, <1>7, PendingIsLast
  <2>2. TurnSays(n, new, store[n], client)
    BY <1>1, <1>2, <1>3, <1>5, <1>7 DEF TurnSays
  <2> QED BY <1>4, <2>1, <2>2, WordsSteps
<1> QED BY <1>6, <1>7

LEMMA BeginSays ==
    ASSUME Inv, WordsInv, NEW mode \in Mode, Begin(mode)
    PROVE  WordsInv'
<1> DEFINE n == count + 1
           inline == IF Continues(mode) THEN <<>> ELSE client.known
           prev == IF Continues(mode) THEN client.last ELSE 0
<1>1. /\ n \in Turns /\ client.waiting = 0 /\ client' = [client EXCEPT !.waiting = n]
      /\ store' = store
  BY DEF Begin
<1>2. PICK new \in News(n, mode), instructs \in BOOLEAN, declares \in BOOLEAN :
         turns' = [turns EXCEPT ![n] =
            [NoTurn EXCEPT
                !.pc = "convert", !.mode = mode, !.new = new, !.prev = prev,
                !.given = IF instructs THEN <<Item("instructions", n)>> ELSE <<>>,
                !.input = inline \o new,
                !.tools = IF declares THEN n
                          ELSE IF Continues(mode) THEN 0 ELSE client.tools,
                !.said = client.known \o new,
                !.expected = IF declares THEN n ELSE client.tools]]
  BY ZenonT(60) DEF Begin
<1> DEFINE given == IF instructs THEN <<Item("instructions", n)>> ELSE <<>>
           tools == IF declares THEN n ELSE IF Continues(mode) THEN 0 ELSE client.tools
           expected == IF declares THEN n ELSE client.tools
           input == inline \o new
           said == client.known \o new
           t == [NoTurn EXCEPT !.pc = "convert", !.mode = mode, !.new = new, !.prev = prev,
                               !.given = given, !.input = input, !.tools = tools,
                               !.said = said, !.expected = expected]
<1>3. turns' = [turns EXCEPT ![n] = t]
  BY <1>2, Zenon
<1>4. /\ n \in Nat /\ n # 0 /\ client \in AClient /\ client.known \in Seq(AnInput)
      /\ client.last \in 0..count /\ count \in Nat /\ DOMAIN turns = Turns
  BY <1>1, InvParts, ClientFields
<1>5. prev = 0 => input = said
  BY DEF Continues
<1>6. said = client.known \o new
  OBVIOUS
<1> HIDE DEF given, tools, expected, input, said, prev
<1>7. /\ t.pc = "convert" /\ t.mode = mode /\ t.new = new /\ t.prev = prev /\ t.input = input
      /\ t.reply = <<>> /\ t.said = said
  BY DEF NoTurn
<1> HIDE DEF t
<1>8. client'.known = client.known /\ client'.last = client.last
  BY <1>1, <1>4 DEF AClient
<1>9. turns'[n] = t /\ \A m \in Turns : m # n => turns'[m] = turns[m]
  BY <1>1, <1>3, <1>4
<1>10. TurnSays(n, t, store[n], client')
  <2>1. \A i \in 1..Len(t.reply) : FALSE
    BY <1>7
  <2> QED BY <1>5, <1>6, <1>7, <1>8, <2>1 DEF TurnSays
<1>11. \A m \in Turns : TurnSays(m, turns'[m], store'[m], client')
  <2> TAKE m \in Turns
  <2>1. CASE m = n
    BY <1>1, <1>9, <1>10, <2>1
  <2>2. CASE m # n
    <3>1. TurnSays(m, turns[m], store[m], client)
      BY DEF WordsInv
    <3>2. TurnSays(m, turns[m], store[m], client')
      BY <1>8, <3>1 DEF TurnSays
    <3> QED BY <1>1, <1>9, <2>2, <3>2
  <2> QED BY <2>1, <2>2
<1>12. ASSUME client'.last # 0
       PROVE  LeavesWords(turns'[client'.last], store'[client'.last], client')
  <2>1. client.last \in Turns /\ client.last # n
    BY <1>1, <1>4, <1>8, <1>12 DEF Turns
  <2>2. LeavesWords(turns[client.last], store[client.last], client)
    BY <1>8, <1>12 DEF WordsInv
  <2>3. LeavesWords(turns[client.last], store[client.last], client')
    BY <1>8, <2>2 DEF LeavesWords
  <2> QED BY <1>1, <1>8, <1>9, <2>1, <2>3
<1> QED BY <1>11, <1>12 DEF WordsInv

LEMMA InitSays ==
    ASSUME Init
    PROVE  WordsInv
<1>1. /\ \A n \in Turns : turns[n] = NoTurn /\ store[n] = Missing
      /\ client.last = 0
  BY DEF Init
<1>2. NoTurn.pc = "none" /\ NoTurn.reply = <<>>
  BY DEF NoTurn
<1>3. \A i \in 1..Len(NoTurn.reply) : FALSE
  BY <1>2
<1>4. \A n : TurnSays(n, NoTurn, Missing, client)
  BY <1>2, <1>3 DEF TurnSays, Pending
<1> QED BY <1>1, <1>4 DEF WordsInv

\* Without a limit on messages.
Unlimited == budget.messages = 0

LEMMA WordsKept ==
    ASSUME CallsTogether, Inv, RoundsInv, Unlimited => WordsInv, [Next]_vars
    PROVE  Unlimited' => WordsInv'
<1>1. budget' = budget
  BY DEF Next, vars, Begin, Convert, FirstPut, Reply, Fail, PutTools, Put
<1> SUFFICES ASSUME Unlimited, WordsInv PROVE WordsInv'
  BY <1>1 DEF Unlimited
<1>2. CASE UNCHANGED vars
  <2>1. turns' = turns /\ store' = store /\ client' = client
    BY <1>2 DEF vars
  <2>2. \A n \in Turns : TurnSays(n, turns'[n], store'[n], client')
    BY <2>1 DEF WordsInv
  <2>3. client'.last # 0 => LeavesWords(turns'[client'.last], store'[client'.last], client')
    BY <2>1 DEF WordsInv
  <2> QED BY <2>2, <2>3 DEF WordsInv
<1>3. CASE Next
  BY <1>3, BeginSays, ConvertSays, FirstPutSays, ReplySays, FailSays, PutToolsSays, PutSays
     DEF Next, Unlimited
<1> QED BY <1>2, <1>3

LEMMA WordsHold == CallsTogether => (Spec => [](Unlimited => WordsInv))
<1> SUFFICES ASSUME CallsTogether PROVE Spec => [](Unlimited => WordsInv)
  OBVIOUS
<1>1. Inv /\ RoundsInv /\ (Unlimited => WordsInv) /\ [Next]_vars => (Unlimited => WordsInv)'
  BY WordsKept
<1>2. Init => (Unlimited => WordsInv)
  BY InitSays
<1>3. Spec => []RoundsInv
  BY RoundsHold
<1> QED BY <1>1, <1>2, <1>3, InvHolds, PTL DEF Spec

\* Without a limit on messages, all that the user, the upstream and the tools have
\* said since the last summary is sent again, over any chain of modes, by id or
\* inline (Restored, responses_to_chat, what each mode puts).
THEOREM NothingSaidIsLost == CallsTogether => (Spec => []WordsAreSent)
<1> SUFFICES ASSUME CallsTogether PROVE Spec => []WordsAreSent
  OBVIOUS
<1>1. ASSUME Inv, Unlimited => WordsInv PROVE WordsAreSent
  <2> SUFFICES ASSUME NEW n \in Asking, Unlimited, NEW x \in ToSet(turns[n].said),
                      x.kind \in {"user", "text", "call", "output"}
               PROVE  Contains(Flatten(turns[n].sent), x)
    BY DEF WordsAreSent, Unlimited
  <2> DEFINE t == turns[n]
  <2>1. n \in Turns /\ t.pc = "upstream" /\ t.whole
    BY DEF Asking, Asks
  <2>2. x \in Words(t.said)
    BY DEF Words, WordKind
  <2>3. Says(t.sent, x)
    BY <1>1, <2>1, <2>2 DEF WordsInv, TurnSays
  <2>4. t.sent \in Seq(AMessage)
    BY <1>1, <2>1, InvParts DEF TurnIsTyped, Headed
  <2> QED BY <2>3, <2>4, SaysFlatten
<1> QED BY <1>1, InvHolds, WordsHold, PTL

\* So the dialogue goes on where it was.
THEOREM TheDialogueGoesOn == CallsTogether => (Spec => []DialogueIsSent)
<1>1. WordsAreSent /\ CallsPrecedeOutputs => DialogueIsSent
  BY DEF DialogueIsSent
<1> QED BY <1>1, NothingSaidIsLost, AnswersFollowCalls, PTL
=============================================================================
