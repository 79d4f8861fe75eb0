------------------------- MODULE ContextWindowProof -------------------------
(***************************************************************************)
(* What ContextWindow promises for every configuration, every number of    *)
(* requests for the list, every outage, every limit and every conversation:*)
(* that each listed window is the model's own, that what a turn reports is *)
(* at least what was estimated, and that a client that replays its         *)
(* conversation compacts it in time.                                       *)
(*                                                                         *)
(* A conversation weighs what its items weigh: calls and reasoning nothing,*)
(* old outputs less. The cutoff before which outputs are old only grows    *)
(* with the conversation, so the whole weighs no more than its parts. The  *)
(* upstream counts at least a token for each four bytes that it is sent,   *)
(* and what is taken out before is scaled back, but for one byte.          *)
(***************************************************************************)
EXTENDS ContextWindow, SequenceLemmas, FiniteSetTheorems

USE ChatMessagesAssumption, ContextWindowAssumption

-----------------------------------------------------------------------------
(* Sums                                                                    *)

\* f is the function by which Total is defined.
Sums(f, w) == /\ f \in [0..Len(w) -> Nat] /\ f[0] = 0
              /\ \A i \in 1..Len(w) : f[i] = f[i - 1] + w[i]

\* A sum is reached one number at a time.
LEMMA TotalIs ==
    ASSUME NEW w \in Seq(Nat)
    PROVE  \E f : Sums(f, w) /\ Total(w) = f[Len(w)]
<1> DEFINE n == Len(w)
           Solves(f) == f = [i \in 0..n |-> IF i = 0 THEN 0 ELSE f[i - 1] + w[i]]
           sum == CHOOSE f : Solves(f)
           st == [p \in (1..n) \X Nat |-> p[2] + w[p[1]]]
<1>1. n \in Nat /\ \A i \in 1..n : w[i] \in Nat
  OBVIOUS
<1>2. Total(w) = sum[n]
  BY DEF Total
<1> HIDE DEF n
<1>3. st \in [(1..n) \X Nat -> Nat] /\ \A i \in 1..n : \A x \in Nat : st[<<i, x>>] = x + w[i]
  BY <1>1
<1> HIDE DEF st
<1>4. PICK f \in [0..n -> Nat] : f[0] = 0 /\ \A i \in 1..n : f[i] = st[<<i, f[i - 1]>>]
  <2>1. \E f : Recurses(f, n, Nat, 0, st)
    BY <1>1, <1>3, RecursionExists
  <2> QED BY <2>1 DEF Recurses
<1>5. \A i \in 0..n : f[i] = IF i = 0 THEN 0 ELSE f[i - 1] + w[i]
  <2> TAKE i \in 0..n
  <2>1. CASE i = 0
    BY <2>1, <1>4
  <2>2. CASE i # 0
    <3>1. i \in 1..n /\ f[i - 1] \in Nat
      BY <2>2, <1>1, <1>4
    <3> QED BY <3>1, <2>2, <1>3, <1>4
  <2> QED BY <2>1, <2>2
<1>6. Solves(f)
  <2> DEFINE g == [i \in 0..n |-> IF i = 0 THEN 0 ELSE f[i - 1] + w[i]]
  <2>1. DOMAIN f = 0..n /\ f = [i \in 0..n |-> f[i]]
    BY <1>4
  <2>2. f = g
    BY <1>5, <2>1, Zenon
  <2> QED BY <2>2, Zenon
<1>7. Solves(sum)
  BY <1>6, Zenon
<1>8. sum \in [0..n -> Nat] /\ sum[0] = 0 /\ \A i \in 1..n : sum[i] = sum[i - 1] + w[i]
  <2> DEFINE g == [i \in 0..n |-> IF i = 0 THEN 0 ELSE sum[i - 1] + w[i]]
  <2>1. sum = g
    BY <1>7, Zenon
  <2>2. \A i \in 0..n : g[i] = IF i = 0 THEN 0 ELSE sum[i - 1] + w[i]
    <3> HIDE DEF sum
    <3> QED OBVIOUS
  <2>3. DOMAIN g = 0..n /\ g = [i \in 0..n |-> g[i]]
    <3> HIDE DEF sum
    <3> QED OBVIOUS
  <2> HIDE DEF g, sum
  <2>4. \A i \in 0..n : sum[i] = IF i = 0 THEN 0 ELSE sum[i - 1] + w[i]
    BY <2>1, <2>2, Zenon
  <2>5. sum[0] = 0 /\ \A i \in 1..n : sum[i] = sum[i - 1] + w[i]
    BY <1>1, <2>4
  <2> DEFINE G == {i \in Nat : i <= n => sum[i] \in Nat}
  <2>6. 0 \in G
    BY <2>5
  <2>7. \A i \in Nat : i \in G => i + 1 \in G
    <3> SUFFICES ASSUME NEW i \in Nat, i \in G, i + 1 <= n PROVE sum[i + 1] \in Nat
      OBVIOUS
    <3>1. i + 1 \in 1..n /\ (i + 1) - 1 = i /\ i <= n
      BY <1>1
    <3>2. sum[i + 1] = sum[i] + w[i + 1] /\ w[i + 1] \in Nat
      BY ONLY <1>1, <2>5, <3>1
    <3> QED BY <3>1, <3>2
  <2> HIDE DEF G
  <2>10. G = Nat
    BY <2>6, <2>7, Inductive DEF G
  <2>8. \A i \in 0..n : sum[i] \in Nat
    <3> TAKE i \in 0..n
    <3>1. i \in Nat /\ i <= n
      BY <1>1
    <3> QED BY <3>1, <2>10 DEF G
  <2>9. DOMAIN sum = 0..n /\ sum = [i \in 0..n |-> sum[i]]
    BY <2>1, <2>3, Zenon
  <2> QED BY <2>5, <2>8, <2>9
<1> HIDE DEF sum
<1> QED BY <1>2, <1>8 DEF Sums, n

LEMMA TotalType ==
    ASSUME NEW w \in Seq(Nat)
    PROVE  Total(w) \in Nat
BY TotalIs DEF Sums

LEMMA TotalEmpty == Total(<<>>) = 0
<1>1. <<>> \in Seq(Nat) /\ Len(<<>>) = 0
  OBVIOUS
<1> QED BY <1>1, TotalIs DEF Sums

\* Sums may be regrouped, and sums of quarters are quarters of sums.
LEMMA Adding ==
    /\ \A x, y, z \in Nat : (x + y) + z = x + (y + z)
    /\ \A x, y, a, b \in Nat : x <= 4 * a /\ y <= 4 * b => x + y <= 4 * (a + b)
OBVIOUS

\* The sum of two sequences put together is the sum of their sums.
LEMMA TotalConcat ==
    ASSUME NEW u \in Seq(Nat), NEW v \in Seq(Nat)
    PROVE  Total(u \o v) = Total(u) + Total(v)
<1> DEFINE w == u \o v
           m == Len(u)
           n == Len(v)
<1>1. /\ w \in Seq(Nat) /\ m \in Nat /\ n \in Nat /\ Len(w) = m + n
      /\ \A i \in 1..m : w[i] = u[i]
      /\ \A i \in 1..n : w[m + i] = v[i] /\ v[i] \in Nat
  OBVIOUS
<1>2. PICK f : Sums(f, u) /\ Total(u) = f[m]
  BY TotalIs
<1>3. PICK g : Sums(g, v) /\ Total(v) = g[n]
  BY TotalIs
<1>4. PICK h : Sums(h, w) /\ Total(w) = h[m + n]
  BY <1>1, TotalIs
<1> HIDE DEF w, m, n
<1>5. /\ f \in [0..m -> Nat] /\ f[0] = 0 /\ \A i \in 1..m : f[i] = f[i - 1] + u[i]
      /\ g \in [0..n -> Nat] /\ g[0] = 0 /\ \A i \in 1..n : g[i] = g[i - 1] + v[i]
      /\ h[0] = 0 /\ \A i \in 1..(m + n) : h[i] = h[i - 1] + w[i]
  BY <1>1, <1>2, <1>3, <1>4 DEF Sums, m, n
<1> DEFINE F == {i \in Nat : i <= m => h[i] = f[i]}
<1>6. 0 \in F
  BY <1>5
<1>7. \A i \in Nat : i \in F => i + 1 \in F
  <2> SUFFICES ASSUME NEW i \in Nat, i \in F, i + 1 <= m PROVE h[i + 1] = f[i + 1]
    OBVIOUS
  <2>1. i + 1 \in 1..m /\ i + 1 \in 1..(m + n) /\ (i + 1) - 1 = i
    BY <1>1
  <2>2. h[i + 1] = h[i] + w[i + 1] /\ f[i + 1] = f[i] + u[i + 1] /\ w[i + 1] = u[i + 1]
    BY ONLY <1>1, <1>5, <2>1
  <2> QED BY <1>1, <2>2
<1> HIDE DEF F
<1>8. h[m] = f[m] /\ f[m] \in Nat
  <2>1. F = Nat
    BY <1>6, <1>7, Inductive DEF F
  <2>2. m \in F /\ m \in 0..m
    BY <1>1, <2>1
  <2> QED BY <2>2, <1>5 DEF F
<1> DEFINE G == {i \in Nat : i <= n => h[m + i] = f[m] + g[i]}
<1>9. 0 \in G
  BY <1>1, <1>5, <1>8
<1>10. \A i \in Nat : i \in G => i + 1 \in G
  <2> SUFFICES ASSUME NEW i \in Nat, i \in G, i + 1 <= n
               PROVE  h[m + (i + 1)] = f[m] + g[i + 1]
    OBVIOUS
  <2>1. /\ i + 1 \in 1..n /\ m + (i + 1) \in 1..(m + n) /\ (i + 1) - 1 = i
        /\ (m + (i + 1)) - 1 = m + i /\ i \in 0..n
    BY <1>1
  <2>2. h[m + (i + 1)] = h[m + i] + v[i + 1] /\ g[i + 1] = g[i] + v[i + 1]
    BY ONLY <1>1, <1>5, <2>1
  <2>3. v[i + 1] \in Nat /\ g[i] \in Nat
    BY ONLY <1>1, <1>5, <2>1
  <2>4. h[m + i] = f[m] + g[i]
    BY <2>1, <1>1
  <2> HIDE DEF G
  <2>5. (f[m] + g[i]) + v[i + 1] = f[m] + (g[i] + v[i + 1])
    BY ONLY <1>8, <2>3, Adding, Zenon
  <2> QED BY ONLY <2>2, <2>4, <2>5, Zenon
<1> HIDE DEF G
<1>11. h[m + n] = f[m] + g[n]
  <2>1. G = Nat
    BY <1>9, <1>10, Inductive DEF G
  <2>2. n \in G
    BY <1>1, <2>1
  <2> QED BY <2>2 DEF G
<1> QED BY <1>2, <1>3, <1>4, <1>11 DEF w

LEMMA TotalOne ==
    ASSUME NEW x \in Nat
    PROVE  Total(<<x>>) = x
<1>1. <<x>> \in Seq(Nat) /\ Len(<<x>>) = 1 /\ <<x>>[1] = x
  OBVIOUS
<1>2. PICK f : Sums(f, <<x>>) /\ Total(<<x>>) = f[1]
  BY <1>1, TotalIs
<1>3. f[0] = 0 /\ f[1] = f[0] + x
  BY <1>1, <1>2 DEF Sums
<1> QED BY <1>2, <1>3

LEMMA TotalAppend ==
    ASSUME NEW w \in Seq(Nat), NEW x \in Nat
    PROVE  Total(Append(w, x)) = Total(w) + x
<1>1. Append(w, x) = w \o <<x>> /\ <<x>> \in Seq(Nat)
  OBVIOUS
<1>2. Total(w \o <<x>>) = Total(w) + Total(<<x>>)
  BY <1>1, TotalConcat
<1> QED BY <1>1, <1>2, TotalOne

\* A sum is monotone, and at most k times one whose parts are.
LEMMA TotalAtMost ==
    ASSUME NEW u \in Seq(Nat), NEW v \in Seq(Nat), Len(u) = Len(v), NEW k \in {1, 4},
           \A i \in 1..Len(u) : u[i] <= k * v[i]
    PROVE  Total(u) <= k * Total(v)
<1> DEFINE n == Len(u)
<1>1. PICK f : Sums(f, u) /\ Total(u) = f[n]
  BY TotalIs
<1>2. PICK g : Sums(g, v) /\ Total(v) = g[n]
  BY TotalIs
<1> HIDE DEF n
<1>3. /\ n \in Nat
      /\ f \in [0..n -> Nat] /\ f[0] = 0 /\ \A i \in 1..n : f[i] = f[i - 1] + u[i]
      /\ g \in [0..n -> Nat] /\ g[0] = 0 /\ \A i \in 1..n : g[i] = g[i - 1] + v[i]
      /\ \A i \in 1..n : u[i] \in Nat /\ v[i] \in Nat /\ u[i] <= k * v[i]
  BY <1>1, <1>2 DEF Sums, n
<1> DEFINE G == {i \in Nat : i <= n => f[i] <= k * g[i]}
<1>4. 0 \in G
  BY <1>3
<1>5. \A i \in Nat : i \in G => i + 1 \in G
  <2> SUFFICES ASSUME NEW i \in Nat, i \in G, i + 1 <= n PROVE f[i + 1] <= k * g[i + 1]
    OBVIOUS
  <2>1. i + 1 \in 1..n /\ (i + 1) - 1 = i /\ i \in 0..n
    BY <1>3
  <2>2. f[i + 1] = f[i] + u[i + 1] /\ g[i + 1] = g[i] + v[i + 1]
    BY ONLY <1>3, <2>1
  <2>5. /\ f[i] \in Nat /\ g[i] \in Nat /\ u[i + 1] \in Nat /\ v[i + 1] \in Nat
        /\ u[i + 1] <= k * v[i + 1]
    BY ONLY <1>3, <2>1
  <2>6. f[i] <= k * g[i]
    BY <1>3, <2>1
  <2> HIDE DEF G
  <2>3. CASE k = 1
    BY ONLY <2>2, <2>5, <2>6, <2>3
  <2>4. CASE k = 4
    <3>1. f[i] <= 4 * g[i] /\ u[i + 1] <= 4 * v[i + 1]
      BY ONLY <2>4, <2>5, <2>6
    <3>2. f[i] + u[i + 1] <= 4 * (g[i] + v[i + 1])
      BY ONLY <3>1, <2>5, Adding, Zenon
    <3>3. f[i + 1] <= 4 * g[i + 1]
      BY ONLY <3>2, <2>2, Zenon
    <3> QED BY ONLY <3>3, <2>4
  <2> QED BY <2>3, <2>4
<1> HIDE DEF G
<1>6. f[n] <= k * g[n]
  <2>1. G = Nat
    BY <1>4, <1>5, Inductive DEF G
  <2>2. n \in G
    BY <1>3, <2>1
  <2> QED BY <2>2, <1>3 DEF G
<1> QED BY <1>1, <1>2, <1>6

\* Each part is at most the sum.
LEMMA PartAtMost ==
    ASSUME NEW w \in Seq(Nat), NEW i \in 1..Len(w)
    PROVE  w[i] <= Total(w)
<1> DEFINE n == Len(w)
<1>1. PICK f : Sums(f, w) /\ Total(w) = f[n]
  BY TotalIs
<1> HIDE DEF n
<1>2. /\ n \in Nat /\ f \in [0..n -> Nat] /\ \A j \in 1..n : f[j] = f[j - 1] + w[j]
      /\ \A j \in 1..n : w[j] \in Nat
      /\ i \in 1..n
  BY <1>1 DEF Sums, n
<1> DEFINE G == {j \in Nat : i + j <= n => w[i] <= f[i + j]}
<1>3. 0 \in G
  <2>1. f[i] = f[i - 1] + w[i] /\ f[i - 1] \in Nat /\ w[i] \in Nat /\ i + 0 = i
    BY <1>2
  <2> QED BY <2>1
<1>4. \A j \in Nat : j \in G => j + 1 \in G
  <2> SUFFICES ASSUME NEW j \in Nat, j \in G, i + (j + 1) <= n PROVE w[i] <= f[i + (j + 1)]
    OBVIOUS
  <2>1. i + (j + 1) \in 1..n /\ (i + (j + 1)) - 1 = i + j /\ i + j \in 0..n
    BY <1>2
  <2>2. /\ f[i + (j + 1)] = f[i + j] + w[i + (j + 1)]
        /\ f[i + j] \in Nat /\ w[i + (j + 1)] \in Nat /\ w[i] \in Nat
    BY ONLY <1>2, <2>1
  <2>3. w[i] <= f[i + j]
    BY <1>2, <2>1
  <2> HIDE DEF G
  <2> QED BY <2>2, <2>3
<1> HIDE DEF G
<1>5. n - i \in Nat /\ i + (n - i) = n
  BY <1>2
<1>6. w[i] <= f[n]
  <2>1. G = Nat
    BY <1>3, <1>4, Inductive DEF G
  <2>2. n - i \in G
    BY <1>5, <2>1
  <2> QED BY <2>2, <1>2, <1>5 DEF G
<1> QED BY <1>1, <1>6

-----------------------------------------------------------------------------
(* What items and messages weigh                                           *)

Spoken == {"user", "reasoning", "text", "call", "output", "summary"}
AnItem == [kind : Spoken, turn : Nat, call : Nat \X Nat]
Role == {"system", "user", "assistant", "tool"}
AMessage == [role : Role, body : Seq(AnItem), cut : BOOLEAN]

\* The bytes of a message's items, and of each message.
Parts(m) == [j \in DOMAIN m.body |-> item_chars(m.body[j], m.cut)]
Sizes(ms) == [i \in DOMAIN ms |-> count_message_chars(ms[i])]

\* What an item counts: nothing, a short text, or a whole output.
LEMMA ItemChars ==
    ASSUME NEW item, NEW cut
    PROVE  /\ item_chars(item, cut) \in {0, 5, 13} /\ item_chars(item, cut) \in Nat
           /\ item.kind \in {"call", "reasoning"} => item_chars(item, cut) = 0
           /\ item.kind # "output" => item_chars(item, cut) \in {0, 5}
           /\ item.kind = "output" /\ ~cut => item_chars(item, cut) = 13
           /\ item.kind = "output" /\ cut => item_chars(item, cut) = 5
           /\ item.kind = "user" /\ item.turn \notin Silent => item_chars(item, cut) = 5
BY DEF item_chars, LongText, ShortText

\* A message counts what its items do.
LEMMA PartsAre ==
    ASSUME NEW m \in AMessage
    PROVE  /\ Parts(m) \in Seq(Nat) /\ Len(Parts(m)) = Len(m.body)
           /\ \A j \in 1..Len(m.body) : Parts(m)[j] = item_chars(m.body[j], m.cut)
           /\ count_message_chars(m) = Total(Parts(m))
           /\ count_message_chars(m) \in Nat
<1>1. m.body \in Seq(AnItem)
  BY DEF AMessage
<1>2. DOMAIN m.body = 1..Len(m.body) /\ Len(m.body) \in Nat
  BY <1>1
<1>3. \A j \in 1..Len(m.body) : item_chars(m.body[j], m.cut) \in Nat
  BY ItemChars
<1>4. /\ Parts(m) \in Seq(Nat) /\ Len(Parts(m)) = Len(m.body)
      /\ \A j \in 1..Len(m.body) : Parts(m)[j] = item_chars(m.body[j], m.cut)
  BY <1>2, <1>3 DEF Parts
<1>5. count_message_chars(m) = Total(Parts(m))
  BY DEF count_message_chars, Parts
<1>6. Total(Parts(m)) \in Nat
  BY <1>4, TotalType
<1> QED BY <1>4, <1>5, <1>6

\* Messages count what each of them does.
LEMMA SizesAre ==
    ASSUME NEW ms \in Seq(AMessage)
    PROVE  /\ Sizes(ms) \in Seq(Nat) /\ Len(Sizes(ms)) = Len(ms)
           /\ \A i \in 1..Len(ms) : Sizes(ms)[i] = count_message_chars(ms[i])
           /\ content_chars(ms) = Total(Sizes(ms))
           /\ content_chars(ms) \in Nat
<1>1. DOMAIN ms = 1..Len(ms) /\ Len(ms) \in Nat
  OBVIOUS
<1>2. \A i \in 1..Len(ms) : count_message_chars(ms[i]) \in Nat
  BY PartsAre
<1>3. /\ Sizes(ms) \in Seq(Nat) /\ Len(Sizes(ms)) = Len(ms)
      /\ \A i \in 1..Len(ms) : Sizes(ms)[i] = count_message_chars(ms[i])
  BY <1>1, <1>2 DEF Sizes
<1>4. content_chars(ms) = Total(Sizes(ms))
  BY DEF content_chars, Sizes
<1>5. Total(Sizes(ms)) \in Nat
  BY <1>3, TotalType
<1> QED BY <1>3, <1>4, <1>5

\* Two sequences of numbers that agree are the same.
LEMMA SameNumbers ==
    ASSUME NEW u \in Seq(Nat), NEW v \in Seq(Nat), Len(u) = Len(v),
           \A i \in 1..Len(u) : u[i] = v[i]
    PROVE  u = v
OBVIOUS

LEMMA NumbersTogether ==
    ASSUME NEW a \in Seq(Nat), NEW b \in Seq(Nat)
    PROVE  /\ a \o b \in Seq(Nat) /\ Len(a \o b) = Len(a) + Len(b)
           /\ \A i \in 1..Len(a) : (a \o b)[i] = a[i]
           /\ \A i \in 1..Len(b) : (a \o b)[Len(a) + i] = b[i]
OBVIOUS

LEMMA ConcatOfNumbers ==
    ASSUME NEW a \in Seq(Nat), NEW b \in Seq(Nat), NEW c \in Seq(Nat),
           Len(c) = Len(a) + Len(b),
           \A i \in 1..Len(a) : c[i] = a[i],
           \A i \in 1..Len(b) : c[Len(a) + i] = b[i]
    PROVE  c = a \o b
<1> DEFINE d == a \o b
<1>1. /\ d \in Seq(Nat) /\ Len(d) = Len(a) + Len(b)
      /\ \A i \in 1..Len(a) : d[i] = a[i]
      /\ \A i \in 1..Len(b) : d[Len(a) + i] = b[i]
  OBVIOUS
<1>2. Len(a) \in Nat /\ Len(b) \in Nat
  OBVIOUS
<1> HIDE DEF d
<1>3. ASSUME NEW i \in 1..Len(c) PROVE c[i] = d[i]
  <2>1. CASE i <= Len(a)
    <3>1. i \in 1..Len(a)
      BY <2>1, <1>2
    <3> QED BY <3>1, <1>1
  <2>2. CASE i > Len(a)
    <3>0. i - Len(a) \in 1..Len(b) /\ Len(a) + (i - Len(a)) = i
      BY <2>2, <1>2
    <3>1. PICK k \in 1..Len(b) : i = Len(a) + k
      BY <3>0
    <3> QED BY <3>1, <1>1
  <2>3. i <= Len(a) \/ i > Len(a)
    BY <1>2
  <2> QED BY ONLY <2>1, <2>2, <2>3, Zenon
<1>4. c = d
  BY <1>1, <1>3, SameNumbers
<1> QED BY <1>4 DEF d

LEMMA AppendIs ==
    ASSUME NEW S, NEW a \in Seq(S), NEW x \in S
    PROVE  /\ Append(a, x) \in Seq(S) /\ Len(Append(a, x)) = Len(a) + 1
           /\ Append(a, x)[Len(a) + 1] = x
           /\ \A i \in 1..Len(a) : Append(a, x)[i] = a[i]
OBVIOUS

LEMMA ContentEmpty == content_chars(<<>>) = 0
<1>1. <<>> \in Seq(AMessage) /\ Len(<<>>) = 0
  OBVIOUS
<1>2. Sizes(<<>>) \in Seq(Nat) /\ Len(Sizes(<<>>)) = 0
  BY <1>1, SizesAre
<1>3. Sizes(<<>>) = <<>>
  BY <1>2
<1> QED BY <1>1, <1>3, SizesAre, TotalEmpty

\* Messages put together count what they count apart.
LEMMA ContentConcat ==
    ASSUME NEW ms \in Seq(AMessage), NEW more \in Seq(AMessage)
    PROVE  content_chars(ms \o more) = content_chars(ms) + content_chars(more)
<1> DEFINE all == ms \o more
           a == Sizes(ms)
           b == Sizes(more)
           c == Sizes(all)
<1>1. /\ all \in Seq(AMessage) /\ Len(all) = Len(ms) + Len(more)
      /\ \A i \in 1..Len(ms) : all[i] = ms[i]
      /\ \A i \in 1..Len(more) : all[Len(ms) + i] = more[i]
  OBVIOUS
<1>2. /\ a \in Seq(Nat) /\ Len(a) = Len(ms)
      /\ \A i \in 1..Len(ms) : a[i] = count_message_chars(ms[i])
      /\ content_chars(ms) = Total(a)
  BY SizesAre
<1>3. /\ b \in Seq(Nat) /\ Len(b) = Len(more)
      /\ \A i \in 1..Len(more) : b[i] = count_message_chars(more[i])
      /\ content_chars(more) = Total(b)
  BY SizesAre
<1>4. /\ c \in Seq(Nat) /\ Len(c) = Len(all)
      /\ \A i \in 1..Len(all) : c[i] = count_message_chars(all[i])
      /\ content_chars(all) = Total(c)
  BY <1>1, SizesAre
<1> HIDE DEF all, a, b, c
<1>5. \A i \in 1..Len(a) : c[i] = a[i]
  <2> TAKE i \in 1..Len(a)
  <2>1. i \in 1..Len(ms) /\ i \in 1..Len(all)
    BY <1>1, <1>2
  <2> QED BY ONLY <2>1, <1>1, <1>2, <1>4
<1>6. \A i \in 1..Len(b) : c[Len(a) + i] = b[i]
  <2> TAKE i \in 1..Len(b)
  <2>1. i \in 1..Len(more) /\ Len(ms) + i \in 1..Len(all)
    BY <1>1, <1>3
  <2> QED BY ONLY <2>1, <1>1, <1>2, <1>3, <1>4
<1>7. c = a \o b
  <2>1. Len(c) = Len(a) + Len(b)
    BY <1>1, <1>2, <1>3, <1>4
  <2> QED BY <1>2, <1>3, <1>4, <1>5, <1>6, <2>1, ConcatOfNumbers
<1>8. Total(c) = Total(a) + Total(b)
  BY <1>2, <1>3, <1>7, TotalConcat
<1> QED BY <1>2, <1>3, <1>4, <1>8 DEF all

LEMMA ContentOne ==
    ASSUME NEW m \in AMessage
    PROVE  content_chars(<<m>>) = count_message_chars(m)
<1> DEFINE ms == <<m>>
           w == Sizes(ms)
           x == count_message_chars(m)
<1>1. ms \in Seq(AMessage) /\ Len(ms) = 1 /\ ms[1] = m /\ 1 \in 1..Len(ms)
  OBVIOUS
<1> HIDE DEF ms
<1>2. w \in Seq(Nat) /\ Len(w) = 1 /\ w[1] = x /\ content_chars(ms) = Total(w)
  BY <1>1, SizesAre
<1>3. x \in Nat
  BY PartsAre
<1> HIDE DEF w, x
<1>4. w = <<x>>
  BY <1>2, <1>3
<1> QED BY <1>2, <1>3, <1>4, TotalOne DEF ms, x

LEMMA ContentAppend ==
    ASSUME NEW ms \in Seq(AMessage), NEW m \in AMessage
    PROVE  content_chars(Append(ms, m)) = content_chars(ms) + count_message_chars(m)
<1>1. Append(ms, m) = ms \o <<m>> /\ <<m>> \in Seq(AMessage)
  OBVIOUS
<1> QED BY <1>1, ContentConcat, ContentOne

\* Of the last message, all is counted.
LEMMA LastCounts ==
    ASSUME NEW ms \in Seq(AMessage), ms # <<>>
    PROVE  count_message_chars(ms[Len(ms)]) <= content_chars(ms)
<1>1. Len(ms) \in 1..Len(ms)
  OBVIOUS
<1> QED BY <1>1, SizesAre, PartAtMost

\* A message of one item, and one of items that weigh nothing and one that may.
LEMMA CountOne ==
    ASSUME NEW m \in AMessage, NEW item \in AnItem, m.body = <<item>>
    PROVE  count_message_chars(m) = item_chars(item, m.cut)
<1> DEFINE w == Parts(m)
           x == item_chars(item, m.cut)
<1>1. Len(m.body) = 1 /\ m.body[1] = item /\ 1 \in 1..Len(m.body)
  OBVIOUS
<1>2. w \in Seq(Nat) /\ Len(w) = 1 /\ w[1] = x /\ count_message_chars(m) = Total(w)
  <2>1. /\ w \in Seq(Nat) /\ Len(w) = Len(m.body) /\ count_message_chars(m) = Total(w)
        /\ \A j \in 1..Len(m.body) : w[j] = item_chars(m.body[j], m.cut)
    BY PartsAre
  <2> HIDE DEF w
  <2> QED BY <1>1, <2>1
<1>3. x \in Nat
  BY ItemChars
<1> HIDE DEF w, x
<1>4. w = <<x>>
  BY <1>2, <1>3
<1> QED BY <1>2, <1>3, <1>4, TotalOne DEF x

\* A message of calls and reasoning counts nothing.
LEMMA CountNothing ==
    ASSUME NEW m \in AMessage,
           \A j \in 1..Len(m.body) : m.body[j].kind \in {"call", "reasoning"}
    PROVE  count_message_chars(m) = 0
<1> DEFINE w == Parts(m)
           zero == [j \in 1..Len(m.body) |-> 0]
<1>1. w \in Seq(Nat) /\ Len(w) = Len(m.body) /\ \A j \in 1..Len(w) : w[j] = 0
  BY PartsAre, ItemChars
<1>2. count_message_chars(m) = Total(w)
  BY PartsAre
<1> HIDE DEF w
<1>3. PICK f : Sums(f, w) /\ Total(w) = f[Len(w)]
  BY <1>1, TotalIs
<1>4. Len(w) \in Nat
  BY <1>1
<1> DEFINE G == {j \in Nat : j <= Len(w) => f[j] = 0}
<1>5. 0 \in G
  BY <1>3 DEF Sums
<1>6. \A j \in Nat : j \in G => j + 1 \in G
  <2> SUFFICES ASSUME NEW j \in Nat, j \in G, j + 1 <= Len(w) PROVE f[j + 1] = 0
    OBVIOUS
  <2>1. j + 1 \in 1..Len(w) /\ (j + 1) - 1 = j
    BY <1>4
  <2>2. f[j + 1] = f[j] + w[j + 1] /\ w[j + 1] = 0
    BY ONLY <2>1, <1>1, <1>3 DEF Sums
  <2>3. f[j] = 0
    BY <2>1, <1>4
  <2> QED BY <2>2, <2>3
<1> HIDE DEF G
<1>7. G = Nat
  BY <1>5, <1>6, Inductive DEF G
<1>8. Len(w) \in G
  BY <1>4, <1>7
<1> QED BY <1>2, <1>3, <1>4, <1>8 DEF G

\* Reasoning before a text adds nothing to it.
LEMMA CountAfter ==
    ASSUME NEW before \in Seq(AnItem), NEW item \in AnItem, NEW role \in Role,
           \A j \in 1..Len(before) : before[j].kind \in {"call", "reasoning"}
    PROVE  /\ Message(role, before) \in AMessage
           /\ Message(role, Append(before, item)) \in AMessage
           /\ count_message_chars(Message(role, Append(before, item))) = item_chars(item, FALSE)
<1> DEFINE a == Message(role, before)
           b == Message(role, Append(before, item))
<1>1. Append(before, item) \in Seq(AnItem)
  OBVIOUS
<1>2. /\ a \in AMessage /\ a.body = before /\ a.cut = FALSE
      /\ b \in AMessage /\ b.body = Append(before, item) /\ b.cut = FALSE
  BY <1>1 DEF Message, AMessage
<1> HIDE DEF a, b
<1>3. /\ Parts(a) \in Seq(Nat) /\ Len(Parts(a)) = Len(before)
      /\ \A j \in 1..Len(before) : Parts(a)[j] = item_chars(before[j], FALSE)
      /\ Total(Parts(a)) = 0
  BY <1>2, PartsAre, CountNothing
<1>4. /\ Len(b.body) = Len(before) + 1 /\ b.body[Len(before) + 1] = item
      /\ \A j \in 1..Len(before) : b.body[j] = before[j]
  BY <1>2
<1>5. /\ Parts(b) \in Seq(Nat) /\ Len(Parts(b)) = Len(before) + 1
      /\ \A j \in 1..(Len(before) + 1) : Parts(b)[j] = item_chars(b.body[j], FALSE)
      /\ count_message_chars(b) = Total(Parts(b))
  BY <1>2, <1>4, PartsAre
<1> DEFINE x == item_chars(item, FALSE)
           c == Append(Parts(a), x)
<1>6. x \in Nat
  BY ItemChars
<1>7. Len(before) \in Nat
  OBVIOUS
<1>8. Parts(b) = c
  <2>1. c \in Seq(Nat) /\ Len(c) = Len(before) + 1 /\ c[Len(before) + 1] = x
        /\ \A j \in 1..Len(before) : c[j] = Parts(a)[j]
    <3> DEFINE p == Parts(a)
    <3>1. p \in Seq(Nat) /\ Len(p) = Len(before)
      BY <1>3
    <3> HIDE DEF p, x
    <3>2. /\ Append(p, x) \in Seq(Nat) /\ Len(Append(p, x)) = Len(p) + 1
          /\ Append(p, x)[Len(p) + 1] = x
          /\ \A i \in 1..Len(p) : Append(p, x)[i] = p[i]
      BY <3>1, <1>6, AppendIs
    <3>3. c = Append(p, x)
      BY DEF p
    <3> HIDE DEF c
    <3> QED BY <3>1, <3>2, <3>3 DEF p
  <2>2. \A j \in 1..(Len(before) + 1) : Parts(b)[j] = c[j]
    <3> HIDE DEF c, x
    <3> TAKE j \in 1..(Len(before) + 1)
    <3>1. CASE j = Len(before) + 1
      BY <3>1, <1>4, <1>5, <2>1 DEF x
    <3>2. CASE j # Len(before) + 1
      <4>1. j \in 1..Len(before)
        BY <3>2, <1>7
      <4>2. Parts(b)[j] = item_chars(b.body[j], FALSE) /\ b.body[j] = before[j]
        BY <4>1, <1>4, <1>5
      <4> QED BY <4>1, <4>2, <1>3, <2>1
    <3> QED BY <3>1, <3>2
  <2> HIDE DEF c
  <2> QED BY <1>5, <2>1, <2>2, SameNumbers
<1>9. Total(c) = Total(Parts(a)) + x
  BY <1>3, <1>6, TotalAppend
<1> HIDE DEF c
<1>10. count_message_chars(b) = x
  <2> HIDE DEF x
  <2> QED BY <1>3, <1>5, <1>6, <1>8, <1>9
<1> QED BY <1>2, <1>10 DEF a, b

-----------------------------------------------------------------------------
(* The walk over the items of a request                                    *)

Called == {x \in AnItem : x.kind = "call"}
Reasoned == {x \in AnItem : x.kind = "reasoning"}

AWalk == [messages : Seq(AMessage), deferred : Seq(AMessage),
          calls : Seq(Called), reasoning : Seq(Reasoned)]

\* What a walk has made so far weighs; calls and reasoning weigh nothing.
Weighs(w) == content_chars(w.messages) + content_chars(w.deferred)

\* What an item adds to it; old outputs are cut.
Weight(item, old) ==
    IF item.kind = "summary" /\ ~HasKey THEN 0 ELSE item_chars(item, old)

LEMMA WeightIs ==
    ASSUME NEW item, NEW old
    PROVE  Weight(item, old) \in Nat
BY ItemChars DEF Weight

LEMMA WalkFields ==
    ASSUME NEW w \in AWalk
    PROVE  /\ w.messages \in Seq(AMessage) /\ w.deferred \in Seq(AMessage)
           /\ w.calls \in Seq(Called) /\ w.reasoning \in Seq(Reasoned)
           /\ content_chars(w.messages) \in Nat /\ content_chars(w.deferred) \in Nat
<1>1. /\ w.messages \in Seq(AMessage) /\ w.deferred \in Seq(AMessage)
      /\ w.calls \in Seq(Called) /\ w.reasoning \in Seq(Reasoned)
  BY DEF AWalk
<1> QED BY <1>1, SizesAre

\* A message of reasoning and calls.
LEMMA CallsAreMessage ==
    ASSUME NEW r \in Seq(Reasoned), NEW c \in Seq(Called)
    PROVE  /\ Message("assistant", r \o c) \in AMessage
           /\ count_message_chars(Message("assistant", r \o c)) = 0
<1> DEFINE body == r \o c
           m == Message("assistant", body)
           N == {x \in AnItem : x.kind \in {"call", "reasoning"}}
<1>1. r \in Seq(N) /\ c \in Seq(N)
  <2>1. Reasoned \subseteq N /\ Called \subseteq N
    BY DEF Reasoned, Called
  <2> HIDE DEF N
  <2> QED BY <2>1
<1>2. body \in Seq(N)
  <2> HIDE DEF N
  <2> QED BY <1>1, ConcatProperties
<1>3. body \in Seq(AnItem) /\ \A j \in 1..Len(body) : body[j].kind \in {"call", "reasoning"}
  <2>1. \A j \in 1..Len(body) : body[j] \in N
    <3> HIDE DEF N, body
    <3> QED BY <1>2
  <2>2. N \subseteq AnItem
    OBVIOUS
  <2> HIDE DEF body
  <2> QED BY <1>2, <2>1, <2>2
<1> HIDE DEF body
<1>4. m \in AMessage /\ m.body = body
  BY <1>3 DEF Message, AMessage, Role
<1> HIDE DEF m
<1>5. count_message_chars(m) = 0
  BY <1>3, <1>4, CountNothing
<1> QED BY <1>4, <1>5 DEF m, body

\* flush moves calls to a message, and they weigh as little there.
LEMMA FlushWeighs ==
    ASSUME NEW w \in AWalk
    PROVE  /\ flush(w) \in AWalk /\ Weighs(flush(w)) = Weighs(w)
           /\ flush(w).calls = <<>> /\ flush(w).deferred = w.deferred
<1> DEFINE m == Message("assistant", w.reasoning \o w.calls)
           ms == Append(w.messages, m)
           f == [w EXCEPT !.messages = ms, !.calls = <<>>, !.reasoning = <<>>]
<1>1. m \in AMessage /\ count_message_chars(m) = 0
  BY WalkFields, CallsAreMessage
<1>2. flush(w) = IF w.calls = <<>> THEN w ELSE f
  BY DEF flush
<1> HIDE DEF m
<1>3. ms \in Seq(AMessage) /\ content_chars(ms) = content_chars(w.messages)
  <2>1. ms \in Seq(AMessage)
    BY <1>1, WalkFields
  <2>2. content_chars(ms) = content_chars(w.messages) + count_message_chars(m)
    BY <1>1, WalkFields, ContentAppend
  <2> HIDE DEF ms
  <2> QED BY <1>1, <2>1, <2>2, WalkFields
<1> HIDE DEF ms
<1>4. <<>> \in Seq(Called) /\ <<>> \in Seq(Reasoned)
  OBVIOUS
<1>5. /\ f \in AWalk /\ f.messages = ms /\ f.calls = <<>> /\ f.deferred = w.deferred
  BY <1>3, <1>4 DEF AWalk
<1> HIDE DEF f
<1> QED BY <1>2, <1>3, <1>5 DEF Weighs

\* settle moves what was kept back, and leaves nothing pending.
LEMMA SettleWeighs ==
    ASSUME NEW w \in AWalk
    PROVE  /\ settle(w) \in AWalk /\ Weighs(settle(w)) = Weighs(w)
           /\ settle(w).calls = <<>> /\ settle(w).deferred = <<>>
           /\ content_chars(settle(w).messages) = Weighs(w)
           /\ settle(w).messages = flush(w).messages \o w.deferred
<1> DEFINE f == flush(w)
           ms == f.messages \o f.deferred
           s == [f EXCEPT !.messages = ms, !.deferred = <<>>]
<1>1. f \in AWalk /\ Weighs(f) = Weighs(w) /\ f.calls = <<>> /\ f.deferred = w.deferred
  BY FlushWeighs
<1>2. settle(w) = s
  BY DEF settle
<1> HIDE DEF f
<1>3. f.messages \in Seq(AMessage) /\ f.deferred \in Seq(AMessage)
  BY <1>1, WalkFields
<1>4. ms \in Seq(AMessage) /\ content_chars(ms) = Weighs(w)
  <2>1. ms \in Seq(AMessage)
    BY <1>3, ConcatProperties
  <2>2. content_chars(ms) = content_chars(f.messages) + content_chars(f.deferred)
    BY <1>3, ContentConcat
  <2> QED BY <1>1, <2>1, <2>2 DEF Weighs
<1>5. ms = f.messages \o w.deferred
  BY <1>1
<1> HIDE DEF ms
<1>6. <<>> \in Seq(AMessage) /\ content_chars(<<>>) = 0
  BY ContentEmpty
<1>7. s \in AWalk /\ s.messages = ms /\ s.calls = <<>> /\ s.deferred = <<>>
  BY <1>1, <1>4, <1>6 DEF AWalk
<1> HIDE DEF s
<1>8. content_chars(ms) \in Nat
  BY <1>4, SizesAre
<1>9. Weighs(s) = Weighs(w)
  BY <1>4, <1>6, <1>7, <1>8 DEF Weighs
<1> QED BY <1>2, <1>4, <1>5, <1>7, <1>9 DEF f

\* One message more, of a walk that is settled.
LEMMA SettledAppend ==
    ASSUME NEW s \in AWalk, s.deferred = <<>>, NEW m \in AMessage, NEW reasoning \in Seq(Reasoned)
    PROVE  LET v == [s EXCEPT !.messages = Append(@, m), !.reasoning = reasoning] IN
           v \in AWalk /\ Weighs(v) = Weighs(s) + count_message_chars(m)
<1> DEFINE ms == Append(s.messages, m)
           v == [s EXCEPT !.messages = ms, !.reasoning = reasoning]
<1>1. ms \in Seq(AMessage) /\ content_chars(ms) = content_chars(s.messages) + count_message_chars(m)
  <2>1. s.messages \in Seq(AMessage)
    BY WalkFields
  <2>2. ms \in Seq(AMessage)
    BY <2>1
  <2> QED BY <2>1, <2>2, ContentAppend
<1> HIDE DEF ms
<1>2. v \in AWalk /\ v.messages = ms /\ v.deferred = <<>>
  BY <1>1 DEF AWalk
<1> HIDE DEF v
<1>3. content_chars(<<>>) = 0 /\ content_chars(s.messages) \in Nat /\ count_message_chars(m) \in Nat
  BY ContentEmpty, WalkFields, PartsAre
<1>4. Weighs(v) = Weighs(s) + count_message_chars(m)
  BY <1>1, <1>2, <1>3 DEF Weighs
<1> QED BY <1>2, <1>4 DEF v, ms

\* A message of one item counts what the item does.
LEMMA OneItem ==
    ASSUME NEW item \in AnItem, NEW role \in Role, NEW old \in BOOLEAN
    PROVE  /\ Message(role, <<item>>) \in AMessage
           /\ count_message_chars(Message(role, <<item>>)) = item_chars(item, FALSE)
           /\ Tool(item, old) \in AMessage /\ Tool(item, old).body = <<item>>
           /\ count_message_chars(Tool(item, old)) = item_chars(item, old)
<1> DEFINE body == <<item>>
           m == Message(role, body)
           t == Message("tool", body)
           c == [t EXCEPT !.cut = old]
<1>1. body \in Seq(AnItem)
  OBVIOUS
<1> HIDE DEF body
<1>2. m \in AMessage /\ m.body = body /\ m.cut = FALSE
  BY <1>1 DEF Message, AMessage
<1>3. c \in AMessage /\ c.body = body /\ c.cut = old
  BY <1>1 DEF Message, AMessage, Role
<1>4. Tool(item, old) = c
  BY DEF Tool, c, t, body
<1> HIDE DEF m, c, t
<1>5. count_message_chars(m) = item_chars(item, m.cut) /\ count_message_chars(c) = item_chars(item, c.cut)
  BY <1>2, <1>3, CountOne DEF body
<1> QED BY <1>2, <1>3, <1>4, <1>5 DEF m, body

\* Each item adds its own weight, whatever the walk does with it.
LEMMA WalkWeighs ==
    ASSUME NEW w \in AWalk, NEW item \in AnItem, NEW old \in BOOLEAN
    PROVE  walk(w, item, old) \in AWalk /\ Weighs(walk(w, item, old)) = Weighs(w) + Weight(item, old)
<1> DEFINE s == settle(w)
           x == item_chars(item, old)
<1>1. s \in AWalk /\ Weighs(s) = Weighs(w) /\ s.deferred = <<>>
  BY SettleWeighs
<1>2. s.messages \in Seq(AMessage) /\ s.reasoning \in Seq(Reasoned) /\ Weighs(w) \in Nat
  BY <1>1, WalkFields DEF Weighs
<1>3. item.kind # "output" => item_chars(item, FALSE) = x
  BY DEF item_chars, AnItem
<1>4. x \in Nat /\ (item.kind \in {"call", "reasoning"} => x = 0)
  BY ItemChars
<1>5. Weight(item, old) = IF item.kind = "summary" /\ ~HasKey THEN 0 ELSE x
  BY DEF Weight
<1>0. item.kind \in {"user", "reasoning", "text", "call", "output", "summary"}
  BY DEF AnItem, Spoken
<1>6. CASE item.kind = "call"
  <2> DEFINE calls == Append(w.calls, item)
             v == [w EXCEPT !.calls = calls]
  <2>1. calls \in Seq(Called)
    <3>1. w.calls \in Seq(Called) /\ item \in Called
      BY <1>6, WalkFields DEF Called
    <3> QED BY <3>1
  <2>2. walk(w, item, old) = v
    BY <1>6 DEF walk
  <2> HIDE DEF calls
  <2>3. v \in AWalk /\ v.messages = w.messages /\ v.deferred = w.deferred
    BY <2>1 DEF AWalk
  <2> HIDE DEF v
  <2>4. Weighs(v) = Weighs(w) /\ Weight(item, old) = 0
    BY <1>4, <1>5, <1>6, <2>3 DEF Weighs
  <2> HIDE DEF s, x
  <2> QED BY <1>2, <2>2, <2>3, <2>4
<1>7. CASE item.kind = "output"
  <2> DEFINE t == Tool(item, old)
             deferred == Append(w.deferred, t)
             v == [w EXCEPT !.deferred = deferred]
  <2>1. t \in AMessage /\ count_message_chars(t) = x
    BY OneItem DEF Role
  <2>2. walk(w, item, old) = v
    BY <1>7 DEF walk
  <2> HIDE DEF t
  <2>3. deferred \in Seq(AMessage) /\ content_chars(deferred) = content_chars(w.deferred) + x
    <3>1. w.deferred \in Seq(AMessage)
      BY WalkFields
    <3>2. deferred \in Seq(AMessage)
      BY <2>1, <3>1
    <3> QED BY <2>1, <3>1, <3>2, ContentAppend
  <2> HIDE DEF deferred
  <2>4. v \in AWalk /\ v.messages = w.messages /\ v.deferred = deferred
    BY <2>3 DEF AWalk
  <2> HIDE DEF v
  <2>5. content_chars(w.messages) \in Nat /\ content_chars(w.deferred) \in Nat
    BY WalkFields
  <2> HIDE DEF s, x
  <2>6. Weighs(v) = Weighs(w) + x
    BY <1>4, <2>3, <2>4, <2>5 DEF Weighs
  <2>7. Weight(item, old) = x
    BY <1>5, <1>7
  <2> QED BY <2>2, <2>4, <2>6, <2>7
<1> HIDE DEF s, x
<1>8. CASE item.kind = "reasoning"
  <2> DEFINE reasoning == IF Contains(s.reasoning, item) THEN s.reasoning
                          ELSE Append(s.reasoning, item)
             v == [s EXCEPT !.reasoning = reasoning]
  <2>1. reasoning \in Seq(Reasoned)
    <3>1. item \in Reasoned
      BY <1>8 DEF Reasoned
    <3> QED BY <3>1, <1>2
  <2>2. walk(w, item, old) = v
    BY <1>8 DEF walk, s
  <2> HIDE DEF reasoning
  <2>3. v \in AWalk /\ v.messages = s.messages /\ v.deferred = s.deferred
    BY <1>1, <2>1 DEF AWalk
  <2> HIDE DEF v
  <2>4. Weighs(v) = Weighs(w) /\ Weight(item, old) = 0
    BY <1>1, <1>4, <1>5, <1>8, <2>3 DEF Weighs
  <2> QED BY <1>2, <2>2, <2>3, <2>4
<1>9. CASE item.kind = "text"
  <2> DEFINE m == Message("assistant", Append(s.reasoning, item))
             v == [s EXCEPT !.messages = Append(@, m), !.reasoning = s.reasoning]
  <2>1. m \in AMessage /\ count_message_chars(m) = x
    <3>1. s.reasoning \in Seq(AnItem) /\ \A j \in 1..Len(s.reasoning) : s.reasoning[j].kind \in {"call", "reasoning"}
      BY <1>2 DEF Reasoned
    <3>2. m \in AMessage /\ count_message_chars(m) = item_chars(item, FALSE)
      BY <3>1, CountAfter DEF Role
    <3> QED BY <3>2, <1>3, <1>9
  <2>2. walk(w, item, old) = [s EXCEPT !.messages = Append(@, m)]
    BY <1>9 DEF walk, s
  <2> HIDE DEF m
  <2>3. [s EXCEPT !.messages = Append(@, m)] = v
    BY <1>1 DEF AWalk
  <2>4. v \in AWalk /\ Weighs(v) = Weighs(s) + count_message_chars(m)
    BY <1>1, <1>2, <2>1, SettledAppend
  <2> HIDE DEF v
  <2> QED BY <1>1, <1>5, <1>9, <2>1, <2>2, <2>3, <2>4
<1>10. CASE item.kind = "user"
  <2> DEFINE m == Message("user", <<item>>)
             none == <<>>
             v == [s EXCEPT !.messages = Append(@, m), !.reasoning = none]
  <2>1. m \in AMessage /\ count_message_chars(m) = x
    BY OneItem, <1>3, <1>10 DEF Role
  <2>2. walk(w, item, old) = v
    BY <1>10 DEF walk, s
  <2>3. none \in Seq(Reasoned)
    OBVIOUS
  <2> HIDE DEF m, none
  <2>4. v \in AWalk /\ Weighs(v) = Weighs(s) + count_message_chars(m)
    BY <1>1, <2>1, <2>3, SettledAppend
  <2> HIDE DEF v
  <2> QED BY <1>1, <1>5, <1>10, <2>1, <2>2, <2>4
<1>11. CASE item.kind = "summary"
  <2> DEFINE m == System(item)
             v == [s EXCEPT !.messages = Append(@, m), !.reasoning = s.reasoning]
  <2>1. m \in AMessage /\ count_message_chars(m) = x
    BY OneItem, <1>3, <1>11 DEF System, Role
  <2>2. walk(w, item, old) = IF HasKey THEN [s EXCEPT !.messages = Append(@, m)] ELSE s
    BY <1>11 DEF walk, s
  <2> HIDE DEF m
  <2>3. [s EXCEPT !.messages = Append(@, m)] = v
    BY <1>1 DEF AWalk
  <2>4. v \in AWalk /\ Weighs(v) = Weighs(s) + count_message_chars(m)
    BY <1>1, <1>2, <2>1, SettledAppend
  <2> HIDE DEF v
  <2>5. CASE HasKey
    <3>1. walk(w, item, old) = v
      BY <2>2, <2>3, <2>5
    <3> QED BY <1>1, <1>5, <1>11, <2>1, <2>4, <2>5, <3>1
  <2>6. CASE ~HasKey
    <3>1. walk(w, item, old) = s
      BY <2>2, <2>6
    <3> QED BY <1>1, <1>2, <1>5, <1>11, <2>6, <3>1
  <2> QED BY <2>5, <2>6
<1> QED BY <1>0, <1>6, <1>7, <1>8, <1>9, <1>10, <1>11

\* Where the walk over a request's items begins.
WalkFrom(h) == [messages |-> h, deferred |-> <<>>, calls |-> <<>>, reasoning |-> <<>>]

\* f is the walk over the items of a request that began with h.
WalksOver(f, h, items) ==
    /\ f \in [0..Len(items) -> AWalk] /\ f[0] = WalkFrom(h)
    /\ \A i \in 1..Len(items) : f[i] = walk(f[i - 1], items[i], i < old_tool_output_cutoff(items))
    /\ append_items(h, items) = settle(f[Len(items)]).messages

\* The recursion that append_items is defined by has a solution.
LEMMA WalkExists ==
    ASSUME NEW h \in Seq(AMessage), NEW items \in Seq(AnItem)
    PROVE  \E f : WalksOver(f, h, items)
<1> DEFINE cutoff == old_tool_output_cutoff(items)
           start == WalkFrom(h)
           n == Len(items)
           Solves(f) == f = [i \in 0..n |-> IF i = 0 THEN start
                                            ELSE walk(f[i - 1], items[i], i < cutoff)]
           walked == CHOOSE f : Solves(f)
<1>1. start \in AWalk
  <2>1. <<>> \in Seq(AMessage) /\ <<>> \in Seq(Called) /\ <<>> \in Seq(Reasoned)
    OBVIOUS
  <2> QED BY <2>1 DEF AWalk, WalkFrom
<1>2. n \in Nat /\ \A i \in 1..n : items[i] \in AnItem
  OBVIOUS
<1>3. \A i \in 1..n : \A w \in AWalk : walk(w, items[i], i < cutoff) \in AWalk
  <2> TAKE i \in 1..n
  <2> TAKE w \in AWalk
  <2>1. (i < cutoff) \in BOOLEAN
    OBVIOUS
  <2>2. items[i] \in AnItem
    BY <1>2
  <2> QED BY <2>1, <2>2, WalkWeighs
<1>4. append_items(h, items) = settle(walked[n]).messages
  BY DEF append_items, WalkFrom
<1> HIDE DEF cutoff, start, n
<1> DEFINE st == [p \in (1..n) \X AWalk |-> walk(p[2], items[p[1]], p[1] < cutoff)]
<1>5. /\ st \in [(1..n) \X AWalk -> AWalk]
      /\ \A i \in 1..n : \A w \in AWalk : st[<<i, w>>] = walk(w, items[i], i < cutoff)
  <2>1. st \in [(1..n) \X AWalk -> AWalk]
    BY <1>3
  <2>2. \A i \in 1..n : \A w \in AWalk : st[<<i, w>>] = walk(w, items[i], i < cutoff)
    OBVIOUS
  <2> QED BY <2>1, <2>2
<1> HIDE DEF st
<1>6. PICK f \in [0..n -> AWalk] : f[0] = start /\ \A i \in 1..n : f[i] = st[<<i, f[i - 1]>>]
  <2>1. \E f : Recurses(f, n, AWalk, start, st)
    BY <1>1, <1>2, <1>5, RecursionExists
  <2> QED BY <2>1 DEF Recurses
<1>7. \A i \in 0..n : f[i] = IF i = 0 THEN start ELSE walk(f[i - 1], items[i], i < cutoff)
  <2>1. f[0] = start
    BY <1>6
  <2>2. ASSUME NEW i \in 1..n PROVE f[i] = walk(f[i - 1], items[i], i < cutoff)
    <3>1. f[i] = st[<<i, f[i - 1]>>]
      BY <1>6
    <3>2. f[i - 1] \in AWalk
      BY <1>2, <1>6
    <3> QED BY <1>5, <3>1, <3>2
  <2> QED BY <1>2, <2>1, <2>2
<1>8. Solves(f)
  <2> DEFINE g == [i \in 0..n |-> IF i = 0 THEN start ELSE walk(f[i - 1], items[i], i < cutoff)]
  <2>1. DOMAIN f = 0..n /\ f = [i \in 0..n |-> f[i]]
    BY <1>6
  <2>2. f = g
    BY <1>7, <2>1, Zenon
  <2> QED BY <2>2, Zenon
<1>9. Solves(walked)
  BY <1>8, Zenon
<1> DEFINE g == [i \in 0..n |-> IF i = 0 THEN start
                                ELSE walk(walked[i - 1], items[i], i < cutoff)]
<1>10. walked = g
  BY <1>9, Zenon
<1>11. \A i \in 0..n : g[i] = IF i = 0 THEN start ELSE walk(walked[i - 1], items[i], i < cutoff)
  <2> TAKE i \in 0..n
  <2> QED BY Zenon
<1>12. DOMAIN g = 0..n /\ g = [i \in 0..n |-> g[i]]
  <2> HIDE DEF walked
  <2> QED OBVIOUS
<1> HIDE DEF walked, Solves, g
<1>13. walked[0] = start /\ \A i \in 1..n : walked[i] = walk(walked[i - 1], items[i], i < cutoff)
  <2>1. \A i \in 0..n : walked[i] = IF i = 0 THEN start ELSE walk(walked[i - 1], items[i], i < cutoff)
    BY <1>10, <1>11, Zenon
  <2> QED BY <1>2, <2>1
<1> DEFINE G == {i \in Nat : i <= n => walked[i] \in AWalk}
<1>14. 0 \in G
  BY <1>1, <1>13
<1>15. \A i \in Nat : i \in G => i + 1 \in G
  <2> SUFFICES ASSUME NEW i \in Nat, i \in G, i + 1 <= n PROVE walked[i + 1] \in AWalk
    OBVIOUS
  <2>1. i + 1 \in 1..n /\ (i + 1) - 1 = i /\ i <= n
    BY <1>2
  <2>2. walked[i + 1] = walk(walked[i], items[i + 1], i + 1 < cutoff)
    BY ONLY <1>13, <2>1
  <2>3. walked[i] \in AWalk
    BY <2>1
  <2> QED BY <1>3, <2>1, <2>2, <2>3
<1> HIDE DEF G
<1>16. G = Nat
  BY <1>14, <1>15, Inductive DEF G
<1>17. \A i \in 0..n : walked[i] \in AWalk
  <2> TAKE i \in 0..n
  <2>1. i \in Nat /\ i <= n
    BY <1>2
  <2> QED BY <2>1, <1>16 DEF G
<1>18. walked \in [0..n -> AWalk]
  <2>1. DOMAIN walked = 0..n /\ walked = [i \in 0..n |-> walked[i]]
    BY <1>10, <1>12, Zenon
  <2> QED BY <1>17, <2>1
<1>19. WalksOver(walked, h, items)
  BY <1>4, <1>13, <1>18 DEF WalksOver, n, start, cutoff
<1> QED BY <1>19

\* What the items add, each by itself.
Weights(items) == [i \in 1..Len(items) |-> Weight(items[i], i < old_tool_output_cutoff(items))]

LEMMA WeightsAre ==
    ASSUME NEW items \in Seq(AnItem)
    PROVE  /\ Weights(items) \in Seq(Nat) /\ Len(Weights(items)) = Len(items)
           /\ \A i \in 1..Len(items) :
                 Weights(items)[i] = Weight(items[i], i < old_tool_output_cutoff(items))
           /\ Total(Weights(items)) \in Nat
<1>1. Len(items) \in Nat
  OBVIOUS
<1>2. \A i \in 1..Len(items) : Weight(items[i], i < old_tool_output_cutoff(items)) \in Nat
  BY WeightIs
<1>3. /\ Weights(items) \in Seq(Nat) /\ Len(Weights(items)) = Len(items)
      /\ \A i \in 1..Len(items) :
            Weights(items)[i] = Weight(items[i], i < old_tool_output_cutoff(items))
  BY <1>1, <1>2 DEF Weights
<1> QED BY <1>3, TotalType

\* What a request weighs: its history, and its items.
LEMMA AppendItemsWeighs ==
    ASSUME NEW h \in Seq(AMessage), NEW items \in Seq(AnItem)
    PROVE  /\ append_items(h, items) \in Seq(AMessage)
           /\ content_chars(append_items(h, items)) = content_chars(h) + Total(Weights(items))
<1> DEFINE n == Len(items)
           cutoff == old_tool_output_cutoff(items)
           v == Weights(items)
<1>1. PICK f : WalksOver(f, h, items)
  BY WalkExists
<1>2. /\ v \in Seq(Nat) /\ Len(v) = n /\ n \in Nat
      /\ \A i \in 1..n : v[i] = Weight(items[i], i < cutoff)
  BY WeightsAre
<1> HIDE DEF v
<1>3. PICK g : Sums(g, v) /\ Total(v) = g[n]
  BY <1>2, TotalIs
<1>4. /\ f \in [0..n -> AWalk] /\ f[0] = WalkFrom(h)
      /\ \A i \in 1..n : f[i] = walk(f[i - 1], items[i], i < cutoff)
      /\ append_items(h, items) = settle(f[n]).messages
  BY <1>1 DEF WalksOver
<1>5. g \in [0..n -> Nat] /\ g[0] = 0 /\ \A i \in 1..n : g[i] = g[i - 1] + v[i]
  BY <1>2, <1>3 DEF Sums
<1>6. \A i \in 1..n : items[i] \in AnItem
  OBVIOUS
<1>7. content_chars(h) \in Nat
  BY SizesAre
<1> HIDE DEF n, cutoff
<1> DEFINE x == content_chars(h)
           G == {i \in Nat : i <= n => Weighs(f[i]) = x + g[i]}
<1>8. 0 \in G
  <2>1. Weighs(f[0]) = x + 0
    BY <1>4, <1>7, ContentEmpty DEF Weighs, WalkFrom
  <2> QED BY <1>5, <2>1
<1> HIDE DEF x
<1>9. \A i \in Nat : i \in G => i + 1 \in G
  <2> SUFFICES ASSUME NEW i \in Nat, i \in G, i + 1 <= n PROVE Weighs(f[i + 1]) = x + g[i + 1]
    OBVIOUS
  <2>1. i + 1 \in 1..n /\ (i + 1) - 1 = i /\ i <= n /\ i \in 0..n
    BY <1>2
  <2> DEFINE item == items[i + 1]
             old == i + 1 < cutoff
             y == Weight(item, old)
  <2>2. f[i + 1] = walk(f[i], item, old) /\ g[i + 1] = g[i] + y
    BY ONLY <1>2, <1>4, <1>5, <2>1
  <2>3. f[i] \in AWalk /\ g[i] \in Nat
    BY ONLY <1>4, <1>5, <2>1
  <2>4. item \in AnItem /\ old \in BOOLEAN
    BY <1>6, <2>1
  <2>5. y \in Nat
    BY WeightIs
  <2>6. Weighs(f[i]) = x + g[i]
    BY <2>1
  <2> HIDE DEF G, item, old
  <2>7. Weighs(walk(f[i], item, old)) = Weighs(f[i]) + y
    BY <2>3, <2>4, WalkWeighs
  <2> HIDE DEF y
  <2>8. x \in Nat
    BY <1>7 DEF x
  <2>9. (x + g[i]) + y = x + (g[i] + y)
    BY ONLY <2>3, <2>5, <2>8, Adding, Zenon
  <2> QED BY ONLY <2>2, <2>6, <2>7, <2>9, Zenon
<1> HIDE DEF G
<1>10. G = Nat
  BY <1>8, <1>9, Inductive DEF G
<1>11. Weighs(f[n]) = x + g[n]
  <2>1. n \in G
    BY <1>2, <1>10
  <2> QED BY <2>1, <1>2 DEF G
<1>12. f[n] \in AWalk
  BY <1>2, <1>4
<1>13. settle(f[n]).messages \in Seq(AMessage) /\ content_chars(settle(f[n]).messages) = Weighs(f[n])
  <2>1. settle(f[n]) \in AWalk
    BY <1>12, SettleWeighs
  <2> QED BY <1>12, <2>1, SettleWeighs, WalkFields
<1> QED BY <1>3, <1>4, <1>11, <1>13 DEF x, v

\* The last item, said by the user or an output, is the last message.
LEMMA LastIsLast ==
    ASSUME NEW h \in Seq(AMessage), NEW items \in Seq(AnItem), items # <<>>,
           items[Len(items)].kind \in {"user", "output"}
    PROVE  LET ms == append_items(h, items)
           IN  ms # <<>> /\ ms[Len(ms)].body = <<items[Len(items)]>>
<1> DEFINE n == Len(items)
           item == items[n]
           old == n < old_tool_output_cutoff(items)
           ms == append_items(h, items)
<1>1. PICK f : WalksOver(f, h, items)
  BY WalkExists
<1>2. n \in Nat /\ n \in 1..n /\ n - 1 \in 0..n /\ item \in AnItem /\ old \in BOOLEAN
  OBVIOUS
<1>3. f[n - 1] \in AWalk /\ f[n] \in AWalk /\ f[n] = walk(f[n - 1], item, old) /\ ms = settle(f[n]).messages
  BY <1>1, <1>2 DEF WalksOver
<1> HIDE DEF n, old, ms
<1> DEFINE w == f[n - 1]
           v == f[n]
           fl == flush(v)
<1>4. w \in AWalk /\ v \in AWalk /\ v = walk(w, item, old) /\ ms = fl.messages \o v.deferred
      /\ fl.messages \in Seq(AMessage) /\ v.deferred \in Seq(AMessage)
  <2>1. settle(v).messages = fl.messages \o v.deferred
    BY <1>3, SettleWeighs
  <2>2. fl \in AWalk
    BY <1>3, FlushWeighs
  <2> QED BY <1>3, <2>1, <2>2, WalkFields
<1> HIDE DEF w, v
<1>5. CASE item.kind = "user"
  <2> DEFINE s == settle(w)
             m == Message("user", <<item>>)
             one == Append(s.messages, m)
             new == [s EXCEPT !.messages = one, !.reasoning = <<>>]
  <2>1. s \in AWalk /\ s.calls = <<>> /\ s.deferred = <<>> /\ s.messages \in Seq(AMessage)
    BY <1>4, SettleWeighs, WalkFields
  <2>2. v = new
    BY <1>4, <1>5 DEF walk
  <2>3. m \in AMessage /\ m.body = <<item>>
    BY <1>2, OneItem DEF Role, Message
  <2> HIDE DEF m
  <2>4. one \in Seq(AMessage) /\ one # <<>> /\ one[Len(one)] = m
    BY <2>1, <2>3
  <2> HIDE DEF s, one
  <2>5. new.messages = one /\ new.calls = <<>> /\ new.deferred = <<>>
    BY <2>1 DEF AWalk
  <2> HIDE DEF new
  <2>6. fl = v
    BY <2>2, <2>5 DEF flush
  <2>7. ms = one \o <<>>
    BY <1>4, <2>2, <2>5, <2>6
  <2>8. one \o <<>> = one
    BY <2>4, ConcatEmptySeq
  <2> QED BY <2>3, <2>4, <2>7, <2>8 DEF ms, item, n
<1>6. CASE item.kind = "output"
  <2> DEFINE t == Tool(item, old)
             a == fl.messages
             b == w.deferred
             d == Append(b, t)
             new == [w EXCEPT !.deferred = d]
  <2>1. t \in AMessage /\ t.body = <<item>>
    BY <1>2, OneItem DEF Role
  <2>2. v = new
    BY <1>4, <1>6 DEF walk
  <2>3. b \in Seq(AMessage)
    BY <1>4, WalkFields
  <2> HIDE DEF t, b
  <2>4. d \in Seq(AMessage) /\ Len(d) \in Nat /\ Len(d) >= 1 /\ d[Len(d)] = t
    BY <2>1, <2>3
  <2> HIDE DEF d
  <2>5. new.deferred = d
    BY <1>4 DEF AWalk
  <2> HIDE DEF new
  <2>6. ms = a \o d /\ a \in Seq(AMessage)
    BY <1>4, <2>2, <2>5
  <2> HIDE DEF a, fl
  <2>7. a \o d # <<>> /\ (a \o d)[Len(a \o d)] = d[Len(d)]
    BY ONLY <2>4, <2>6
  <2> QED BY <2>1, <2>4, <2>6, <2>7 DEF ms, item, n
<1> QED BY <1>5, <1>6 DEF n

-----------------------------------------------------------------------------
(* Which outputs are old                                                   *)

Users(items) == {i \in DOMAIN items : items[i].kind = "user"}
From(U, i) == {j \in U : j >= i}

\* Of a set of numbers, one has exactly k that are not below it.
LEMMA OneHasMany ==
    ASSUME NEW n \in Nat, NEW U \in SUBSET (1..n), NEW k \in Nat \ {0}, k <= Cardinality(U)
    PROVE  \E i \in U : Cardinality(From(U, i)) = k
<1>1. IsFiniteSet(U) /\ Cardinality(U) \in Nat
  <2>1. IsFiniteSet(1..n)
    BY FS_Interval
  <2> QED BY <2>1, FS_Subset, FS_CardinalityType
<1> DEFINE G == {m \in Nat : m + 1 <= Cardinality(U) => \E i \in U : Cardinality(From(U, i)) = m + 1}
<1>2. 0 \in G
  <2> SUFFICES ASSUME 1 <= Cardinality(U) PROVE \E i \in U : Cardinality(From(U, i)) = 1
    OBVIOUS
  <2>1. U # {}
    BY <1>1, FS_EmptySet
  <2> DEFINE top == Max(U)
  <2>2. top \in U /\ \A j \in U : j <= top
    BY <2>1, MaxIsIn
  <2> HIDE DEF top
  <2>3. From(U, top) = {top}
    <3>1. \A j \in U : j \in Nat
      OBVIOUS
    <3>2. \A j \in U : j >= top => j = top
      BY <2>2, <3>1
    <3>3. top >= top
      BY <2>2, <3>1
    <3> QED BY <2>2, <3>2, <3>3 DEF From
  <2>4. Cardinality({top}) = 1
    BY FS_Singleton
  <2> QED BY <2>2, <2>3, <2>4
<1>3. \A m \in Nat : m \in G => m + 1 \in G
  <2> SUFFICES ASSUME NEW m \in Nat, m \in G, (m + 1) + 1 <= Cardinality(U)
               PROVE  \E i \in U : Cardinality(From(U, i)) = (m + 1) + 1
    OBVIOUS
  <2>1. PICK i \in U : Cardinality(From(U, i)) = m + 1
    BY <1>1
  <2> DEFINE below == {j \in U : j < i}
             top == Max(below)
  <2>2. below \in SUBSET (1..n) /\ below \subseteq U
    OBVIOUS
  <2>3. below # {}
    <3> SUFFICES ASSUME below = {} PROVE FALSE
      OBVIOUS
    <3>1. From(U, i) = U
      <4>1. \A j \in U : j >= i
        <5> TAKE j \in U
        <5>1. ~(j < i)
          OBVIOUS
        <5> QED BY <5>1
      <4> QED BY <4>1 DEF From
    <3> QED BY <1>1, <2>1, <3>1
  <2> HIDE DEF below
  <2>4. top \in below /\ \A j \in below : j <= top
    BY <2>2, <2>3, MaxIsIn
  <2> HIDE DEF top
  <2>5. top \in U /\ top < i /\ top \notin From(U, i)
    BY <2>4 DEF below, From
  <2>6. From(U, top) = From(U, i) \cup {top}
    <3>1. \A j \in U : j >= top <=> j >= i \/ j = top
      <4> TAKE j \in U
      <4>1. j < i => j <= top
        BY <2>4 DEF below
      <4>2. j \in 1..n /\ i \in 1..n /\ top \in 1..n
        BY <2>5
      <4> QED BY <2>5, <4>1, <4>2
    <3> QED BY <2>5, <3>1 DEF From
  <2>7. IsFiniteSet(From(U, i))
    <3>1. From(U, i) \subseteq U
      BY DEF From
    <3> QED BY <1>1, <3>1, FS_Subset
  <2>8. Cardinality(From(U, i) \cup {top}) = Cardinality(From(U, i)) + 1
    BY <2>5, <2>7, FS_AddElement
  <2> QED BY <2>1, <2>5, <2>6, <2>8
<1> HIDE DEF G
<1>4. G = Nat
  BY <1>2, <1>3, Inductive DEF G
<1>5. k - 1 \in G /\ (k - 1) + 1 = k
  BY <1>4
<1> QED BY <1>5 DEF G

\* The cutoff is the message that begins the last turns, if there are more.
LEMMA CutoffIs ==
    ASSUME NEW items \in Seq(AnItem)
    PROVE  LET U == Users(items)
               c == old_tool_output_cutoff(items)
           IN  /\ U \in SUBSET (1..Len(items)) /\ IsFiniteSet(U) /\ Cardinality(U) \in Nat
               /\ Cardinality(U) <= KeepLastTurns => c = 0
               /\ Cardinality(U) > KeepLastTurns =>
                     c \in U /\ Cardinality(From(U, c)) = KeepLastTurns
<1> DEFINE U == Users(items)
           c == old_tool_output_cutoff(items)
<1>1. U \in SUBSET (1..Len(items)) /\ Len(items) \in Nat
  BY DEF Users
<1>2. IsFiniteSet(U) /\ Cardinality(U) \in Nat
  <2>1. IsFiniteSet(1..Len(items))
    BY <1>1, FS_Interval
  <2> QED BY <1>1, <2>1, FS_Subset, FS_CardinalityType
<1>3. c = IF Cardinality(U) <= KeepLastTurns THEN 0
          ELSE CHOOSE i \in U : Cardinality(From(U, i)) = KeepLastTurns
  BY DEF old_tool_output_cutoff, Users, From
<1> HIDE DEF U, c
<1>4. KeepLastTurns \in Nat \ {0}
  OBVIOUS
<1>5. Cardinality(U) > KeepLastTurns => c \in U /\ Cardinality(From(U, c)) = KeepLastTurns
  <2> SUFFICES ASSUME Cardinality(U) > KeepLastTurns
               PROVE  c \in U /\ Cardinality(From(U, c)) = KeepLastTurns
    OBVIOUS
  <2>1. ~(Cardinality(U) <= KeepLastTurns) /\ KeepLastTurns <= Cardinality(U)
    BY <1>2, <1>4
  <2>2. \E i \in U : Cardinality(From(U, i)) = KeepLastTurns
    BY <1>1, <1>4, <2>1, OneHasMany
  <2>3. c = CHOOSE i \in U : Cardinality(From(U, i)) = KeepLastTurns
    BY <1>3, <2>1
  <2> QED BY <2>2, <2>3
<1> QED BY <1>1, <1>2, <1>3, <1>5 DEF U, c

\* With more items, what was old stays old.
LEMMA OldStaysOld ==
    ASSUME NEW a \in Seq(AnItem), NEW b \in Seq(AnItem), NEW i \in Nat,
           i < old_tool_output_cutoff(a)
    PROVE  i < old_tool_output_cutoff(a \o b)
<1> DEFINE all == a \o b
           U == Users(a)
           V == Users(all)
           c == old_tool_output_cutoff(a)
           d == old_tool_output_cutoff(all)
<1>1. all \in Seq(AnItem)
  BY ConcatProperties
<1>2. U \subseteq V
  <2>1. Len(a) \in Nat /\ Len(b) \in Nat /\ Len(all) = Len(a) + Len(b)
        /\ DOMAIN a = 1..Len(a) /\ DOMAIN all = 1..Len(all)
        /\ \A j \in 1..Len(a) : all[j] = a[j]
    BY <1>1
  <2> HIDE DEF all
  <2>2. \A j \in 1..Len(a) : j \in 1..Len(all)
    BY <2>1
  <2> QED BY <2>1, <2>2 DEF Users
<1>3. /\ U \in SUBSET (1..Len(a)) /\ IsFiniteSet(U) /\ Cardinality(U) \in Nat
      /\ Cardinality(U) <= KeepLastTurns => c = 0
      /\ Cardinality(U) > KeepLastTurns =>
            c \in U /\ Cardinality(From(U, c)) = KeepLastTurns
  BY CutoffIs
<1>4. /\ V \in SUBSET (1..Len(all)) /\ IsFiniteSet(V) /\ Cardinality(V) \in Nat
      /\ Cardinality(V) <= KeepLastTurns => d = 0
      /\ Cardinality(V) > KeepLastTurns =>
            d \in V /\ Cardinality(From(V, d)) = KeepLastTurns
  BY <1>1, CutoffIs
<1>5. i < c
  OBVIOUS
<1> HIDE DEF all, U, V, c, d
<1>6. Cardinality(U) > KeepLastTurns
  BY <1>3, <1>5
<1>7. Cardinality(U) <= Cardinality(V)
  BY <1>2, <1>4, FS_Subset
<1>8. /\ c \in U /\ Cardinality(From(U, c)) = KeepLastTurns
      /\ d \in V /\ Cardinality(From(V, d)) = KeepLastTurns
  BY <1>3, <1>4, <1>6, <1>7
<1>9. c \in Nat /\ d \in Nat /\ \A j \in U : j \in Nat
  <2>1. \A j \in U : j \in 1..Len(a)
    BY <1>3
  <2>2. \A j \in V : j \in 1..Len(all)
    BY <1>4
  <2> QED BY <1>8, <2>1, <2>2
<1>10. c <= d
  <2> SUFFICES ASSUME d < c PROVE FALSE
    BY <1>9
  <2> DEFINE S == From(U, c)
             T == From(V, d)
  <2>1. S \subseteq T \ {d}
    BY <1>2, <1>9 DEF From
  <2>2. d \in T
    BY <1>8, <1>9 DEF From
  <2>3. IsFiniteSet(T) /\ T \subseteq V
    <3>1. T \subseteq V
      BY DEF From
    <3> QED BY <1>4, <3>1, FS_Subset
  <2> HIDE DEF S, T
  <2>4. Cardinality(T \ {d}) = Cardinality(T) - 1 /\ IsFiniteSet(T \ {d})
    BY <2>2, <2>3, FS_RemoveElement
  <2>5. Cardinality(S) <= Cardinality(T \ {d})
    BY <2>1, <2>4, FS_Subset
  <2>6. Cardinality(S) = KeepLastTurns /\ Cardinality(T) = KeepLastTurns
    BY <1>8 DEF S, T
  <2> QED BY <2>4, <2>5, <2>6
<1> QED BY <1>5, <1>9, <1>10 DEF d, all

\* Without a message of the user no output is old.
LEMMA NoUsersNoneOld ==
    ASSUME NEW items \in Seq(AnItem), \A i \in 1..Len(items) : items[i].kind # "user"
    PROVE  old_tool_output_cutoff(items) = 0
<1>1. Users(items) = {}
  BY DEF Users
<1>2. Cardinality({}) = 0
  BY FS_EmptySet
<1> QED BY <1>1, <1>2, CutoffIs

-----------------------------------------------------------------------------
(* More items                                                              *)

\* A request made longer weighs at most what its parts weigh.
LEMMA WeightsTogether ==
    ASSUME NEW a \in Seq(AnItem), NEW b \in Seq(AnItem),
           (\A j \in 1..Len(b) : b[j].kind # "user") \/ (\A j \in 1..Len(b) : b[j].kind # "output")
    PROVE  Total(Weights(a \o b)) <= Total(Weights(a)) + Total(Weights(b))
<1> DEFINE all == a \o b
           m == Len(a)
           n == Len(b)
           u == Weights(a)
           v == Weights(b)
           w == Weights(all)
           p == u \o v
           c == old_tool_output_cutoff(a)
           d == old_tool_output_cutoff(b)
           e == old_tool_output_cutoff(all)
<1>1. /\ all \in Seq(AnItem) /\ m \in Nat /\ n \in Nat /\ Len(all) = m + n
      /\ \A i \in 1..m : all[i] = a[i]
      /\ \A j \in 1..n : all[m + j] = b[j]
  OBVIOUS
<1>2. /\ u \in Seq(Nat) /\ Len(u) = m /\ \A i \in 1..m : u[i] = Weight(a[i], i < c)
      /\ v \in Seq(Nat) /\ Len(v) = n /\ \A j \in 1..n : v[j] = Weight(b[j], j < d)
      /\ Total(u) \in Nat /\ Total(v) \in Nat
  BY WeightsAre
<1>3. w \in Seq(Nat) /\ Len(w) = m + n /\ \A i \in 1..(m + n) : w[i] = Weight(all[i], i < e)
  BY <1>1, WeightsAre
<1>4. \A i \in 1..m : i < c => i < e
  BY OldStaysOld
<1>5. \A j \in 1..n : b[j].kind = "output" => d = 0
  BY NoUsersNoneOld
<1> HIDE DEF all, m, n, u, v, w, c, d, e
<1>6. /\ p \in Seq(Nat) /\ Len(p) = m + n
      /\ \A i \in 1..m : p[i] = u[i]
      /\ \A j \in 1..n : p[m + j] = v[j]
  <2>1. u \in Seq(Nat) /\ v \in Seq(Nat) /\ Len(u) = m /\ Len(v) = n
    BY <1>2
  <2>2. /\ p \in Seq(Nat) /\ Len(p) = Len(u) + Len(v)
        /\ \A i \in 1..Len(u) : p[i] = u[i]
        /\ \A j \in 1..Len(v) : p[Len(u) + j] = v[j]
    BY ONLY <2>1, NumbersTogether
  <2> HIDE DEF p
  <2> QED BY ONLY <2>1, <2>2
<1>7. \A x, old, new : (old => new) => Weight(x, new) <= Weight(x, old)
  <2> TAKE x, old, new
  <2> HAVE old => new
  <2> QED BY ItemChars DEF Weight, item_chars, LongText, ShortText
<1>8. ASSUME NEW i \in 1..m PROVE w[i] <= p[i]
  <2>1. i \in 1..(m + n)
    BY <1>1
  <2>2. w[i] = Weight(a[i], i < e) /\ p[i] = Weight(a[i], i < c)
    BY <2>1, <1>1, <1>2, <1>3, <1>6
  <2>3. (i < c) => (i < e)
    BY <1>4
  <2> QED BY <1>7, <2>2, <2>3
<1>9. ASSUME NEW j \in 1..n PROVE w[m + j] <= p[m + j]
  <2>1. m + j \in 1..(m + n)
    BY <1>1
  <2>2. w[m + j] = Weight(b[j], m + j < e) /\ p[m + j] = Weight(b[j], j < d)
    BY <2>1, <1>1, <1>2, <1>3, <1>6
  <2>3. CASE b[j].kind = "output"
    <3>1. d = 0 /\ ~(j < d)
      BY <1>1, <1>5, <2>3
    <3> QED BY <1>7, <2>2, <3>1
  <2>4. CASE b[j].kind # "output"
    <3>1. Weight(b[j], m + j < e) = Weight(b[j], j < d)
      BY <2>4 DEF Weight, item_chars
    <3>2. Weight(b[j], j < d) \in Nat
      BY WeightIs
    <3> QED BY <2>2, <3>1, <3>2
  <2> QED BY <2>3, <2>4
<1> HIDE DEF p
<1>10. \A i \in 1..Len(w) : w[i] <= 1 * p[i]
  <2> TAKE i \in 1..Len(w)
  <2>1. w[i] \in Nat /\ p[i] \in Nat /\ i \in 1..(m + n)
    BY <1>1, <1>3, <1>6
  <2>2. w[i] <= p[i]
    <3>1. CASE i <= m
      <4>1. i \in 1..m
        BY <3>1, <1>1, <2>1
      <4> QED BY <4>1, <1>8
    <3>2. CASE i > m
      <4>1. i - m \in 1..n /\ m + (i - m) = i
        BY <3>2, <1>1, <2>1
      <4>2. PICK j \in 1..n : i = m + j
        BY <4>1
      <4> QED BY <4>2, <1>9
    <3>3. i <= m \/ i > m
      BY <1>1, <2>1
    <3> QED BY ONLY <3>1, <3>2, <3>3, Zenon
  <2> QED BY <2>1, <2>2
<1>11. Total(w) <= 1 * Total(p)
  BY <1>3, <1>6, <1>10, TotalAtMost
<1>12. Total(p) = Total(u) + Total(v)
  BY <1>2, TotalConcat DEF p
<1>13. Total(w) \in Nat
  BY <1>3, TotalType
<1>14. Total(w) <= Total(u) + Total(v)
  BY <1>2, <1>11, <1>12, <1>13
<1> QED BY <1>14 DEF w, u, v, all

-----------------------------------------------------------------------------
(* The limits                                                              *)

\* kept are messages with the same last one, but for its being cut.
KeepsLast(ms, kept) ==
    /\ kept \in Seq(AMessage)
    /\ ms # <<>> => kept # <<>> /\ kept[Len(kept)].body = ms[Len(ms)].body

\* The system messages at the front are some of the messages.
LEMMA LeadingIs ==
    ASSUME NEW ms \in Seq(AMessage)
    PROVE  Leading(ms) \in 0..Len(ms)
<1> DEFINE L == {i \in DOMAIN ms : \A j \in 1..i : ms[j].role = "system"}
           n == Len(ms)
<1>1. n \in Nat /\ L \subseteq 1..n
  OBVIOUS
<1>2. Leading(ms) = Cardinality(L)
  BY DEF Leading
<1> HIDE DEF L, n
<1>3. IsFiniteSet(1..n) /\ Cardinality(1..n) = n
  BY <1>1, FS_Interval
<1>4. IsFiniteSet(L) /\ Cardinality(L) <= n /\ Cardinality(L) \in Nat
  BY <1>1, <1>3, FS_Subset, FS_CardinalityType
<1> QED BY <1>1, <1>2, <1>4 DEF n

\* Dropping turns leaves the last message in place.
LEMMA MessageBudgetKeepsLast ==
    ASSUME NEW ms \in Seq(AMessage), NEW max
    PROVE  KeepsLast(ms, enforce_message_budget(ms, max))
<1> DEFINE n == Len(ms)
           prefix == Leading(ms)
           starts == {i \in DOMAIN ms : i > prefix /\ ms[i].role = "user"}
           fits == {i \in starts : prefix + (Len(ms) - i + 1) <= max}
           start == IF fits # {} THEN Min(fits) ELSE Max(starts)
           a == SubSeq(ms, 1, prefix)
           b == SubSeq(ms, start, n)
           cut == a \o b
<1>1. CASE max = 0 \/ Len(ms) <= max \/ starts = {}
  <2>1. enforce_message_budget(ms, max) = ms
    BY <1>1 DEF enforce_message_budget
  <2> QED BY <2>1 DEF KeepsLast
<1>2. CASE ~ (max = 0 \/ Len(ms) <= max \/ starts = {})
  <2>1. enforce_message_budget(ms, max) = cut
    BY <1>2 DEF enforce_message_budget
  <2>2. n \in Nat /\ DOMAIN ms = 1..n
    OBVIOUS
  <2>3. prefix \in 0..n
    BY LeadingIs
  <2>4. starts \in SUBSET (1..n) /\ fits \in SUBSET (1..n) /\ starts # {} /\ fits \subseteq starts
    BY <1>2, <2>2
  <2> HIDE DEF starts, fits, prefix
  <2>5. start \in starts
    BY <2>2, <2>4, MinIsIn, MaxIsIn
  <2>6. start \in 1..n
    BY <2>4, <2>5
  <2> HIDE DEF start
  <2>7. a \in Seq(AMessage) /\ b \in Seq(AMessage) /\ Len(b) = n - start + 1 /\ b[Len(b)] = ms[n]
    <3>1. a \in Seq(AMessage)
      BY <2>2, <2>3
    <3>2. b \in Seq(AMessage) /\ Len(b) = n - start + 1
          /\ \A i \in 1..(n - start + 1) : b[i] = ms[start + i - 1]
      BY <2>2, <2>6
    <3>3. n - start + 1 \in 1..(n - start + 1) /\ start + (n - start + 1) - 1 = n
      BY <2>2, <2>6
    <3> HIDE DEF a, b, n
    <3> QED BY ONLY <3>1, <3>2, <3>3
  <2>8. Len(b) >= 1 /\ Len(b) \in Nat
    BY <2>2, <2>6, <2>7
  <2> HIDE DEF a, b, n
  <2>9. cut \in Seq(AMessage) /\ cut # <<>> /\ cut[Len(cut)] = b[Len(b)]
    BY ONLY <2>7, <2>8
  <2> HIDE DEF cut
  <2> QED BY <2>1, <2>7, <2>9 DEF KeepsLast, n
<1> QED BY <1>1, <1>2

\* Cutting an output leaves what the message is made of.
LEMMA CutKeepsBody ==
    ASSUME NEW m \in Seq(AMessage), NEW i \in 1..Len(m)
    PROVE  LET new == [m EXCEPT ![i].cut = TRUE] IN
           /\ new \in Seq(AMessage) /\ Len(new) = Len(m)
           /\ \A k \in 1..Len(m) : new[k].body = m[k].body
<1> DEFINE cut == [m[i] EXCEPT !.cut = TRUE]
           new == [m EXCEPT ![i] = cut]
<1>1. m[i] \in AMessage
  OBVIOUS
<1>2. cut \in AMessage /\ cut.body = m[i].body
  BY <1>1 DEF AMessage
<1> HIDE DEF cut
<1>3. /\ new \in Seq(AMessage) /\ Len(new) = Len(m) /\ new[i] = cut
      /\ \A k \in 1..Len(m) : k # i => new[k] = m[k]
  BY <1>2
<1>4. new = [m EXCEPT ![i].cut = TRUE]
  BY DEF cut
<1> HIDE DEF new
<1>5. \A k \in 1..Len(m) : new[k].body = m[k].body
  BY <1>2, <1>3
<1> QED BY <1>3, <1>4, <1>5

\* Cutting outputs leaves the last message in place.
LEMMA InputBudgetKeepsLast ==
    ASSUME NEW ms \in Seq(AMessage), NEW max
    PROVE  KeepsLast(ms, enforce_input_budget(ms, max))
<1> DEFINE n == Len(ms)
           next(m, i) == IF Whole(m[i]) /\ messages_total_chars(m) > max
                         THEN [m EXCEPT ![i].cut = TRUE] ELSE m
           Solves(f) == f = [i \in 0..n |-> IF i = 0 THEN ms ELSE next(f[i - 1], i)]
           shrunk == CHOOSE f : Solves(f)
           D == {m \in Seq(AMessage) : Len(m) = n /\ \A k \in 1..n : m[k].body = ms[k].body}
<1>1. ms \in D /\ n \in Nat
  OBVIOUS
<1>2. \A i \in 1..n : \A m \in D : next(m, i) \in D
  <2> TAKE i \in 1..n
  <2> TAKE m \in D
  <2> DEFINE new == [m EXCEPT ![i].cut = TRUE]
  <2>1. /\ new \in Seq(AMessage) /\ Len(new) = n
        /\ \A k \in 1..n : new[k].body = m[k].body
    <3>1. m \in Seq(AMessage) /\ i \in 1..Len(m) /\ Len(m) = n
      OBVIOUS
    <3> HIDE DEF n, D
    <3> QED BY <3>1, CutKeepsBody
  <2> HIDE DEF new, n
  <2>2. new \in D
    BY <2>1
  <2> QED BY <2>2 DEF new
<1> HIDE DEF D
<1>3. \E f : Solves(f)
  <2> DEFINE st == [p \in (1..n) \X D |-> next(p[2], p[1])]
  <2> HIDE DEF next
  <2>1. st \in [(1..n) \X D -> D]
    BY <1>2
  <2>2. \A i \in 1..n : \A m \in D : st[<<i, m>>] = next(m, i)
    OBVIOUS
  <2> HIDE DEF st
  <2>3. \E f : Recurses(f, n, D, ms, st)
    BY <1>1, <2>1, RecursionExists
  <2>4. PICK f \in [0..n -> D] : f[0] = ms /\ \A i \in 1..n : f[i] = st[<<i, f[i - 1]>>]
    BY <2>3 DEF Recurses
  <2>5. \A i \in 0..n : f[i] = IF i = 0 THEN ms ELSE next(f[i - 1], i)
    <3>1. ASSUME NEW i \in 1..n PROVE f[i] = next(f[i - 1], i)
      <4>1. f[i] = st[<<i, f[i - 1]>>] /\ f[i - 1] \in D
        BY <1>1, <2>4
      <4> QED BY <2>2, <4>1
    <3> QED BY <1>1, <2>4, <3>1
  <2> DEFINE g == [i \in 0..n |-> IF i = 0 THEN ms ELSE next(f[i - 1], i)]
  <2>6. f = g
    <3>1. f = [i \in 0..n |-> f[i]]
      BY <2>4
    <3> QED BY <2>5, <3>1, Zenon
  <2> QED BY <2>6, Zenon
<1>4. Solves(shrunk)
  BY <1>3, Zenon
<1>5. \A i \in 0..n : shrunk[i] = IF i = 0 THEN ms ELSE next(shrunk[i - 1], i)
  <2> DEFINE g == [i \in 0..n |-> IF i = 0 THEN ms ELSE next(shrunk[i - 1], i)]
  <2> TAKE i \in 0..n
  <2>1. shrunk = g
    BY <1>4, Zenon
  <2>2. g[i] = IF i = 0 THEN ms ELSE next(shrunk[i - 1], i)
    BY Zenon
  <2> HIDE DEF g
  <2> QED BY <2>1, <2>2, Zenon
<1>6. enforce_input_budget(ms, max) = IF max = 0 THEN ms ELSE shrunk[n]
  BY DEF enforce_input_budget
<1> HIDE DEF shrunk, Solves, next
<1> DEFINE G == {i \in Nat : i <= n => shrunk[i] \in D}
<1>7. 0 \in G
  BY <1>1, <1>5
<1>8. \A i \in Nat : i \in G => i + 1 \in G
  BY <1>1, <1>2, <1>5
<1> HIDE DEF G
<1>9. G = Nat
  BY <1>7, <1>8, Inductive DEF G
<1>10. shrunk[n] \in D
  BY <1>1, <1>9 DEF G
<1>11. enforce_input_budget(ms, max) \in D
  BY <1>1, <1>6, <1>10
<1>12. ASSUME NEW m \in D PROVE KeepsLast(ms, m)
  <2>1. m \in Seq(AMessage) /\ Len(m) = Len(ms) /\ \A k \in 1..Len(ms) : m[k].body = ms[k].body
    BY DEF D, n
  <2>2. ms # <<>> => m # <<>> /\ Len(ms) \in 1..Len(ms)
    BY <2>1
  <2> QED BY <2>1, <2>2 DEF KeepsLast
<1> QED BY <1>11, <1>12

\* No limit takes the last message.
LEMMA BudgetsKeepLast ==
    ASSUME NEW ms \in Seq(AMessage), NEW budget
    PROVE  KeepsLast(ms, enforce_budgets(ms, budget))
<1> DEFINE left == enforce_message_budget(ms, budget.messages)
           kept == enforce_input_budget(left, budget.chars)
<1>1. KeepsLast(ms, left)
  BY MessageBudgetKeepsLast
<1> HIDE DEF left
<1>2. left \in Seq(AMessage)
  BY <1>1 DEF KeepsLast
<1>3. KeepsLast(left, kept)
  BY <1>2, InputBudgetKeepsLast
<1> HIDE DEF kept
<1>4. KeepsLast(ms, kept)
  BY <1>1, <1>3 DEF KeepsLast
<1> QED BY <1>4 DEF enforce_budgets, kept, left

-----------------------------------------------------------------------------
(* Tokens                                                                  *)

\* The tokens of a message, as the upstream counts them.
Tokens(m) == [j \in DOMAIN m.body |-> 1 + item_chars(m.body[j], m.cut) \div CharsPerToken]
AllTokens(ms) == [i \in DOMAIN ms |-> Total(Tokens(ms[i]))]

LEMMA QuarterIs ==
    ASSUME NEW c \in Nat
    PROVE  c \div 4 \in Nat /\ 4 * (c \div 4) <= c /\ c <= 4 * (c \div 4) + 3
OBVIOUS

\* A message has at least a token for each four bytes.
LEMMA MessageTokens ==
    ASSUME NEW m \in AMessage
    PROVE  Total(Tokens(m)) \in Nat /\ count_message_chars(m) <= 4 * Total(Tokens(m))
<1> DEFINE t == Tokens(m)
           p == Parts(m)
           n == Len(m.body)
<1>1. /\ p \in Seq(Nat) /\ Len(p) = n /\ \A j \in 1..n : p[j] = item_chars(m.body[j], m.cut)
      /\ count_message_chars(m) = Total(p)
  BY PartsAre
<1>2. DOMAIN m.body = 1..n /\ n \in Nat
  BY DEF AMessage
<1>3. \A j \in 1..n : LET c == item_chars(m.body[j], m.cut) IN
         1 + c \div 4 \in Nat /\ c <= 4 * (1 + c \div 4)
  <2> TAKE j \in 1..n
  <2> DEFINE c == item_chars(m.body[j], m.cut)
  <2>1. c \in Nat
    BY ItemChars
  <2> HIDE DEF c
  <2>2. c \div 4 \in Nat /\ c <= 4 * (c \div 4) + 3
    BY <2>1, QuarterIs
  <2>3. 1 + c \div 4 \in Nat /\ c <= 4 * (1 + c \div 4)
    BY <2>1, <2>2
  <2> QED BY <2>3 DEF c
<1>4. /\ t \in Seq(Nat) /\ Len(t) = n
      /\ \A j \in 1..n : t[j] = 1 + item_chars(m.body[j], m.cut) \div 4
  BY <1>2, <1>3 DEF Tokens, CharsPerToken
<1> HIDE DEF t, p, n
<1>5. \A j \in 1..Len(p) : p[j] <= 4 * t[j]
  BY <1>1, <1>3, <1>4
<1>6. Total(p) <= 4 * Total(t)
  BY <1>1, <1>4, <1>5, TotalAtMost
<1>7. Total(t) \in Nat
  BY <1>4, TotalType
<1> QED BY <1>1, <1>6, <1>7 DEF t

\* What the upstream counts is at least a token for each four bytes.
LEMMA TokensAreMany ==
    ASSUME NEW ms \in Seq(AMessage)
    PROVE  UpstreamTokens(ms) \in Nat /\ content_chars(ms) <= 4 * UpstreamTokens(ms)
<1> DEFINE t == AllTokens(ms)
           p == Sizes(ms)
           n == Len(ms)
<1>1. /\ p \in Seq(Nat) /\ Len(p) = n /\ \A i \in 1..n : p[i] = count_message_chars(ms[i])
      /\ content_chars(ms) = Total(p)
  BY SizesAre
<1>2. DOMAIN ms = 1..n /\ n \in Nat /\ \A i \in 1..n : ms[i] \in AMessage
  OBVIOUS
<1>3. \A i \in 1..n : Total(Tokens(ms[i])) \in Nat
                      /\ count_message_chars(ms[i]) <= 4 * Total(Tokens(ms[i]))
  BY <1>2, MessageTokens
<1>4. t \in Seq(Nat) /\ Len(t) = n /\ \A i \in 1..n : t[i] = Total(Tokens(ms[i]))
  BY <1>2, <1>3 DEF AllTokens
<1>5. UpstreamTokens(ms) = Total(t)
  BY DEF UpstreamTokens, AllTokens, Tokens
<1> HIDE DEF t, p, n
<1>6. \A i \in 1..Len(p) : p[i] <= 4 * t[i]
  BY <1>1, <1>3, <1>4
<1>7. Total(p) <= 4 * Total(t)
  BY <1>1, <1>4, <1>6, TotalAtMost
<1>8. Total(t) \in Nat
  BY <1>4, TotalType
<1> QED BY <1>1, <1>5, <1>7, <1>8

\* Four times what is scaled up from sent to full is all of full, but for one
\* byte that is rounded off.
LEMMA ScaledIsEnough ==
    ASSUME NEW in \in Nat, NEW full \in Nat, NEW sent \in Nat, 0 < sent, sent < full,
           sent <= 4 * in
    PROVE  Rounded(in * full, sent) \in Nat /\ full <= 4 * Rounded(in * full, sent) + 1
<1> DEFINE p == in * full
           a == 2 * p + sent
           b == 2 * sent
           q == a \div b
<1>1. p \in Nat /\ a \in Nat /\ b \in Nat \ {0}
  OBVIOUS
<1>2. sent * full <= 4 * p
  <2>1. sent * full <= (4 * in) * full
    OBVIOUS
  <2>2. (4 * in) * full = 4 * (in * full)
    OBVIOUS
  <2> QED BY <2>1, <2>2
<1> HIDE DEF p
<1>3. q \in Nat /\ a < b * (q + 1)
  <2> HIDE DEF a, b
  <2>1. q \in Int /\ b * q <= a /\ a < b * q + b
    BY <1>1
  <2>2. b * (q + 1) = b * q + b
    BY <1>1, <2>1
  <2>3. q \in Nat
    BY <1>1
  <2> QED BY <2>1, <2>2, <2>3
<1> HIDE DEF q
<1>4. 4 * p < sent * (4 * q + 2)
  <2>1. b * (q + 1) = 2 * (sent * (q + 1))
    BY <1>3
  <2>2. sent * (q + 1) = sent * q + sent
    BY <1>3
  <2>3. sent * (4 * q + 2) = 4 * (sent * q) + 2 * sent
    BY <1>3
  <2>4. sent * q \in Nat
    BY <1>3
  <2> DEFINE x == sent * q
             y == sent * (q + 1)
             z == sent * (4 * q + 2)
  <2>5. x \in Nat /\ y = x + sent /\ z = 4 * x + 2 * sent /\ 2 * p + sent < 2 * y
    BY <1>3, <2>1, <2>2, <2>3, <2>4
  <2> HIDE DEF x, y, z
  <2>6. 4 * p < z
    BY <1>1, <2>5
  <2> QED BY <2>6 DEF z
<1>5. sent * full < sent * (4 * q + 2)
  BY <1>1, <1>2, <1>3, <1>4
<1>6. full < 4 * q + 2
  <2> SUFFICES ASSUME 4 * q + 2 <= full PROVE FALSE
    BY <1>3
  <2>1. sent * (4 * q + 2) <= sent * full
    BY <1>3
  <2> QED BY <1>3, <1>5, <2>1
<1>7. q = Rounded(in * full, sent)
  BY DEF Rounded, q, a, b, p
<1> QED BY <1>3, <1>6, <1>7

-----------------------------------------------------------------------------
(* The list of models                                                      *)

\* The resolved models, and what each has upstream.
ModelsAreListed ==
    /\ Len(models) \in Nat \ {0} /\ DOMAIN models = 1..Len(models)
    /\ \A i \in DOMAIN models :
          models[i].window \in Window /\ Key(models[i]) \in DOMAIN Offered

\* Nothing but the upstream's own answer, or that there was none, is remembered.
CacheIsTrue ==
    /\ DOMAIN cache = DOMAIN Offered
    /\ \A k \in DOMAIN Offered : cache[k] \in {Absent, None, Offered[k]}

AList == [pc : {"idle", "look", "fetch", "keep", "answered"}, at : Nat, got : Window,
          found : Seq(Window), knew : SUBSET DOMAIN Offered]

\* The window of the i-th model may be told to be this.
Own(ms, i, window) ==
    IF ms[i].window # None THEN window = ms[i].window
    ELSE window \in {None, Offered[Key(ms[i])]}

\* Of the models ms and the cache kept: a request has told the windows of the
\* models before the one that it is at; it fetches what it did not know, and what
\* it knew is still known.
ListIsTrue(list, ms, kept) ==
    /\ list \in AList
    /\ Len(list.found) <= Len(ms) /\ list.at = Len(list.found) + 1
    /\ list.pc # "answered" => list.at \in DOMAIN ms
    /\ list.pc = "answered" => Len(list.found) = Len(ms)
    /\ \A i \in DOMAIN list.found : Own(ms, i, list.found[i])
    /\ list.pc \in {"fetch", "keep"} =>
          ms[list.at].window = None /\ Key(ms[list.at]) \notin list.knew
    /\ list.pc = "keep" => list.got \in {None, Offered[Key(ms[list.at])]}
    /\ \A k \in list.knew : kept[k] # Absent

CatalogInv ==
    /\ ModelsAreListed /\ CacheIsTrue
    /\ DOMAIN lists = Lists /\ \A l \in Lists : ListIsTrue(lists[l], models, cache)

-----------------------------------------------------------------------------
(* The list of models at the start                                         *)

LEMMA NoListIsTrue == ModelsAreListed => ListIsTrue(NoList, models, cache)
<1> SUFFICES ASSUME ModelsAreListed PROVE ListIsTrue(NoList, models, cache)
  OBVIOUS
<1>1. <<>> \in Seq(Window) /\ Len(<<>>) = 0 /\ DOMAIN <<>> = {} /\ None \in Window
  BY DEF Window
<1>2. NoList \in AList
  BY <1>1 DEF NoList, AList
<1> QED BY <1>1, <1>2 DEF NoList, ListIsTrue, ModelsAreListed

LEMMA CatalogInit == Init => CatalogInv
<1> SUFFICES ASSUME Init PROVE CatalogInv
  OBVIOUS
<1>1. PICK entries \in Configs : models = [i \in DOMAIN entries |-> resolve_provider(entries[i])]
  BY DEF Init
<1>2. /\ Len(entries) \in Nat \ {0} /\ DOMAIN entries = 1..Len(entries)
      /\ \A i \in DOMAIN entries :
            LET p == resolve_provider(entries[i])
            IN  p.window \in Window /\ <<p.base, p.model>> \in DOMAIN Offered
  BY ConfigsAssumption
<1>3. DOMAIN models = 1..Len(entries)
  BY <1>1, <1>2
<1>4. Len(models) = Len(entries)
  BY <1>2, <1>3
<1>5. ModelsAreListed
  BY <1>1, <1>2, <1>3, <1>4 DEF ModelsAreListed, Key
<1>6. CacheIsTrue
  BY DEF Init, CacheIsTrue
<1>7. DOMAIN lists = Lists /\ \A l \in Lists : lists[l] = NoList
  BY DEF Init
<1> QED BY <1>5, <1>6, <1>7, NoListIsTrue DEF CatalogInv

-----------------------------------------------------------------------------
(* The steps of a request                                                  *)

\* What a request holds stays true as long as nothing is forgotten.
LEMMA NothingForgotten ==
    ASSUME NEW list, NEW kept, ListIsTrue(list, models, cache),
           \A k \in DOMAIN Offered : cache[k] # Absent => kept[k] # Absent
    PROVE  ListIsTrue(list, models, kept)
<1>1. list.knew \subseteq DOMAIN Offered
  BY DEF ListIsTrue, AList
<1> QED BY <1>1 DEF ListIsTrue

\* A request that is told one more window.
LEMMA FoundIsTrue ==
    ASSUME ModelsAreListed, NEW kept, NEW list, ListIsTrue(list, models, kept),
           list.pc \in {"look", "keep"},
           NEW window \in Window, Own(models, list.at, window)
    PROVE  ListIsTrue(Found(list, window), models, kept)
<1> DEFINE found == Append(list.found, window)
           pc == IF list.at = Len(models) THEN "answered" ELSE "look"
           new == [list EXCEPT !.found = found, !.at = list.at + 1, !.pc = pc]
<1>1. /\ list \in AList /\ list.found \in Seq(Window) /\ list.at = Len(list.found) + 1
      /\ list.at \in 1..Len(models) /\ Len(models) \in Nat /\ Len(list.found) \in Nat
      /\ DOMAIN list.found = 1..Len(list.found)
  BY DEF ListIsTrue, AList, ModelsAreListed
<1>2. /\ found \in Seq(Window) /\ Len(found) = Len(list.found) + 1
      /\ DOMAIN found = 1..(Len(list.found) + 1)
      /\ found[Len(list.found) + 1] = window
      /\ \A i \in 1..Len(list.found) : found[i] = list.found[i]
  BY <1>1
<1>3. /\ pc \in {"look", "answered"} /\ (pc = "look" => list.at + 1 \in 1..Len(models))
      /\ pc = "answered" => Len(list.found) + 1 = Len(models)
  BY <1>1
<1>4. Found(list, window) = new
  BY DEF Found
<1>5. \A i \in DOMAIN found : Own(models, i, found[i])
  BY <1>1, <1>2 DEF ListIsTrue
<1>6. list.at + 1 \in Nat /\ Len(found) <= Len(models)
  BY <1>1, <1>2
<1> HIDE DEF found, pc
<1>7. /\ new \in AList /\ new.pc = pc /\ new.found = found /\ new.at = list.at + 1
      /\ new.knew = list.knew
  BY <1>1, <1>2, <1>3, <1>6 DEF AList
<1> HIDE DEF new
<1>8. \A k \in list.knew : kept[k] # Absent
  BY DEF ListIsTrue
<1>9. ListIsTrue(new, models, kept)
  BY <1>1, <1>2, <1>3, <1>5, <1>6, <1>7, <1>8 DEF ListIsTrue, ModelsAreListed
<1> QED BY <1>4, <1>9

\* One request moves on, while the others stay where they are.
LEMMA OneListMoves ==
    ASSUME CatalogInv, NEW l \in Lists, NEW list, ListIsTrue(list, models, cache'),
           lists' = [lists EXCEPT ![l] = list], UNCHANGED models,
           CacheIsTrue',
           \A k \in DOMAIN Offered : cache[k] # Absent => cache'[k] # Absent
    PROVE  CatalogInv'
<1>1. /\ DOMAIN lists' = Lists /\ lists'[l] = list
      /\ \A m \in Lists : m # l => lists'[m] = lists[m]
  BY DEF CatalogInv
<1>2. ModelsAreListed'
  BY DEF CatalogInv, ModelsAreListed, Key
<1>3. \A m \in Lists : ListIsTrue(lists'[m], models, cache')
  <2> TAKE m \in Lists
  <2>1. CASE m = l
    BY <2>1, <1>1
  <2>2. CASE m # l
    <3>1. ListIsTrue(lists[m], models, cache)
      BY DEF CatalogInv
    <3>2. ListIsTrue(lists[m], models, cache')
      BY <3>1, NothingForgotten
    <3> QED BY <2>2, <3>2, <1>1
  <2> QED BY <2>1, <2>2
<1>4. \A m \in Lists : ListIsTrue(lists'[m], models', cache')
  BY <1>3
<1> QED BY <1>1, <1>2, <1>4 DEF CatalogInv

LEMMA ListNext ==
    ASSUME CatalogInv, NEW l \in Lists, List(l)
    PROVE  CatalogInv'
<1> DEFINE knew == {k \in DOMAIN cache : cache[k] # Absent}
           list == [lists[l] EXCEPT !.pc = "look", !.knew = knew]
<1>1. lists' = [lists EXCEPT ![l] = list] /\ UNCHANGED <<models, cache>>
  BY DEF List
<1>2. lists[l] \in AList /\ lists[l].pc = "idle" /\ ListIsTrue(lists[l], models, cache)
  BY DEF List, CatalogInv, ListIsTrue
<1>3. knew \in SUBSET DOMAIN Offered /\ \A k \in knew : cache[k] # Absent
  BY DEF CatalogInv, CacheIsTrue
<1> HIDE DEF knew
<1>4. /\ list \in AList /\ list.pc = "look" /\ list.knew = knew /\ list.found = lists[l].found
      /\ list.at = lists[l].at
  BY <1>2, <1>3 DEF AList
<1> HIDE DEF list
<1>5. ListIsTrue(list, models, cache)
  BY <1>2, <1>3, <1>4 DEF ListIsTrue
<1>6. CacheIsTrue'
  BY <1>1 DEF CatalogInv, CacheIsTrue
<1> QED BY <1>1, <1>5, <1>6, OneListMoves

LEMMA LookNext ==
    ASSUME CatalogInv, NEW l \in Lists, Look(l)
    PROVE  CatalogInv'
<1> DEFINE p == At(l)
           list == CASE p.window # None -> Found(lists[l], p.window)
                     [] p.window = None /\ Remembered(p) -> Found(lists[l], cache[Key(p)])
                     [] OTHER -> [lists[l] EXCEPT !.pc = "fetch"]
<1>1. lists' = [lists EXCEPT ![l] = list] /\ UNCHANGED <<models, cache>>
  BY DEF Look
<1>2. /\ lists[l] \in AList /\ lists[l].pc = "look" /\ ListIsTrue(lists[l], models, cache)
      /\ ModelsAreListed /\ CacheIsTrue
  BY DEF Look, CatalogInv, ListIsTrue
<1>3. /\ lists[l].at \in DOMAIN models /\ p = models[lists[l].at]
      /\ p.window \in Window /\ Key(p) \in DOMAIN Offered
  BY <1>2 DEF ListIsTrue, ModelsAreListed, At
<1>4. ListIsTrue(list, models, cache)
  <2>1. CASE p.window # None
    <3>1. list = Found(lists[l], p.window)
      BY <2>1
    <3>2. Own(models, lists[l].at, p.window)
      BY <2>1, <1>3 DEF Own
    <3> QED BY <3>1, <3>2, <1>2, <1>3, FoundIsTrue
  <2>2. CASE p.window = None /\ Remembered(p)
    <3>1. list = Found(lists[l], cache[Key(p)])
      BY <2>2
    <3>2. cache[Key(p)] \in {None, Offered[Key(p)]} /\ cache[Key(p)] \in Window
      BY <2>2, <1>2, <1>3 DEF Remembered, CacheIsTrue, Window
    <3>3. Own(models, lists[l].at, cache[Key(p)])
      BY <2>2, <3>2, <1>3 DEF Own
    <3> QED BY <3>1, <3>2, <3>3, <1>2, FoundIsTrue
  <2>3. CASE p.window = None /\ ~Remembered(p)
    <3> DEFINE new == [lists[l] EXCEPT !.pc = "fetch"]
    <3>1. list = new
      BY <2>3
    <3>2. /\ new \in AList /\ new.pc = "fetch" /\ new.found = lists[l].found
          /\ new.at = lists[l].at /\ new.knew = lists[l].knew
      BY <1>2 DEF AList
    <3> HIDE DEF new
    <3>3. Key(p) \notin lists[l].knew
      BY <2>3, <1>2 DEF Remembered, ListIsTrue
    <3>4. ListIsTrue(new, models, cache)
      BY <3>2, <3>3, <2>3, <1>2, <1>3 DEF ListIsTrue
    <3> QED BY <3>1, <3>4
  <2> QED BY <2>1, <2>2, <2>3
<1> HIDE DEF list
<1>5. CacheIsTrue'
  BY <1>1, <1>2 DEF CacheIsTrue
<1> QED BY <1>1, <1>4, <1>5, OneListMoves

LEMMA FetchNext ==
    ASSUME CatalogInv, NEW l \in Lists, Fetch(l)
    PROVE  CatalogInv'
<1> DEFINE got == IF upstream.up THEN Offered[Key(At(l))] ELSE None
           list == [lists[l] EXCEPT !.pc = "keep", !.got = got]
<1>1. lists' = [lists EXCEPT ![l] = list] /\ UNCHANGED <<models, cache>>
  BY DEF Fetch
<1>2. /\ lists[l] \in AList /\ lists[l].pc = "fetch" /\ ListIsTrue(lists[l], models, cache)
      /\ ModelsAreListed /\ CacheIsTrue
  BY DEF Fetch, CatalogInv, ListIsTrue
<1>3. Key(models[lists[l].at]) \in DOMAIN Offered
  BY <1>2 DEF ListIsTrue, ModelsAreListed
<1>4. got \in {None, Offered[Key(models[lists[l].at])]} /\ got \in Window
  BY <1>3 DEF At, Window
<1> HIDE DEF got
<1>5. /\ list \in AList /\ list.pc = "keep" /\ list.found = lists[l].found /\ list.got = got
      /\ list.at = lists[l].at /\ list.knew = lists[l].knew
  BY <1>2, <1>4 DEF AList
<1> HIDE DEF list
<1>6. ListIsTrue(list, models, cache)
  BY <1>2, <1>4, <1>5 DEF ListIsTrue
<1>7. CacheIsTrue'
  BY <1>1, <1>2 DEF CacheIsTrue
<1> QED BY <1>1, <1>6, <1>7, OneListMoves

\* Whatever another request kept in between is overwritten, and never by less
\* than the upstream's answer or that there was none.
LEMMA KeepNext ==
    ASSUME CatalogInv, NEW l \in Lists, Keep(l)
    PROVE  CatalogInv'
<1> DEFINE key == Key(models[lists[l].at])
           got == lists[l].got
           list == Found(lists[l], got)
<1>1. /\ lists' = [lists EXCEPT ![l] = list] /\ UNCHANGED models
      /\ cache' = [cache EXCEPT ![key] = got]
  BY DEF Keep, At
<1>2. /\ lists[l] \in AList /\ lists[l].pc = "keep" /\ ListIsTrue(lists[l], models, cache)
      /\ ModelsAreListed /\ CacheIsTrue
  BY DEF Keep, CatalogInv, ListIsTrue
<1>3. key \in DOMAIN Offered /\ got \in {None, Offered[key]} /\ models[lists[l].at].window = None
  BY <1>2 DEF ListIsTrue, ModelsAreListed
<1>4. got \in Window /\ got # Absent
  BY <1>3 DEF Window
<1>5. /\ DOMAIN cache' = DOMAIN Offered /\ cache'[key] = got
      /\ \A k \in DOMAIN Offered : k # key => cache'[k] = cache[k]
  BY <1>1, <1>2, <1>3 DEF CacheIsTrue
<1> HIDE DEF key, got
<1>6. CacheIsTrue'
  BY <1>2, <1>3, <1>5 DEF CacheIsTrue
<1>7. \A k \in DOMAIN Offered : cache[k] # Absent => cache'[k] # Absent
  BY <1>4, <1>5
<1>8. ListIsTrue(lists[l], models, cache')
  BY <1>2, <1>7, NothingForgotten
<1>9. Own(models, lists[l].at, got)
  BY <1>3 DEF Own, key
<1>10. ListIsTrue(list, models, cache')
  BY <1>2, <1>4, <1>8, <1>9, FoundIsTrue
<1> HIDE DEF list
<1> QED BY <1>1, <1>6, <1>7, <1>10, OneListMoves

\* All else leaves the list of models alone.
LEMMA TheRestStays ==
    ASSUME CatalogInv, UNCHANGED <<models, cache, lists>>
    PROVE  CatalogInv'
BY DEF CatalogInv, ModelsAreListed, CacheIsTrue, Key

LEMMA CatalogNext == CatalogInv /\ [Next]_vars => CatalogInv'
<1> SUFFICES ASSUME CatalogInv, [Next]_vars PROVE CatalogInv'
  OBVIOUS
<1>1. ASSUME NEW l \in Lists, List(l) PROVE CatalogInv'
  BY <1>1, ListNext
<1>2. ASSUME NEW l \in Lists, Look(l) PROVE CatalogInv'
  BY <1>2, LookNext
<1>3. ASSUME NEW l \in Lists, Fetch(l) PROVE CatalogInv'
  BY <1>3, FetchNext
<1>4. ASSUME NEW l \in Lists, Keep(l) PROVE CatalogInv'
  BY <1>4, KeepNext
<1>5. CASE Outage
  BY <1>5, TheRestStays DEF Outage
<1>6. CASE Ask
  BY <1>6, TheRestStays DEF Ask, catalog
<1>7. CASE Reply
  BY <1>7, TheRestStays DEF Reply, catalog
<1>8. CASE Compact
  BY <1>8, TheRestStays DEF Compact, catalog
<1>9. CASE UNCHANGED vars
  BY <1>9, TheRestStays DEF vars, catalog
<1> QED BY <1>1, <1>2, <1>3, <1>4, <1>5, <1>6, <1>7, <1>8, <1>9 DEF Next

-----------------------------------------------------------------------------
(* The window of each model                                                *)

\* Whatever requests for the list run at once, whichever models share an upstream
\* or a name, and whenever the upstream is down: a listed window is the override,
\* or what the model's own upstream says of it, or nothing, and no request asks
\* for what was remembered when it came (resolve_context_window, app.rs:43-62).
THEOREM EachModelItsWindow == Spec => []WindowsAreKept
<1>1. CatalogInv => WindowsAreKept
  <2> SUFFICES ASSUME CatalogInv PROVE WindowIsItsOwn /\ FetchedOnce
    BY DEF WindowsAreKept
  <2>1. \A l \in Lists : ListIsTrue(lists[l], models, cache)
    BY DEF CatalogInv
  <2>2. WindowIsItsOwn
    BY <2>1 DEF WindowIsItsOwn, ListIsTrue, Own, Key
  <2>3. FetchedOnce
    BY <2>1 DEF FetchedOnce, ListIsTrue, At, Key
  <2> QED BY <2>2, <2>3
<1> QED BY <1>1, CatalogInit, CatalogNext, PTL DEF Spec

-----------------------------------------------------------------------------
(* The conversation                                                        *)

AClient == [pc : {"starting", "ready", "waiting"}, style : {"replaying", "chained"},
            window : Nat, turns : 0..MaxTurns, known : Seq(AnItem), calls : Seq(AnItem),
            reported : Nat]
AUsage == [input : Nat, output : Nat, total : Nat]
ATurn == [full : Seq(AMessage), sent : Seq(AMessage), new : Seq(AnItem), estimate : Nat,
          usage : AUsage]

TalkTyped ==
    /\ client \in AClient /\ history \in Seq(AMessage) /\ turn \in ATurn
    /\ turn.usage.total = turn.usage.input + turn.usage.output
    /\ client.pc = "starting" <=> lists[ClientsList].pc # "answered"

\* What is known of a turn while the client waits for it: what was estimated,
\* and, if it replays, that all it knows was measured and that something counts.
Asked ==
    client.pc = "waiting" =>
        /\ turn.estimate = estimate_tokens(turn.full)
        /\ client.style = "replaying" =>
              /\ turn.full = items_to_chat_messages(client.known)
              /\ client.turns \notin Silent => content_chars(turn.sent) # 0

\* What is known between turns: what was reported is at least what was estimated,
\* and at least a quarter of what a replaying client knows, but for one byte; a
\* client that has just compacted its conversation knows a summary only.
Told ==
    client.pc # "waiting" =>
        /\ content_chars(turn.sent) # 0 => turn.estimate <= turn.usage.input
        /\ client.style = "replaying" /\ client.turns \notin Silent =>
              Size <= 4 * client.reported + 1 \/ (Size <= 5 /\ client.reported = 0)

\* A window has room for more than one token. (A summary has more than that: a
\* client whose window is one token long never has room for it.)
Fits(window) == window = None \/ window > 1
Roomy ==
    /\ Bundled > 1 /\ \A k \in DOMAIN Offered : Fits(Offered[k])
    /\ \A entries \in Configs : \A i \in DOMAIN entries :
          Fits(resolve_provider(entries[i]).window)

RoomInv == client.window > 1 /\ \A i \in DOMAIN models : Fits(models[i].window)

UpstreamInv == upstream.up \in BOOLEAN /\ upstream.outages \in 0..MaxOutages

TalkInv == TalkTyped /\ Asked /\ Told

\* The size of a conversation is what its items weigh.
LEMMA SizeIs ==
    ASSUME client.known \in Seq(AnItem)
    PROVE  /\ Size = Total(Weights(client.known)) /\ Size \in Nat
           /\ items_to_chat_messages(client.known) \in Seq(AMessage)
<1>1. <<>> \in Seq(AMessage)
  OBVIOUS
<1>2. /\ append_items(<<>>, client.known) \in Seq(AMessage)
      /\ content_chars(append_items(<<>>, client.known))
            = content_chars(<<>>) + Total(Weights(client.known))
  BY <1>1, AppendItemsWeighs
<1>3. content_chars(<<>>) = 0 /\ Total(Weights(client.known)) \in Nat
  BY ContentEmpty, WeightsAre
<1> HIDE DEF append_items, content_chars, Weights, Total
<1>4. Size = content_chars(append_items(<<>>, client.known))
  BY DEF Size, items_to_chat_messages
<1>5. Size = Total(Weights(client.known))
  BY <1>2, <1>3, <1>4
<1>6. items_to_chat_messages(client.known) \in Seq(AMessage)
  BY <1>2 DEF items_to_chat_messages
<1> QED BY <1>3, <1>5, <1>6

\* The same of any items.
LEMMA ContentOfItems ==
    ASSUME NEW items \in Seq(AnItem)
    PROVE  /\ items_to_chat_messages(items) \in Seq(AMessage)
           /\ content_chars(items_to_chat_messages(items)) = Total(Weights(items))
           /\ Total(Weights(items)) \in Nat
<1>1. <<>> \in Seq(AMessage)
  OBVIOUS
<1>2. /\ append_items(<<>>, items) \in Seq(AMessage)
      /\ content_chars(append_items(<<>>, items)) = content_chars(<<>>) + Total(Weights(items))
  BY <1>1, AppendItemsWeighs
<1>3. content_chars(<<>>) = 0 /\ Total(Weights(items)) \in Nat
  BY ContentEmpty, WeightsAre
<1> HIDE DEF append_items, content_chars, Weights, Total
<1> QED BY <1>2, <1>3 DEF items_to_chat_messages

LEMMA ItemIs ==
    ASSUME NEW kind \in Spoken, NEW n \in Nat
    PROVE  Item(kind, n) \in AnItem /\ Item(kind, n).kind = kind /\ Item(kind, n).turn = n
BY DEF Item, NoCall, AnItem

\* What is new in a request: outputs, or what the user says.
LEMMA NewsAre ==
    ASSUME client \in AClient, NEW n \in Nat
    PROVE  LET new == News(n)
           IN  /\ new \in Seq(AnItem) /\ new # <<>>
               /\ \/ /\ \A j \in 1..Len(new) : new[j].kind # "output"
                     /\ new[Len(new)].kind = "user" /\ new[Len(new)].turn = n
                  \/ /\ \A j \in 1..Len(new) : new[j].kind # "user"
                     /\ new[Len(new)].kind = "output"
<1> DEFINE calls == client.calls
           user == Item("user", n)
           outputs == [i \in DOMAIN calls |-> Output(n, calls[i].call)]
<1>1. calls \in Seq(AnItem)
  BY DEF AClient
<1>2. CASE calls = <<>>
  <2>1. user \in AnItem /\ user.kind = "user" /\ user.turn = n
    BY ItemIs DEF Spoken
  <2>2. News(n) = <<user>>
    BY <1>2 DEF News
  <2> HIDE DEF user
  <2>3. <<user>> \in Seq(AnItem) /\ <<user>> # <<>> /\ Len(<<user>>) = 1 /\ <<user>>[1] = user
    BY <2>1
  <2>4. \A j \in 1..1 : <<user>>[j].kind # "output"
    BY <2>1
  <2> QED BY <2>1, <2>2, <2>3, <2>4
<1>3. CASE calls # <<>>
  <2>1. News(n) = outputs
    BY <1>3 DEF News
  <2>2. Len(calls) \in Nat \ {0} /\ DOMAIN calls = 1..Len(calls)
    BY <1>1, <1>3
  <2>3. \A i \in 1..Len(calls) : Output(n, calls[i].call) \in AnItem
                                 /\ Output(n, calls[i].call).kind = "output"
    <3> TAKE i \in 1..Len(calls)
    <3> DEFINE call == calls[i].call
    <3>1. calls[i] \in AnItem
      BY <1>1
    <3>2. call \in Nat \X Nat
      BY <3>1 DEF AnItem
    <3> HIDE DEF call
    <3>3. Output(n, call) \in AnItem /\ Output(n, call).kind = "output"
      BY <3>2 DEF Output, AnItem, Spoken
    <3> QED BY <3>3 DEF call
  <2> HIDE DEF calls
  <2>4. outputs \in [1..Len(calls) -> AnItem]
    BY <2>2, <2>3
  <2>5. outputs \in Seq(AnItem) /\ Len(outputs) = Len(calls)
        /\ \A j \in 1..Len(outputs) : outputs[j].kind = "output"
    BY <2>2, <2>3, <2>4
  <2> HIDE DEF outputs
  <2>6. Len(outputs) \in 1..Len(outputs) /\ outputs # <<>>
    BY <2>2, <2>5
  <2>7. \A j \in 1..Len(outputs) : outputs[j].kind # "user"
    BY <2>5
  <2> QED BY <2>1, <2>5, <2>6, <2>7
<1> QED BY <1>2, <1>3

\* The estimate is a quarter of the bytes, and at least one if there are any.
LEMMA EstimateIs ==
    ASSUME NEW ms \in Seq(AMessage)
    PROVE  /\ estimate_tokens(ms) \in Nat
           /\ \A x \in Nat \ {0} : content_chars(ms) <= 4 * x + 1 => estimate_tokens(ms) <= x
<1> DEFINE c == content_chars(ms)
           q == c \div 4
<1>1. c \in Nat
  BY SizesAre
<1> HIDE DEF c
<1>2. q \in Nat /\ 4 * q <= c
  BY <1>1, QuarterIs
<1> HIDE DEF q
<1>3. Max({1, q}) = IF q <= 1 THEN 1 ELSE q
  <2>1. {1, q} \in SUBSET Int /\ {1, q} # {} /\ \A i \in {1, q} : i \in Int
    BY <1>2
  <2> DEFINE m == IF q <= 1 THEN 1 ELSE q
  <2>2. m \in {1, q} /\ \A y \in {1, q} : m >= y
    BY <1>2
  <2>3. \A x \in {1, q} : (\A y \in {1, q} : x >= y) => x = m
    BY <1>2
  <2> QED BY <2>2, <2>3 DEF Max
<1>4. estimate_tokens(ms) = IF c = 0 THEN 0 ELSE IF q <= 1 THEN 1 ELSE q
  BY <1>3 DEF estimate_tokens, CharsPerToken, c, q
<1>5. \A x \in Nat \ {0} : c <= 4 * x + 1 => q <= x
  BY <1>1, <1>2
<1> QED BY <1>1, <1>2, <1>4, <1>5 DEF c

\* The answer to its request for the list gives the client its window.
LEMMA AnsweredTalk ==
    ASSUME TalkInv, CatalogInv, CatalogInv', NEW l \in Lists, lists[l].pc # "answered",
           NEW list, lists' = [lists EXCEPT ![l] = list], UNCHANGED models, Answered(l),
           UNCHANGED <<history, turn>>
    PROVE  TalkInv' /\ (RoomInv /\ CompactsInTime /\ Roomy => RoomInv' /\ CompactsInTime')
<1> DEFINE first == lists'[l].found[1]
           window == IF first = None THEN client.window ELSE first
           ready == [client EXCEPT !.pc = "ready", !.window = window]
<1>1. /\ DOMAIN lists = Lists /\ lists'[l] = list
      /\ \A m \in Lists : m # l => lists'[m] = lists[m]
      /\ ClientsList \in Lists
  BY ContextWindowAssumption DEF CatalogInv
<1>2. CASE l = ClientsList /\ lists'[l].pc = "answered"
  <2>1. client' = ready /\ client.pc = "starting"
    BY <1>2 DEF Answered, TalkInv, TalkTyped
  <2>2. /\ ListIsTrue(lists'[l], models, cache') /\ ModelsAreListed
    BY <1>1 DEF CatalogInv
  <2>3. /\ lists'[l].found \in Seq(Window) /\ Len(lists'[l].found) = Len(models)
        /\ Len(models) \in Nat \ {0} /\ DOMAIN models = 1..Len(models)
        /\ \A i \in DOMAIN lists'[l].found : Own(models, i, lists'[l].found[i])
    BY <1>2, <2>2 DEF ListIsTrue, AList, ModelsAreListed
  <2>4. 1 \in DOMAIN models /\ first \in Window /\ Own(models, 1, first)
    BY <2>3
  <2> HIDE DEF first
  <2>5. client \in AClient /\ client.window \in Nat
    BY DEF TalkInv, TalkTyped, AClient
  <2>6. window \in Nat
    BY <2>4, <2>5 DEF Window
  <2>7. Roomy /\ RoomInv => window > 1
    <3>1. Key(models[1]) \in DOMAIN Offered
      BY <2>2, <2>4 DEF ModelsAreListed
    <3> QED BY <2>4, <3>1 DEF Roomy, RoomInv, Fits, Own
  <2> HIDE DEF window
  <2>8. /\ ready \in AClient /\ ready.pc = "ready" /\ ready.window = window
        /\ ready.style = client.style /\ ready.turns = client.turns
        /\ ready.known = client.known /\ ready.reported = client.reported
    BY <2>5, <2>6 DEF AClient
  <2> HIDE DEF ready
  <2>9. TalkTyped'
    BY <1>2, <2>1, <2>8 DEF TalkInv, TalkTyped
  <2>10. Size' = Size
    BY <2>1, <2>8 DEF Size
  <2>11. Asked' /\ CompactsInTime'
    BY <2>1, <2>8 DEF Asked, CompactsInTime, KeepsToWindow
  <2>12. Told'
    <3>1. client.pc # "waiting" /\ Told
      BY <2>1 DEF TalkInv
    <3> QED BY <2>1, <2>8, <2>10, <3>1 DEF Told
  <2>13. Roomy /\ RoomInv => RoomInv'
    BY <2>1, <2>7, <2>8 DEF RoomInv
  <2> QED BY <2>9, <2>11, <2>12, <2>13 DEF TalkInv
<1>3. CASE ~ (l = ClientsList /\ lists'[l].pc = "answered")
  <2>1. UNCHANGED client
    BY <1>3 DEF Answered
  <2>2. lists[ClientsList].pc # "answered" <=> lists'[ClientsList].pc # "answered"
    BY <1>1, <1>3
  <2>3. TalkTyped'
    BY <2>1, <2>2 DEF TalkInv, TalkTyped
  <2>4. Size' = Size
    BY <2>1 DEF Size
  <2>5. Asked' /\ Told'
    BY <2>1, <2>4 DEF TalkInv, Asked, Told
  <2>6. (CompactsInTime => CompactsInTime') /\ (RoomInv => RoomInv')
    BY <2>1, <2>4 DEF CompactsInTime, KeepsToWindow, RoomInv
  <2> QED BY <2>3, <2>5, <2>6 DEF TalkInv
<1> QED BY <1>2, <1>3

\* The other steps of the catalog leave the talk alone.
LEMMA TalkStays ==
    ASSUME TalkInv, UNCHANGED <<models, talk>>,
           lists'[ClientsList].pc # "answered" <=> lists[ClientsList].pc # "answered"
    PROVE  TalkInv' /\ (RoomInv /\ CompactsInTime => RoomInv' /\ CompactsInTime')
<1>1. UNCHANGED <<client, history, turn>> /\ Size' = Size
  BY DEF talk, Size
<1>2. TalkTyped'
  BY <1>1 DEF TalkInv, TalkTyped
<1>3. Asked' /\ Told'
  BY <1>1 DEF TalkInv, Asked, Told
<1>4. (CompactsInTime => CompactsInTime') /\ (RoomInv => RoomInv')
  BY <1>1 DEF CompactsInTime, KeepsToWindow, RoomInv
<1> QED BY <1>2, <1>3, <1>4 DEF TalkInv

LEMMA CatalogTalk ==
    ASSUME TalkInv, CatalogInv, CatalogInv',
           NEW l \in Lists, List(l) \/ Look(l) \/ Fetch(l) \/ Keep(l)
    PROVE  TalkInv' /\ (RoomInv /\ CompactsInTime /\ Roomy => RoomInv' /\ CompactsInTime')
<1>1. DOMAIN lists = Lists /\ ClientsList \in Lists
  BY ContextWindowAssumption DEF CatalogInv
<1>2. CASE List(l)
  <2>1. /\ UNCHANGED <<models, talk>>
        /\ lists'[ClientsList].pc # "answered" <=> lists[ClientsList].pc # "answered"
    BY <1>1, <1>2 DEF List
  <2> QED BY <2>1, TalkStays
<1>3. CASE Fetch(l)
  <2>1. /\ UNCHANGED <<models, talk>>
        /\ lists'[ClientsList].pc # "answered" <=> lists[ClientsList].pc # "answered"
    BY <1>1, <1>3 DEF Fetch
  <2> QED BY <2>1, TalkStays
<1>4. CASE Look(l)
  <2>1. PICK list : lists' = [lists EXCEPT ![l] = list]
    BY <1>4 DEF Look
  <2>2. lists[l].pc # "answered" /\ UNCHANGED <<models, history, turn>> /\ Answered(l)
    BY <1>4 DEF Look
  <2> QED BY <2>1, <2>2, AnsweredTalk
<1>5. CASE Keep(l)
  <2>1. PICK list : lists' = [lists EXCEPT ![l] = list]
    BY <1>5 DEF Keep
  <2>2. lists[l].pc # "answered" /\ UNCHANGED <<models, history, turn>> /\ Answered(l)
    BY <1>5 DEF Keep
  <2> QED BY <2>1, <2>2, AnsweredTalk
<1> QED BY <1>2, <1>3, <1>4, <1>5

-----------------------------------------------------------------------------
(* Ask                                                                     *)

\* A request's last message is what is new, and no limit takes it: unless it is
\* a file, something counts.
LEMMA NewsCount ==
    ASSUME NEW h \in Seq(AMessage), NEW items \in Seq(AnItem), items # <<>>,
           LET last == items[Len(items)]
           IN  \/ last.kind = "output"
               \/ last.kind = "user" /\ last.turn \notin Silent,
           NEW budget
    PROVE  content_chars(enforce_budgets(append_items(h, items), budget)) # 0
<1> DEFINE last == items[Len(items)]
           ms == append_items(h, items)
           sent == enforce_budgets(ms, budget)
           m == sent[Len(sent)]
<1>1. ms \in Seq(AMessage) /\ ms # <<>> /\ ms[Len(ms)].body = <<last>>
  BY AppendItemsWeighs, LastIsLast
<1>2. last \in AnItem
  BY DEF last
<1>3. item_chars(last, m.cut) > 0
  <2> HIDE DEF m
  <2>1. m.cut \/ ~m.cut
    OBVIOUS
  <2> QED BY <2>1, ItemChars
<1> HIDE DEF ms, last
<1>4. KeepsLast(ms, sent)
  BY <1>1, BudgetsKeepLast
<1> HIDE DEF sent
<1>5. sent \in Seq(AMessage) /\ sent # <<>> /\ m.body = <<last>>
  BY <1>1, <1>4 DEF KeepsLast
<1>6. m \in AMessage
  BY <1>5
<1>7. count_message_chars(m) <= content_chars(sent) /\ content_chars(sent) \in Nat
  BY <1>5, LastCounts, SizesAre
<1> HIDE DEF m
<1>8. count_message_chars(m) = item_chars(last, m.cut)
  BY <1>2, <1>5, <1>6, CountOne
<1>9. item_chars(last, m.cut) \in Nat
  BY ItemChars
<1>10. content_chars(sent) # 0
  BY <1>3, <1>7, <1>8, <1>9
<1> QED BY <1>10 DEF sent, ms

\* What a client asks, what is made of it, and what is known of that.
LEMMA AskIs ==
    ASSUME TalkInv, Ask
    PROVE  LET n == client.turns + 1 IN
           /\ client' = [client EXCEPT !.pc = "waiting", !.turns = n, !.known = @ \o turn'.new]
           /\ client'.known = client.known \o turn'.new /\ client'.known \in Seq(AnItem)
           /\ n \in 0..MaxTurns /\ turn'.new = News(n) /\ News(n) \in Seq(AnItem)
           /\ turn' \in ATurn /\ turn'.usage.total = turn'.usage.input + turn'.usage.output
           /\ turn'.estimate = estimate_tokens(turn'.full)
           /\ client.style = "replaying" =>
                 /\ turn'.full = items_to_chat_messages(client'.known)
                 /\ n \notin Silent => content_chars(turn'.sent) # 0
<1> DEFINE n == client.turns + 1
           new == News(n)
           h == IF client.style = "chained" THEN history ELSE <<>>
           items == IF client.style = "chained" THEN new ELSE client.known \o new
           full == append_items(h, items)
           sent == enforce_budgets(full, Provider.budget)
           next == [NoTurn EXCEPT !.full = full, !.sent = sent, !.new = new,
                                  !.estimate = estimate_tokens(full)]
<1>1. /\ client \in AClient /\ history \in Seq(AMessage) /\ client.known \in Seq(AnItem)
      /\ client.turns \in 0..MaxTurns /\ MaxTurns \in Nat
      /\ client.style \in {"replaying", "chained"}
  BY ContextWindowAssumption DEF TalkInv, TalkTyped, AClient
<1>2. n \in Nat /\ n \in 0..MaxTurns
  BY <1>1 DEF Ask
<1> HIDE DEF n
<1>3. /\ new \in Seq(AnItem) /\ new # <<>>
      /\ \/ new[Len(new)].kind = "user" /\ new[Len(new)].turn = n
         \/ new[Len(new)].kind = "output"
  BY <1>1, <1>2, NewsAre
<1> HIDE DEF new
<1>4. turn' = next /\ client' = [client EXCEPT !.pc = "waiting", !.turns = n, !.known = @ \o new]
  <2> HIDE DEF append_items, enforce_budgets, estimate_tokens, News
  <2>1. CASE client.style = "chained"
    BY <2>1 DEF Ask, Measured, responses_to_chat, merge_instructions, n, new
  <2>2. CASE client.style # "chained"
    BY <2>2 DEF Ask, Measured, responses_to_chat, merge_instructions, n, new
  <2> QED BY <2>1, <2>2
<1>5. /\ items \in Seq(AnItem) /\ items # <<>> /\ items[Len(items)] = new[Len(new)]
      /\ h \in Seq(AMessage) /\ client.known \o new \in Seq(AnItem)
  <2> DEFINE both == client.known \o new
  <2>1. /\ both \in Seq(AnItem) /\ both # <<>> /\ both[Len(both)] = new[Len(new)]
    BY <1>1, <1>3
  <2> HIDE DEF both
  <2>2. <<>> \in Seq(AMessage)
    OBVIOUS
  <2> QED BY <1>1, <1>3, <2>1, <2>2 DEF both
<1>6. client.style = "replaying" => h = <<>> /\ items = client.known \o new
  OBVIOUS
<1> HIDE DEF h, items
<1>7. full \in Seq(AMessage)
  BY <1>5, AppendItemsWeighs
<1>8. n \notin Silent => content_chars(sent) # 0
  BY <1>3, <1>5, NewsCount
<1> HIDE DEF full
<1>9. sent \in Seq(AMessage) /\ estimate_tokens(full) \in Nat
  BY <1>7, BudgetsKeepLast, EstimateIs DEF KeepsLast
<1> HIDE DEF sent
<1>10. /\ next \in ATurn /\ next.full = full /\ next.sent = sent /\ next.new = new
       /\ next.estimate = estimate_tokens(full)
       /\ next.usage.total = next.usage.input + next.usage.output
  <2> DEFINE e == estimate_tokens(full)
             made == [NoTurn EXCEPT !.full = full, !.sent = sent, !.new = new, !.estimate = e]
  <2>1. NoTurn \in ATurn /\ NoTurn.usage.total = NoTurn.usage.input + NoTurn.usage.output
    BY DEF NoTurn, ATurn, AUsage
  <2>2. made = next
    OBVIOUS
  <2>3. e \in Nat
    BY <1>9
  <2> HIDE DEF next, e
  <2>4. /\ made \in ATurn /\ made.full = full /\ made.sent = sent /\ made.new = new
        /\ made.estimate = e /\ made.usage = NoTurn.usage
    BY <1>3, <1>7, <1>9, <2>1, <2>3 DEF ATurn
  <2> HIDE DEF made
  <2> QED BY <2>1, <2>2, <2>4 DEF e
<1> HIDE DEF next
<1>11. client'.known = client.known \o new
  BY <1>1, <1>4 DEF AClient
<1>12. client.style = "replaying" => full = items_to_chat_messages(client'.known)
  BY <1>6, <1>11 DEF full, items_to_chat_messages
<1> QED BY <1>2, <1>3, <1>4, <1>5, <1>8, <1>10, <1>11, <1>12 DEF n, new

\* A client that has room asks for no more than its window and what is new.
LEMMA AskTalk ==
    ASSUME TalkInv, Ask
    PROVE  TalkInv' /\ (RoomInv => RoomInv' /\ CompactsInTime')
<1> DEFINE n == client.turns + 1
           new == turn'.new
           next == [client EXCEPT !.pc = "waiting", !.turns = n, !.known = @ \o new]
<1>1. /\ client' = next /\ client'.known = client.known \o new /\ client'.known \in Seq(AnItem)
      /\ n \in 0..MaxTurns /\ new = News(n) /\ new \in Seq(AnItem)
      /\ turn' \in ATurn /\ turn'.usage.total = turn'.usage.input + turn'.usage.output
      /\ turn'.estimate = estimate_tokens(turn'.full)
      /\ client.style = "replaying" =>
            /\ turn'.full = items_to_chat_messages(client'.known)
            /\ n \notin Silent => content_chars(turn'.sent) # 0
  BY AskIs
<1>2. /\ client \in AClient /\ client.pc = "ready" /\ client.reported < client.window
      /\ client.reported \in Nat /\ client.window \in Nat /\ client.known \in Seq(AnItem)
      /\ UNCHANGED <<history, models, lists>>
  BY DEF TalkInv, TalkTyped, AClient, Ask, catalog
<1>3. /\ next \in AClient /\ next.pc = "waiting" /\ next.turns = n /\ next.style = client.style
      /\ next.window = client.window /\ next.reported = client.reported
  <2> HIDE DEF n, new
  <2>1. client.known \o new \in Seq(AnItem)
    BY <1>1
  <2> QED BY <1>1, <1>2, <2>1 DEF AClient
<1> HIDE DEF n, next
<1>4. TalkTyped'
  BY <1>1, <1>2, <1>3 DEF TalkInv, TalkTyped
<1>5. Asked' /\ Told'
  BY <1>1, <1>3 DEF Asked, Told
<1>6. RoomInv => RoomInv'
  BY <1>1, <1>2, <1>3 DEF RoomInv
<1>7. RoomInv => CompactsInTime'
  <2> SUFFICES ASSUME RoomInv, client.style = "replaying", client.turns \notin Silent
               PROVE  Size' <= 4 * client.window + content_chars(items_to_chat_messages(new))
    <3>1. client'.turns - 1 = client.turns
      BY <1>1, <1>2, <1>3 DEF n, AClient
    <3> QED BY <1>1, <1>3, <3>1 DEF CompactsInTime, KeepsToWindow, CharsPerToken
  <2>1. \/ \A j \in 1..Len(new) : new[j].kind # "user"
        \/ \A j \in 1..Len(new) : new[j].kind # "output"
    <3>1. n \in Nat
      BY <1>1, ContextWindowAssumption
    <3> QED BY <1>1, <1>2, <3>1, NewsAre
  <2>2. Total(Weights(client.known \o new)) <= Total(Weights(client.known)) + Total(Weights(new))
    BY <1>1, <1>2, <2>1, WeightsTogether
  <2>3. Size' = Total(Weights(client.known \o new))
    <3>1. Size' = content_chars(items_to_chat_messages(client'.known))
      BY DEF Size
    <3> QED BY <1>1, <3>1, ContentOfItems
  <2>4. /\ content_chars(items_to_chat_messages(new)) = Total(Weights(new))
        /\ Total(Weights(new)) \in Nat
    BY <1>1, ContentOfItems
  <2>5. Size = Total(Weights(client.known)) /\ Size \in Nat
    BY <1>2, SizeIs
  <2>6. Size <= 4 * client.reported + 1 \/ (Size <= 5 /\ client.reported = 0)
    BY <1>2 DEF TalkInv, Told
  <2>7. client.window > 1
    BY DEF RoomInv
  <2>8. Size <= 4 * client.window
    BY <1>2, <2>5, <2>6, <2>7
  <2>9. Total(Weights(client.known \o new)) \in Nat
    BY <1>1, <1>2, WeightsAre
  <2> DEFINE a == Total(Weights(client.known \o new))
             b == Total(Weights(new))
  <2> HIDE DEF a, b
  <2>10. a <= Size + b /\ a \in Nat /\ b \in Nat
    BY <2>2, <2>4, <2>5, <2>9 DEF a, b
  <2>11. a <= 4 * client.window + b
    BY <1>2, <2>5, <2>8, <2>10
  <2> QED BY <2>3, <2>4, <2>11 DEF a, b
<1> QED BY <1>4, <1>5, <1>6, <1>7 DEF TalkInv

-----------------------------------------------------------------------------
(* Reply                                                                   *)

\* A selection from a sequence is a sequence of the same kind.
LEMMA OfKindType ==
    ASSUME NEW S, NEW s \in Seq(S), NEW kind
    PROVE  OfKind(kind, s) \in Seq(S)
<1> DEFINE parts == [i \in DOMAIN s |-> IF s[i].kind = kind THEN <<s[i]>> ELSE <<>>]
<1>1. \A i \in 1..Len(s) : (IF s[i].kind = kind THEN <<s[i]>> ELSE <<>>) \in Seq(S)
  OBVIOUS
<1>2. parts \in Seq(Seq(S))
  <2>1. parts \in [1..Len(s) -> Seq(S)]
    BY <1>1
  <2> HIDE DEF parts
  <2> QED BY <2>1
<1> HIDE DEF parts
<1>3. FlattenSeq(parts) \in Seq(S)
  BY <1>2, FlattenType
<1> QED BY <1>3 DEF OfKind, parts

Said == {"reasoning", "text", "call"}
Replied(kinds, n) ==
    [i \in DOMAIN kinds |->
        [Item(kinds[i], n) EXCEPT !.call = IF kinds[i] = "call" THEN <<n, i>> ELSE @]]

\* What the upstream replies is no message of the user.
LEMMA RepliedIs ==
    ASSUME NEW kinds \in Seq(Said), NEW n \in Nat
    PROVE  /\ Replied(kinds, n) \in Seq(AnItem)
           /\ \A j \in 1..Len(Replied(kinds, n)) : Replied(kinds, n)[j].kind # "user"
<1> DEFINE item(i) == [Item(kinds[i], n) EXCEPT !.call = IF kinds[i] = "call" THEN <<n, i>> ELSE @]
           reply == [i \in DOMAIN kinds |-> item(i)]
<1>1. \A i \in 1..Len(kinds) : item(i) \in AnItem /\ item(i).kind # "user"
  <2> TAKE i \in 1..Len(kinds)
  <2> DEFINE plain == Item(kinds[i], n)
             call == IF kinds[i] = "call" THEN <<n, i>> ELSE plain.call
             made == [plain EXCEPT !.call = call]
  <2>1. kinds[i] \in Said /\ kinds[i] \in Spoken
    BY DEF Said, Spoken
  <2>2. plain \in AnItem /\ plain.kind = kinds[i]
    BY <2>1, ItemIs
  <2>3. item(i) = made
    OBVIOUS
  <2> HIDE DEF plain
  <2>4. call \in Nat \X Nat
    <3>1. plain.call \in Nat \X Nat /\ i \in Nat
      BY <2>2 DEF AnItem
    <3>2. <<n, i>> \in Nat \X Nat
      BY <3>1
    <3> QED BY <3>1, <3>2
  <2> HIDE DEF call
  <2>5. made \in AnItem /\ made.kind = kinds[i]
    BY <2>2, <2>4 DEF AnItem
  <2>6. kinds[i] # "user"
    BY <2>1 DEF Said
  <2> HIDE DEF made
  <2> QED BY <2>3, <2>5, <2>6
<1>2. DOMAIN kinds = 1..Len(kinds) /\ Len(kinds) \in Nat
  OBVIOUS
<1> HIDE DEF item
<1>3. /\ reply \in Seq(AnItem) /\ Len(reply) = Len(kinds)
      /\ \A j \in 1..Len(kinds) : reply[j] = item(j)
  BY <1>1, <1>2
<1>4. Replied(kinds, n) = reply
  BY DEF Replied, item
<1> HIDE DEF reply
<1> QED BY <1>1, <1>3, <1>4

\* The usage that a client is told, of a request that was full before the limits
\* and sent after them: its input is at least the bytes of full, four to a token
\* and but for one, when anything was sent that counts.
LEMMA UsageIs ==
    ASSUME NEW full \in Seq(AMessage), NEW sent \in Seq(AMessage), NEW said \in Seq(AMessage)
    PROVE  LET in == UpstreamTokens(sent)
               out == UpstreamTokens(said)
               usage == apply_input_char_scale(
                           [input |-> in, output |-> out, total |-> in + out],
                           content_chars(full), content_chars(sent))
           IN  /\ usage \in AUsage /\ usage.total = usage.input + usage.output
               /\ content_chars(said) <= 4 * usage.output
               /\ content_chars(sent) # 0 =>
                     usage.input # 0 /\ content_chars(full) <= 4 * usage.input + 1
<1> DEFINE in == UpstreamTokens(sent)
           out == UpstreamTokens(said)
           f == content_chars(full)
           s == content_chars(sent)
           told == [input |-> in, output |-> out, total |-> in + out]
           usage == apply_input_char_scale(told, f, s)
           scaled == Rounded(in * f, s)
<1>1. in \in Nat /\ out \in Nat /\ s <= 4 * in /\ content_chars(said) <= 4 * out
  BY TokensAreMany
<1>2. f \in Nat /\ s \in Nat
  BY SizesAre
<1>3. CASE f <= s \/ s = 0
  <2> HIDE DEF in, out, f, s
  <2>1. usage = told
    BY <1>3 DEF apply_input_char_scale
  <2>2. told \in AUsage /\ told.input = in /\ told.output = out /\ told.total = in + out
    BY <1>1 DEF AUsage
  <2> HIDE DEF told, usage
  <2>3. s # 0 => in # 0 /\ f <= 4 * in + 1
    BY <1>1, <1>2, <1>3
  <2>4. /\ usage \in AUsage /\ usage.total = usage.input + usage.output
        /\ content_chars(said) <= 4 * usage.output
        /\ s # 0 => usage.input # 0 /\ f <= 4 * usage.input + 1
    BY <1>1, <2>1, <2>2, <2>3
  <2> QED BY <2>4 DEF usage, told, in, out, f, s
<1>4. CASE s < f /\ 0 < s
  <2> HIDE DEF in, out, f, s
  <2>1. scaled \in Nat /\ f <= 4 * scaled + 1
    BY <1>1, <1>2, <1>4, ScaledIsEnough
  <2> DEFINE grown == [told EXCEPT !.input = scaled, !.total = scaled + out]
  <2>2. usage = grown
    <3>1. told.input = in /\ told.output = out
      OBVIOUS
    <3>2. ~(f <= s \/ s = 0)
      BY <1>2, <1>4
    <3>3. usage = [told EXCEPT !.input = Rounded(told.input * f, s),
                               !.total = Rounded(told.input * f, s) + told.output]
      <4> HIDE DEF told
      <4> QED BY <3>2 DEF apply_input_char_scale
    <3> HIDE DEF told, usage
    <3> QED BY <3>1, <3>3
  <2> HIDE DEF scaled, usage
  <2>3. /\ grown \in AUsage /\ grown.input = scaled /\ grown.output = out
        /\ grown.total = scaled + out
    <3>1. told \in AUsage /\ told.output = out
      BY <1>1 DEF AUsage
    <3> HIDE DEF told
    <3>2. scaled + out \in Nat
      BY <1>1, <2>1
    <3> QED BY <2>1, <3>1, <3>2 DEF AUsage
  <2> HIDE DEF grown
  <2>4. scaled # 0
    BY <1>2, <1>4, <2>1
  <2>5. /\ usage \in AUsage /\ usage.total = usage.input + usage.output
        /\ content_chars(said) <= 4 * usage.output
        /\ s # 0 => usage.input # 0 /\ f <= 4 * usage.input + 1
    BY <1>1, <2>1, <2>2, <2>3, <2>4
  <2> QED BY <2>5 DEF usage, told, in, out, f, s
<1>5. (f <= s \/ s = 0) \/ (s < f /\ 0 < s)
  <2> HIDE DEF f, s
  <2> QED BY <1>2
<1> QED BY ONLY <1>3, <1>4, <1>5, Zenon

\* What is reported covers what the client now knows.
LEMMA ReplyTalk ==
    ASSUME TalkInv, Reply
    PROVE  TalkInv' /\ (RoomInv => RoomInv' /\ CompactsInTime')
<1> DEFINE n == client.turns
<1>1. PICK kinds \in Replies :
         LET reply == Replied(kinds, n)
             said == items_to_chat_messages(reply)
             in == UpstreamTokens(turn.sent)
             out == UpstreamTokens(said)
             usage == apply_input_char_scale(
                         [input |-> in, output |-> out, total |-> in + out],
                         content_chars(turn.full), content_chars(turn.sent))
         IN  /\ turn' = [turn EXCEPT !.usage = usage]
             /\ history' = turn.sent \o said
             /\ client' = [client EXCEPT !.pc = "ready", !.known = @ \o reply,
                              !.calls = OfKind("call", reply), !.reported = usage.total]
  BY DEF Reply, Replied
<1> DEFINE reply == Replied(kinds, n)
           said == items_to_chat_messages(reply)
           in == UpstreamTokens(turn.sent)
           out == UpstreamTokens(said)
           usage == apply_input_char_scale(
                       [input |-> in, output |-> out, total |-> in + out],
                       content_chars(turn.full), content_chars(turn.sent))
           calls == OfKind("call", reply)
           replied == [turn EXCEPT !.usage = usage]
           next == [client EXCEPT !.pc = "ready", !.known = @ \o reply,
                                  !.calls = calls, !.reported = usage.total]
<1>2. turn' = replied /\ history' = turn.sent \o said /\ client' = next
  BY <1>1
<1>3. /\ client \in AClient /\ client.pc = "waiting" /\ n \in Nat /\ client.known \in Seq(AnItem)
      /\ turn \in ATurn /\ turn.full \in Seq(AMessage) /\ turn.sent \in Seq(AMessage)
      /\ UNCHANGED <<models, lists>> /\ kinds \in Seq(Said)
  BY ContextWindowAssumption DEF TalkInv, TalkTyped, AClient, ATurn, Reply, catalog, Said
<1> HIDE DEF n
<1>4. reply \in Seq(AnItem) /\ \A j \in 1..Len(reply) : reply[j].kind # "user"
  BY <1>3, RepliedIs
<1> HIDE DEF reply
<1>5. said \in Seq(AMessage) /\ content_chars(said) = Total(Weights(reply))
      /\ Total(Weights(reply)) \in Nat
  BY <1>4, ContentOfItems
<1> HIDE DEF said
<1>6. /\ usage \in AUsage /\ usage.total = usage.input + usage.output
      /\ content_chars(said) <= 4 * usage.output
      /\ content_chars(turn.sent) # 0 =>
            usage.input # 0 /\ content_chars(turn.full) <= 4 * usage.input + 1
  BY <1>3, <1>5, UsageIs
<1> HIDE DEF usage, in, out
<1>7. usage.input \in Nat /\ usage.output \in Nat /\ usage.total \in Nat
  BY <1>6 DEF AUsage
<1>8. calls \in Seq(AnItem)
  BY <1>4, OfKindType
<1> HIDE DEF calls
<1>9. /\ replied \in ATurn /\ replied.usage = usage /\ replied.full = turn.full
      /\ replied.sent = turn.sent /\ replied.estimate = turn.estimate
  BY <1>3, <1>6 DEF ATurn
<1> HIDE DEF replied
<1>10. client.known \o reply \in Seq(AnItem)
  BY <1>3, <1>4
<1>11. /\ next \in AClient /\ next.pc = "ready" /\ next.known = client.known \o reply
       /\ next.style = client.style /\ next.turns = client.turns /\ next.reported = usage.total
       /\ next.window = client.window
  BY <1>3, <1>7, <1>8, <1>10 DEF AClient
<1> HIDE DEF next
<1>12. TalkTyped'
  <2>1. turn.sent \o said \in Seq(AMessage)
    BY <1>3, <1>5
  <2> QED BY <1>2, <1>3, <1>6, <1>9, <1>11, <2>1 DEF TalkInv, TalkTyped
<1>13. Asked' /\ CompactsInTime'
  BY <1>2, <1>11 DEF Asked, CompactsInTime, KeepsToWindow
<1>14. Told'
  <2>1. content_chars(turn'.sent) # 0 => turn'.estimate <= turn'.usage.input
    <3> SUFFICES ASSUME content_chars(turn.sent) # 0 PROVE turn.estimate <= usage.input
      BY <1>2, <1>9
    <3>1. turn.estimate = estimate_tokens(turn.full)
      BY <1>3 DEF TalkInv, Asked
    <3>2. usage.input \in Nat \ {0} /\ content_chars(turn.full) <= 4 * usage.input + 1
      BY <1>6, <1>7
    <3> QED BY <1>3, <3>1, <3>2, EstimateIs
  <2>2. ASSUME client.style = "replaying", client.turns \notin Silent
        PROVE  Size' <= 4 * client'.reported + 1
    <3>1. content_chars(turn.sent) # 0 /\ turn.full = items_to_chat_messages(client.known)
      BY <1>3, <2>2 DEF TalkInv, Asked
    <3>2. Size' = Total(Weights(client.known \o reply))
      <4>1. Size' = content_chars(items_to_chat_messages(client'.known))
        BY DEF Size
      <4> QED BY <1>2, <1>10, <1>11, <4>1, ContentOfItems
    <3>3. Total(Weights(client.known \o reply))
             <= Total(Weights(client.known)) + Total(Weights(reply))
      BY <1>3, <1>4, WeightsTogether
    <3>4. content_chars(turn.full) = Total(Weights(client.known)) /\ Total(Weights(client.known)) \in Nat
      BY <1>3, <3>1, ContentOfItems
    <3>5. Total(Weights(client.known \o reply)) \in Nat
      BY <1>10, WeightsAre
    <3> DEFINE a == Total(Weights(client.known \o reply))
               b == Total(Weights(client.known))
               c == Total(Weights(reply))
    <3>6. /\ a \in Nat /\ b \in Nat /\ c \in Nat /\ a <= b + c
          /\ b <= 4 * usage.input + 1 /\ c <= 4 * usage.output
      BY <1>5, <1>6, <3>1, <3>3, <3>4, <3>5
    <3> HIDE DEF a, b, c
    <3>7. a <= 4 * usage.total + 1
      <4> DEFINE x == usage.input
                 y == usage.output
                 z == usage.total
      <4>1. x \in Nat /\ y \in Nat /\ z = x + y /\ b <= 4 * x + 1 /\ c <= 4 * y
        BY <1>6, <1>7, <3>6
      <4> HIDE DEF x, y, z
      <4>2. a <= 4 * z + 1
        BY <3>6, <4>1
      <4> QED BY <4>2 DEF z
    <3> QED BY <1>2, <1>11, <3>2, <3>7 DEF a
  <2> QED BY <1>2, <1>11, <2>1, <2>2 DEF Told
<1>15. RoomInv => RoomInv'
  BY <1>2, <1>3, <1>11 DEF RoomInv
<1> QED BY <1>12, <1>13, <1>14, <1>15 DEF TalkInv

-----------------------------------------------------------------------------
(* Compact                                                                 *)

\* A summary is all that is left.
LEMMA CompactTalk ==
    ASSUME TalkInv, Compact
    PROVE  TalkInv' /\ (RoomInv => RoomInv' /\ CompactsInTime')
<1> DEFINE summary == Item("summary", client.turns)
           next == [client EXCEPT !.known = <<summary>>, !.calls = <<>>, !.reported = 0]
<1>1. /\ client' = next /\ history' = <<System(summary)>> /\ UNCHANGED <<models, lists, turn>>
      /\ client \in AClient /\ client.pc = "ready" /\ client.turns \in Nat
  BY ContextWindowAssumption DEF Compact, catalog, TalkInv, TalkTyped, AClient
<1>2. summary \in AnItem
  BY <1>1, ItemIs DEF Spoken
<1> HIDE DEF summary
<1>3. System(summary) \in AMessage
  BY <1>2, OneItem DEF System, Role
<1>4. <<summary>> \in Seq(AnItem) /\ Len(<<summary>>) = 1 /\ <<summary>>[1] = summary
      /\ <<System(summary)>> \in Seq(AMessage) /\ <<>> \in Seq(AnItem)
  BY <1>2, <1>3
<1> DEFINE known == <<summary>>
           calls == <<>>
<1>5. /\ next \in AClient /\ next.pc = "ready" /\ next.known = known
      /\ next.style = client.style /\ next.turns = client.turns /\ next.reported = 0
      /\ next.window = client.window
  <2>1. known \in Seq(AnItem) /\ calls \in Seq(AnItem)
    BY <1>4
  <2>2. next = [client EXCEPT !.known = known, !.calls = calls, !.reported = 0]
    OBVIOUS
  <2> HIDE DEF known, calls, next
  <2> QED BY <1>1, <2>1, <2>2 DEF AClient
<1> HIDE DEF next
<1>6. TalkTyped'
  BY <1>1, <1>4, <1>5 DEF TalkInv, TalkTyped
<1>7. Asked' /\ CompactsInTime'
  BY <1>1, <1>5 DEF Asked, CompactsInTime, KeepsToWindow
<1>8. Size' <= 5
  <2>1. Size' = Total(Weights(known))
    <3>1. Size' = content_chars(items_to_chat_messages(client'.known))
      BY DEF Size
    <3> QED BY <1>1, <1>4, <1>5, <3>1, ContentOfItems
  <2> DEFINE w == Weight(summary, 1 < old_tool_output_cutoff(known))
  <2>2. Weights(known) \in Seq(Nat) /\ Len(Weights(known)) = 1 /\ Weights(known)[1] = w
    <3>1. known \in Seq(AnItem) /\ Len(known) = 1 /\ known[1] = summary
      BY <1>4
    <3> HIDE DEF known
    <3>2. /\ Weights(known) \in Seq(Nat) /\ Len(Weights(known)) = Len(known)
          /\ \A i \in 1..Len(known) :
                Weights(known)[i] = Weight(known[i], i < old_tool_output_cutoff(known))
      BY <3>1, WeightsAre
    <3>3. 1 \in 1..Len(known)
      BY <3>1
    <3>4. Weights(known)[1] = Weight(known[1], 1 < old_tool_output_cutoff(known))
      BY <3>2, <3>3
    <3> QED BY <3>1, <3>2, <3>4
  <2>3. summary.kind # "output"
    BY <1>1 DEF summary, Item
  <2>4. w \in Nat /\ w <= 5
    BY <2>3, ItemChars DEF Weight
  <2> HIDE DEF w
  <2>5. Weights(known) = <<w>>
    <3> DEFINE v == Weights(known)
    <3> HIDE DEF v
    <3>1. v \in Seq(Nat) /\ Len(v) = 1 /\ v[1] = w
      BY <2>2 DEF v
    <3>2. v = <<w>>
      BY <2>4, <3>1
    <3> QED BY <3>2 DEF v
  <2> QED BY <2>1, <2>4, <2>5, TotalOne
<1>9. Told'
  <2>1. content_chars(turn.sent) # 0 => turn.estimate <= turn.usage.input
    BY <1>1 DEF TalkInv, Told
  <2> QED BY <1>1, <1>5, <1>8, <2>1 DEF Told
<1>10. RoomInv => RoomInv'
  BY <1>1, <1>5 DEF RoomInv
<1> QED BY <1>6, <1>7, <1>9, <1>10 DEF TalkInv

-----------------------------------------------------------------------------
(* The conversation from the start                                         *)

LEMMA TalkInit == Init => TalkInv
<1> SUFFICES ASSUME Init PROVE TalkInv
  OBVIOUS
<1>1. client \in AClient
  <2>1. <<>> \in Seq(AnItem) /\ Bundled \in Nat /\ 0 \in 0..MaxTurns
    BY ContextWindowAssumption
  <2> DEFINE nothing == <<>>
  <2>2. client \in [pc : {"starting"}, style : {"replaying", "chained"}, window : {Bundled},
                   turns : {0}, known : {nothing}, calls : {nothing}, reported : {0}]
    BY DEF Init
  <2>3. nothing \in Seq(AnItem)
    BY <2>1
  <2> HIDE DEF nothing
  <2> QED BY <2>1, <2>2, <2>3 DEF AClient
<1>2. client.pc = "starting" /\ client.known = <<>> /\ client.reported = 0
  BY DEF Init
<1>3. lists[ClientsList].pc = "idle"
  BY ContextWindowAssumption DEF Init, NoList
<1>4. /\ turn \in ATurn /\ turn.usage.total = turn.usage.input + turn.usage.output
      /\ turn.sent = <<>>
  BY DEF Init, NoTurn, ATurn, AUsage
<1>5. history \in Seq(AMessage)
  BY DEF Init
<1>6. TalkTyped /\ Asked
  BY <1>1, <1>2, <1>3, <1>4, <1>5 DEF TalkTyped, Asked
<1>7. Size = 0
  <2>1. <<>> \in Seq(AnItem) /\ Len(<<>>) = 0
    OBVIOUS
  <2> DEFINE nothing == <<>>
  <2>2. Size = Total(Weights(client.known))
    BY <1>1, SizeIs DEF AClient
  <2>3. Weights(client.known) = nothing
    <3>1. client.known \in Seq(AnItem) /\ Len(client.known) = 0
      BY <1>2, <2>1
    <3>2. Weights(client.known) \in Seq(Nat) /\ Len(Weights(client.known)) = 0
      BY <3>1, WeightsAre
    <3> DEFINE w == Weights(client.known)
    <3> HIDE DEF w
    <3>3. w \in Seq(Nat) /\ Len(w) = 0
      BY <3>2 DEF w
    <3>4. w = <<>>
      BY <3>3
    <3> QED BY <3>4 DEF w
  <2>4. Total(nothing) = 0
    BY TotalEmpty
  <2> HIDE DEF nothing
  <2> QED BY <2>2, <2>3, <2>4
<1>8. Told
  BY <1>2, <1>4, <1>7, ContentEmpty DEF Told
<1> QED BY <1>6, <1>8 DEF TalkInv

LEMMA RoomInit == Init /\ Roomy => RoomInv /\ CompactsInTime
<1> SUFFICES ASSUME Init, Roomy PROVE RoomInv /\ CompactsInTime
  OBVIOUS
<1>1. PICK entries \in Configs : models = [i \in DOMAIN entries |-> resolve_provider(entries[i])]
  BY DEF Init
<1>2. \A i \in DOMAIN models : Fits(models[i].window)
  BY <1>1 DEF Roomy
<1>3. client.window = Bundled /\ client.pc = "starting"
  BY DEF Init
<1>4. client.window > 1
  BY <1>3 DEF Roomy
<1> QED BY <1>2, <1>3, <1>4 DEF RoomInv, CompactsInTime, KeepsToWindow

\* The upstream goes down as often as it may.
LEMMA UpstreamNext == UpstreamInv /\ [Next]_vars => UpstreamInv'
<1> SUFFICES ASSUME UpstreamInv, [Next]_vars PROVE UpstreamInv'
  OBVIOUS
<1>1. CASE Outage
  <2>1. upstream.up => upstream.outages < MaxOutages
    BY <1>1 DEF Outage
  <2>2. upstream' = [up |-> ~upstream.up,
                     outages |-> upstream.outages + (IF upstream.up THEN 1 ELSE 0)]
    BY <1>1 DEF Outage
  <2>3. upstream'.outages \in 0..MaxOutages
    BY <2>1, <2>2, ContextWindowAssumption DEF UpstreamInv
  <2>4. upstream'.up \in BOOLEAN
    BY <2>2
  <2> QED BY <2>3, <2>4 DEF UpstreamInv
<1>2. CASE UNCHANGED upstream
  BY <1>2 DEF UpstreamInv
<1> QED BY <1>1, <1>2 DEF Next, List, Look, Fetch, Keep, Ask, Reply, Compact, vars, catalog

LEMMA TalkNext ==
    ASSUME TalkInv, CatalogInv, [Next]_vars
    PROVE  TalkInv' /\ (RoomInv /\ CompactsInTime /\ Roomy => RoomInv' /\ CompactsInTime')
<1>1. CatalogInv'
  BY CatalogNext
<1>2. ASSUME NEW l \in Lists, List(l) \/ Look(l) \/ Fetch(l) \/ Keep(l)
      PROVE  TalkInv' /\ (RoomInv /\ CompactsInTime /\ Roomy => RoomInv' /\ CompactsInTime')
  BY <1>1, <1>2, CatalogTalk
<1>3. CASE Outage
  BY <1>3, TalkStays DEF Outage
<1>4. CASE Ask
  BY <1>4, AskTalk
<1>5. CASE Reply
  BY <1>5, ReplyTalk
<1>6. CASE Compact
  BY <1>6, CompactTalk
<1>7. CASE UNCHANGED vars
  BY <1>7, TalkStays DEF vars, catalog
<1> QED BY <1>2, <1>3, <1>4, <1>5, <1>6, <1>7 DEF Next

\* Every request for the list, and the client's conversation, is what it should
\* be: a request is answered when it has the window of every model, a client
\* waits for the list until then, and what a turn reports is a sum.
THEOREM TypeCorrect == Spec => []TypeOK
<1>1. CatalogInv /\ TalkInv /\ UpstreamInv => TypeOK
  <2> SUFFICES ASSUME CatalogInv, TalkInv, UpstreamInv PROVE TypeOK
    OBVIOUS
  <2>1. /\ \A i \in DOMAIN models : models[i].window \in Window /\ Key(models[i]) \in DOMAIN Offered
        /\ \A k \in DOMAIN Offered : cache[k] \in Window \cup {Absent}
    BY ContextWindowAssumption DEF CatalogInv, ModelsAreListed, CacheIsTrue, Window
  <2>2. ASSUME NEW l \in Lists
        PROVE  /\ lists[l].pc \in {"idle", "look", "fetch", "keep", "answered"}
               /\ lists[l].pc = "answered" <=> Len(lists[l].found) = Len(models)
               /\ lists[l].at = Len(lists[l].found) + 1
    <3>1. ListIsTrue(lists[l], models, cache) /\ ModelsAreListed
      BY DEF CatalogInv
    <3>2. lists[l].found \in Seq(Window) /\ lists[l].pc \in {"idle", "look", "fetch", "keep", "answered"}
      BY <3>1 DEF ListIsTrue, AList
    <3>3. Len(lists[l].found) \in Nat
      BY <3>2
    <3>4. lists[l].pc # "answered" => Len(lists[l].found) # Len(models)
      BY <3>1, <3>3 DEF ListIsTrue, ModelsAreListed
    <3> QED BY <3>1, <3>2, <3>4 DEF ListIsTrue
  <2>3. upstream.outages \in 0..MaxOutages
    BY DEF UpstreamInv
  <2>4. /\ client.pc \in {"starting", "ready", "waiting"} /\ client.turns \in 0..MaxTurns
        /\ client.pc = "starting" <=> lists[ClientsList].pc # "answered"
        /\ client.window \in Nat /\ client.reported \in Nat
        /\ turn.usage.total = turn.usage.input + turn.usage.output
    BY DEF TalkInv, TalkTyped, AClient
  <2> QED BY <2>1, <2>2, <2>3, <2>4 DEF TypeOK
<1>2. Init => CatalogInv /\ TalkInv /\ UpstreamInv
  BY CatalogInit, TalkInit, ContextWindowAssumption DEF Init, UpstreamInv
<1>3. CatalogInv /\ TalkInv /\ UpstreamInv /\ [Next]_vars => (CatalogInv /\ TalkInv /\ UpstreamInv)'
  BY CatalogNext, TalkNext, UpstreamNext
<1> QED BY <1>1, <1>2, <1>3, PTL DEF Spec

\* However long the conversation, whatever the limits take out of it and however
\* much the upstream counts: what input_tokens estimates of a request is at most
\* the input that its turn reports (estimate_tokens, input_tokens.rs;
\* apply_input_char_scale, responses.rs).
THEOREM EstimateHolds == Spec => []EstimateIsReported
<1>1. TalkInv => EstimateIsReported
  BY DEF TalkInv, Told, EstimateIsReported
<1>2. Init => CatalogInv /\ TalkInv
  BY CatalogInit, TalkInit
<1>3. CatalogInv /\ TalkInv /\ [Next]_vars => (CatalogInv /\ TalkInv)'
  BY CatalogNext, TalkNext
<1> QED BY <1>1, <1>2, <1>3, PTL DEF Spec

\* A client that replays its conversation compacts it before it asks for more than
\* its window and what is new, whatever the limits took out of the turns before:
\* the usage it is told has been grown back (create.rs:140-143).
THEOREM ReplayingCompactsInTime == Roomy => (Spec => []CompactsInTime)
<1> SUFFICES ASSUME Roomy PROVE Spec => []CompactsInTime
  OBVIOUS
<1> DEFINE TimelyInv == CatalogInv /\ TalkInv /\ RoomInv /\ CompactsInTime
<1>1. Init => TimelyInv
  BY CatalogInit, TalkInit, RoomInit
<1>2. TimelyInv /\ [Next]_vars => TimelyInv'
  BY CatalogNext, TalkNext
<1> QED BY <1>1, <1>2, PTL DEF Spec
=============================================================================
