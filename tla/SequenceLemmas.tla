--------------------------- MODULE SequenceLemmas ---------------------------
(***************************************************************************)
(* Lemmas the proofs share: induction over the naturals, stated with sets, *)
(* what FlattenSeq computes, prefixes, and the events that a growing list  *)
(* of frames gives (both relays).                                          *)
(***************************************************************************)
EXTENDS Frames, Integers, SequencesExt, SequenceTheorems, WellFoundedInduction, TLAPS

\* A nonempty set of naturals has a least element.
LEMMA LeastNatural ==
    ASSUME NEW T \in SUBSET Nat, T # {}
    PROVE  \E k \in T : \A n \in T : k <= n
<1>1. PICK k \in T : \A n \in T : ~ (<<n, k>> \in OpToRel(<, Nat))
  <2>1. IsWellFoundedOn(OpToRel(<, Nat), Nat)
    BY NatLessThanWellFounded
  <2> QED BY <2>1, WFMin, Zenon
<1>2. \A n \in T : ~ (n < k)
  BY <1>1 DEF OpToRel
<1> QED BY <1>2

\* So what holds of 0, and of n + 1 whenever it holds of n, holds of all.
LEMMA Inductive ==
    ASSUME NEW G \in SUBSET Nat, 0 \in G, \A n \in Nat : n \in G => n + 1 \in G
    PROVE  G = Nat
<1> SUFFICES ASSUME Nat \ G # {} PROVE FALSE
  OBVIOUS
<1>1. PICK k \in Nat \ G : \A n \in Nat \ G : k <= n
  BY LeastNatural
<1>2. k # 0 /\ k - 1 \in Nat
  OBVIOUS
<1>3. k - 1 \in G
  BY <1>1, <1>2
<1> QED BY <1>2, <1>3

\* The least and the greatest of some numbers are among them.
LEMMA MinIsIn ==
    ASSUME NEW n \in Nat, NEW T \in SUBSET (1..n), T # {}
    PROVE  Min(T) \in T /\ \A i \in T : Min(T) <= i
<1>1. \E k \in T : \A i \in T : k <= i
  BY LeastNatural
<1> QED BY <1>1 DEF Min

LEMMA MaxIsIn ==
    ASSUME NEW n \in Nat, NEW T \in SUBSET (1..n), T # {}
    PROVE  Max(T) \in T /\ \A i \in T : i <= Max(T)
<1> DEFINE below == {n - i : i \in T}
<1>1. below \in SUBSET Nat /\ below # {}
  <2>1. \A i \in T : n - i \in Nat
    OBVIOUS
  <2> QED BY <2>1
<1>2. PICK k \in below : \A j \in below : k <= j
  <2> HIDE DEF below
  <2> QED BY <1>1, LeastNatural
<1>3. PICK m \in T : k = n - m
  OBVIOUS
<1>4. \A i \in T : m >= i
  <2> TAKE i \in T
  <2>1. k <= n - i
    BY <1>2
  <2> QED BY <1>3, <2>1
<1> QED BY <1>4 DEF Max

-----------------------------------------------------------------------------
(* FlattenSeq                                                              *)

\* f is the function by which FlattenSeq of n sequences is defined.
Flattens(f, ss, n) ==
    f = [i \in 1..n |-> IF i = 1 THEN ss[i] ELSE f[i - 1] \o ss[i]]

LEMMA FlattensStep ==
    ASSUME NEW ss, NEW n \in Nat, NEW f, Flattens(f, ss, n), NEW i \in 1..n
    PROVE  f[i] = IF i = 1 THEN ss[i] ELSE f[i - 1] \o ss[i]
<1> DEFINE g == [j \in 1..n |-> IF j = 1 THEN ss[j] ELSE f[j - 1] \o ss[j]]
<1>1. f = g
  BY Zenon DEF Flattens
<1>2. g[i] = IF i = 1 THEN ss[i] ELSE f[i - 1] \o ss[i]
  BY Zenon
<1> HIDE DEF g
<1> QED BY <1>1, <1>2, Zenon

LEMMA FlattensFrom ==
    ASSUME NEW ss, NEW n \in Nat, NEW f, f = [i \in 1..n |-> f[i]],
           \A i \in 1..n : f[i] = IF i = 1 THEN ss[i] ELSE f[i - 1] \o ss[i]
    PROVE  Flattens(f, ss, n)
<1> DEFINE g == [j \in 1..n |-> IF j = 1 THEN ss[j] ELSE f[j - 1] \o ss[j]]
<1>1. g = [i \in 1..n |-> f[i]]
  BY Zenon
<1>2. f = g
  BY <1>1, Zenon
<1> QED BY <1>2, Zenon DEF Flattens

LEMMA FlattensExists ==
    ASSUME NEW ss, NEW n \in Nat
    PROVE  \E f : Flattens(f, ss, n)
<1> DEFINE G == {k \in Nat : \E f : Flattens(f, ss, k)}
<1>1. 0 \in G
  <2>1. Flattens([i \in 1..0 |-> 0], ss, 0)
    BY DEF Flattens
  <2> QED BY <2>1
<1>2. ASSUME NEW k \in Nat, k \in G PROVE k + 1 \in G
  <2>1. PICK f : Flattens(f, ss, k)
    BY <1>2
  <2> DEFINE g == [i \in 1..(k + 1) |-> IF i <= k THEN f[i]
                                        ELSE IF i = 1 THEN ss[1] ELSE f[k] \o ss[k + 1]]
  <2>2. ASSUME NEW i \in 1..(k + 1)
        PROVE  g[i] = IF i = 1 THEN ss[i] ELSE g[i - 1] \o ss[i]
    <3>1. CASE i <= k
      <4>1. f[i] = IF i = 1 THEN ss[i] ELSE f[i - 1] \o ss[i]
        BY <2>1, <3>1, FlattensStep
      <4> QED BY <3>1, <4>1
    <3>2. CASE i = k + 1
      BY <3>2
    <3> QED BY <3>1, <3>2
  <2>3. Flattens(g, ss, k + 1)
    <3>1. g = [i \in 1..(k + 1) |-> g[i]]
      OBVIOUS
    <3> HIDE DEF g
    <3>2. k + 1 \in Nat
      OBVIOUS
    <3> QED BY <2>2, <3>1, <3>2, FlattensFrom, Zenon
  <2> QED BY <2>3
<1> HIDE DEF G
<1>3. G = Nat
  BY <1>1, <1>2, Inductive DEF G
<1> QED BY <1>3 DEF G

LEMMA FlattenIs ==
    ASSUME NEW ss, Len(ss) \in Nat
    PROVE  \E f : /\ Flattens(f, ss, Len(ss))
                  /\ FlattenSeq(ss) = IF Len(ss) = 0 THEN ss ELSE f[Len(ss)]
<1> DEFINE f == CHOOSE h : h = [i \in 1..Len(ss) |-> IF i = 1 THEN ss[i] ELSE h[i - 1] \o ss[i]]
<1>1. Flattens(f, ss, Len(ss))
  BY FlattensExists DEF Flattens
<1>2. FlattenSeq(ss) = IF Len(ss) = 0 THEN ss ELSE f[Len(ss)]
  BY DEF FlattenSeq
<1> QED BY <1>1, <1>2

LEMMA FlattenType ==
    ASSUME NEW S, NEW ss \in Seq(Seq(S))
    PROVE  FlattenSeq(ss) \in Seq(S)
<1>1. PICK f : /\ Flattens(f, ss, Len(ss))
               /\ FlattenSeq(ss) = IF Len(ss) = 0 THEN ss ELSE f[Len(ss)]
  BY FlattenIs
<1> DEFINE G == {j \in Nat : j \in 1..Len(ss) => f[j] \in Seq(S)}
<1>2. 0 \in G
  OBVIOUS
<1>3. ASSUME NEW j \in Nat, j \in G PROVE j + 1 \in G
  <2> SUFFICES ASSUME j + 1 \in 1..Len(ss) PROVE f[j + 1] \in Seq(S)
    OBVIOUS
  <2>1. f[j + 1] = IF j + 1 = 1 THEN ss[j + 1] ELSE f[j] \o ss[j + 1]
    BY <1>1, FlattensStep
  <2>2. (j # 0 => f[j] \in Seq(S)) /\ ss[j + 1] \in Seq(S)
    BY <1>3
  <2> QED BY <2>1, <2>2
<1> HIDE DEF G
<1>4. G = Nat
  BY <1>2, <1>3, Inductive DEF G
<1>5. CASE Len(ss) = 0
  <2>1. ss = <<>>
    BY <1>5
  <2> QED BY <1>1, <1>5, <2>1
<1>6. CASE Len(ss) # 0
  <2>1. Len(ss) \in 1..Len(ss)
    BY <1>6
  <2> QED BY <1>1, <1>4, <1>6, <2>1 DEF G
<1> QED BY <1>5, <1>6

LEMMA FlattenEmpty == FlattenSeq(<<>>) = <<>>
BY DEF FlattenSeq

\* One sequence more is one concatenation more.
LEMMA FlattenExtend ==
    ASSUME NEW ss, NEW tt, NEW m \in Nat, NEW n \in Nat, n = m + 1, m # 0,
           Len(ss) = m, Len(tt) = n, \A i \in 1..m : ss[i] = tt[i]
    PROVE  FlattenSeq(tt) = FlattenSeq(ss) \o tt[n]
<1>1. PICK f : /\ Flattens(f, ss, m)
               /\ FlattenSeq(ss) = IF m = 0 THEN ss ELSE f[m]
  BY FlattenIs
<1>2. PICK g : /\ Flattens(g, tt, n)
               /\ FlattenSeq(tt) = IF n = 0 THEN tt ELSE g[n]
  BY FlattenIs
<1>3. \A i \in 1..n : g[i] = IF i = 1 THEN tt[i] ELSE g[i - 1] \o tt[i]
  BY <1>2, FlattensStep
<1>4. \A i \in 1..m : f[i] = IF i = 1 THEN ss[i] ELSE f[i - 1] \o ss[i]
  BY <1>1, FlattensStep
<1> DEFINE G == {j \in Nat : j \in 1..m => f[j] = g[j]}
<1>5. 0 \in G
  OBVIOUS
<1>6. ASSUME NEW j \in Nat, j \in G PROVE j + 1 \in G
  BY <1>3, <1>4, <1>6
<1> HIDE DEF G
<1>7. G = Nat
  BY <1>5, <1>6, Inductive DEF G
<1>8. f[m] = g[m]
  BY <1>7 DEF G
<1>9. g[n] = f[m] \o tt[n]
  <2>1. n \in 1..n /\ n # 1 /\ n - 1 = m
    OBVIOUS
  <2> QED BY <1>3, <1>8, <2>1
<1>10. FlattenSeq(ss) = f[m] /\ FlattenSeq(tt) = g[n]
  <2>1. m # 0 /\ n # 0
    OBVIOUS
  <2> QED BY <1>1, <1>2, <2>1
<1> QED BY <1>9, <1>10, Zenon

LEMMA FlattenOne ==
    ASSUME NEW tt, Len(tt) = 1
    PROVE  FlattenSeq(tt) = tt[1]
<1>1. PICK g : /\ Flattens(g, tt, Len(tt))
               /\ FlattenSeq(tt) = IF Len(tt) = 0 THEN tt ELSE g[Len(tt)]
  <2>1. Len(tt) \in Nat
    OBVIOUS
  <2> QED BY <2>1, FlattenIs
<1>2. g[1] = IF 1 = 1 THEN tt[1] ELSE g[1 - 1] \o tt[1]
  BY <1>1, FlattensStep
<1> QED BY <1>1, <1>2

LEMMA FlattenAppend ==
    ASSUME NEW S, NEW ss \in Seq(Seq(S)), NEW s \in Seq(S)
    PROVE  FlattenSeq(Append(ss, s)) = FlattenSeq(ss) \o s
<1> DEFINE tt == Append(ss, s)
           m == Len(ss)
<1>1. m \in Nat /\ Len(tt) = m + 1 /\ tt[m + 1] = s
      /\ \A i \in 1..m : ss[i] = tt[i]
  OBVIOUS
<1>2. CASE m = 0
  <2>1. ss = <<>>
    BY <1>2
  <2>2. FlattenSeq(ss) = <<>>
    BY <2>1, FlattenEmpty
  <2>3. FlattenSeq(tt) = s
    <3>1. Len(tt) = 1 /\ tt[1] = s
      BY <1>1, <1>2
    <3> HIDE DEF tt
    <3> QED BY <3>1, FlattenOne
  <2> QED BY <2>2, <2>3
<1>3. CASE m # 0
  <2> HIDE DEF tt
  <2>1. FlattenSeq(tt) = FlattenSeq(ss) \o tt[m + 1]
    <3>1. m + 1 \in Nat
      BY <1>1
    <3> QED BY <1>1, <1>3, <3>1, FlattenExtend
  <2> QED BY <1>1, <2>1 DEF tt
<1> QED BY <1>2, <1>3

-----------------------------------------------------------------------------
(* Sequences                                                               *)

LEMMA HeadTail ==
    ASSUME NEW S, NEW s \in Seq(S), s # <<>>
    PROVE  /\ Head(s) \in S /\ Tail(s) \in Seq(S) /\ Head(s) = s[1]
           /\ Len(s) \in Nat /\ Len(s) >= 1 /\ Len(Tail(s)) = Len(s) - 1
           /\ \A k \in 1..(Len(s) - 1) : Tail(s)[k] = s[k + 1]
OBVIOUS

LEMMA MoveHead ==
    ASSUME NEW S, NEW a \in Seq(S), NEW b \in Seq(S), b # <<>>
    PROVE  Append(a, Head(b)) \o Tail(b) = a \o b
OBVIOUS

LEMMA Regroup ==
    ASSUME NEW S, NEW a \in Seq(S), NEW b \in Seq(S), NEW c \in Seq(S)
    PROVE  (a \o b) \o c = a \o (b \o c)
BY ConcatAssociative

LEMMA ContainsAppend ==
    ASSUME NEW p \in Seq(Nat), NEW x \in Nat
    PROVE  \A n : Contains(Append(p, x), n) <=> Contains(p, n) \/ n = x
BY DEF Contains

-----------------------------------------------------------------------------
(* Prefixes                                                                *)

LEMMA PrefixIsConcat ==
    ASSUME NEW S, NEW s \in Seq(S), NEW t \in Seq(S)
    PROVE  IsPrefix(s, s \o t)
BY DEF IsPrefix

LEMMA PrefixTransitive ==
    ASSUME NEW S, NEW r \in Seq(S), NEW s \in Seq(S), NEW t \in Seq(S),
           IsPrefix(r, s), IsPrefix(s, t)
    PROVE  IsPrefix(r, t)
BY DEF IsPrefix

LEMMA PrefixOfConcat ==
    ASSUME NEW S, NEW r \in Seq(S), NEW s \in Seq(S), NEW t \in Seq(S),
           IsPrefix(r \o s, t)
    PROVE  IsPrefix(r, t)
BY DEF IsPrefix

-----------------------------------------------------------------------------
(* Recursion                                                               *)

\* f goes from c through D by n steps of st.
Recurses(f, n, D, c, st) ==
    f \in [0..n -> D] /\ f[0] = c /\ \A i \in 1..n : f[i] = st[<<i, f[i - 1]>>]

\* Steps on the elements of D, one after the other, define a function.
LEMMA RecursionExists ==
    ASSUME NEW n \in Nat, NEW D, NEW c \in D, NEW st \in [(1..n) \X D -> D]
    PROVE  \E f : Recurses(f, n, D, c, st)
<1> DEFINE Solves(f, k) == /\ f \in [0..k -> D] /\ f[0] = c
                           /\ \A i \in 1..k : f[i] = st[<<i, f[i - 1]>>]
           G == {k \in Nat : k <= n => \E f : Solves(f, k)}
<1>1. 0 \in G
  <2>1. Solves([i \in 0..0 |-> c], 0)
    OBVIOUS
  <2> QED BY <2>1
<1>2. ASSUME NEW k \in Nat, k \in G PROVE k + 1 \in G
  <2> SUFFICES ASSUME k + 1 <= n PROVE \E f : Solves(f, k + 1)
    OBVIOUS
  <2>1. PICK f : Solves(f, k)
    BY <1>2
  <2> DEFINE new == st[<<k + 1, f[k]>>]
             g == [i \in 0..(k + 1) |-> IF i <= k THEN f[i] ELSE new]
  <2>2. f[k] \in D /\ new \in D
    BY <2>1
  <2> HIDE DEF new
  <2>3. g \in [0..(k + 1) -> D] /\ g[0] = c
    BY <2>1, <2>2
  <2>4. ASSUME NEW i \in 1..(k + 1) PROVE g[i] = st[<<i, g[i - 1]>>]
    <3>1. CASE i <= k
      BY <2>1, <3>1
    <3>2. CASE i = k + 1
      <4>1. g[i] = new /\ g[i - 1] = f[k]
        BY <3>2
      <4> QED BY <3>2, <4>1 DEF new
    <3> QED BY <3>1, <3>2
  <2>5. Solves(g, k + 1)
    <3> HIDE DEF g
    <3> QED BY <2>3, <2>4
  <2> QED BY <2>5
<1> HIDE DEF G
<1>3. G = Nat
  BY <1>1, <1>2, Inductive DEF G
<1>4. PICK f : Solves(f, n)
  <2> HIDE DEF Solves
  <2> QED BY <1>3 DEF G
<1> QED BY <1>4 DEF Recurses

-----------------------------------------------------------------------------
(* Beginnings of a sequence                                                *)

Upto(s, m) == SubSeq(s, 1, m)

LEMMA UptoIs ==
    ASSUME NEW S, NEW s \in Seq(S), NEW m \in Nat, m <= Len(s)
    PROVE  /\ Upto(s, m) \in Seq(S) /\ Len(Upto(s, m)) = m
           /\ \A i \in 1..m : Upto(s, m)[i] = s[i]
           /\ m = 0 => Upto(s, m) = <<>>
           /\ m = Len(s) => Upto(s, m) = s
<1>1. Upto(s, m) = [i \in 1..m |-> s[i]]
  BY DEF Upto
<1>2. \A i \in 1..m : s[i] \in S
  OBVIOUS
<1>3. Upto(s, m) \in Seq(S) /\ Len(Upto(s, m)) = m /\ \A i \in 1..m : Upto(s, m)[i] = s[i]
  BY <1>1, <1>2
<1>4. m = 0 => Upto(s, m) = <<>>
  BY <1>3
<1>5. m = Len(s) => Upto(s, m) = s
  BY <1>3
<1> QED BY <1>3, <1>4, <1>5

LEMMA UptoNext ==
    ASSUME NEW S, NEW s \in Seq(S), NEW m \in Nat, m + 1 <= Len(s)
    PROVE  Upto(s, m + 1) = Append(Upto(s, m), s[m + 1]) /\ s[m + 1] \in S
<1>1. /\ Upto(s, m) \in Seq(S) /\ Len(Upto(s, m)) = m /\ \A i \in 1..m : Upto(s, m)[i] = s[i]
  BY UptoIs
<1>2. /\ Upto(s, m + 1) \in Seq(S) /\ Len(Upto(s, m + 1)) = m + 1
      /\ \A i \in 1..(m + 1) : Upto(s, m + 1)[i] = s[i]
  BY UptoIs
<1>3. s[m + 1] \in S
  OBVIOUS
<1> HIDE DEF Upto
<1> QED BY <1>1, <1>2, <1>3

-----------------------------------------------------------------------------
(* What flattening does                                                    *)

LEMMA FlattenGrows ==
    ASSUME NEW S, NEW ss \in Seq(Seq(S)), NEW tt \in Seq(Seq(S)),
           Len(tt) = Len(ss) + 1, \A i \in 1..Len(ss) : tt[i] = ss[i]
    PROVE  /\ FlattenSeq(tt) = FlattenSeq(ss) \o tt[Len(tt)]
           /\ FlattenSeq(ss) \in Seq(S) /\ FlattenSeq(tt) \in Seq(S)
           /\ tt[Len(tt)] \in Seq(S)
<1> DEFINE last == tt[Len(tt)]
<1>1. last \in Seq(S) /\ tt = Append(ss, last)
  OBVIOUS
<1> HIDE DEF last
<1>2. FlattenSeq(tt) = FlattenSeq(ss) \o last
  BY <1>1, FlattenAppend
<1>3. FlattenSeq(ss) \in Seq(S) /\ FlattenSeq(tt) \in Seq(S)
  BY FlattenType
<1> QED BY <1>1, <1>2, <1>3 DEF last

\* A walk over the beginnings of a sequence of sequences.
LEMMA FlattenUpto ==
    ASSUME NEW S, NEW ss \in Seq(Seq(S)), NEW m \in Nat, m + 1 <= Len(ss)
    PROVE  /\ FlattenSeq(Upto(ss, m + 1)) = FlattenSeq(Upto(ss, m)) \o ss[m + 1]
           /\ FlattenSeq(Upto(ss, m)) \in Seq(S) /\ ss[m + 1] \in Seq(S)
<1>1. Upto(ss, m + 1) = Append(Upto(ss, m), ss[m + 1]) /\ ss[m + 1] \in Seq(S)
  BY UptoNext
<1>2. Upto(ss, m) \in Seq(Seq(S))
  BY UptoIs
<1> QED BY <1>1, <1>2, FlattenAppend, FlattenType

LEMMA FlattenNothing ==
    ASSUME NEW S, NEW ss \in Seq(Seq(S)), \A i \in 1..Len(ss) : ss[i] = <<>>
    PROVE  FlattenSeq(ss) = <<>>
<1> DEFINE G == {m \in Nat : m <= Len(ss) => FlattenSeq(Upto(ss, m)) = <<>>}
<1>1. 0 \in G
  BY UptoIs, FlattenEmpty
<1>2. ASSUME NEW m \in Nat, m \in G PROVE m + 1 \in G
  <2> SUFFICES ASSUME m + 1 <= Len(ss) PROVE FlattenSeq(Upto(ss, m + 1)) = <<>>
    OBVIOUS
  <2>1. FlattenSeq(Upto(ss, m + 1)) = FlattenSeq(Upto(ss, m)) \o ss[m + 1]
    BY FlattenUpto
  <2>2. FlattenSeq(Upto(ss, m)) = <<>> /\ ss[m + 1] = <<>>
    BY <1>2
  <2> QED BY <2>1, <2>2
<1> HIDE DEF G
<1>3. G = Nat
  BY <1>1, <1>2, Inductive DEF G
<1>4. Len(ss) \in Nat /\ Len(ss) \in G
  BY <1>3
<1> QED BY <1>4, UptoIs DEF G

\* More at the end of the last part that says anything is more at the end.
LEMMA FlattenMiddle ==
    ASSUME NEW S, NEW ss \in Seq(Seq(S)), NEW tt \in Seq(Seq(S)), Len(tt) = Len(ss),
           NEW k \in 1..Len(ss), NEW d \in Seq(S), tt[k] = ss[k] \o d,
           \A i \in 1..Len(ss) : i # k => tt[i] = ss[i],
           \A i \in 1..Len(ss) : i > k => ss[i] = <<>>
    PROVE  FlattenSeq(tt) = FlattenSeq(ss) \o d
<1> DEFINE more == [m \in Nat |-> IF m < k THEN <<>> ELSE d]
<1>0. \A m \in Nat : IF m < k THEN more[m] = <<>> ELSE more[m] = d
  OBVIOUS
<1> HIDE DEF more
<1> DEFINE Good(m) == FlattenSeq(Upto(tt, m)) = FlattenSeq(Upto(ss, m)) \o more[m]
           G == {m \in Nat : m <= Len(ss) => Good(m)}
<1>1. 0 \in G
  <2>1. FlattenSeq(Upto(tt, 0)) = <<>> /\ FlattenSeq(Upto(ss, 0)) = <<>>
    BY UptoIs, FlattenEmpty
  <2>2. more[0] = <<>>
    <3>1. 0 \in Nat /\ 0 < k
      OBVIOUS
    <3> QED BY ONLY <3>1, <1>0
  <2>3. <<>> \o <<>> = <<>>
    <3>1. <<>> \in Seq(S)
      OBVIOUS
    <3> QED BY ONLY <3>1, ConcatEmptySeq
  <2>4. Good(0)
    BY <2>1, <2>2, <2>3
  <2> QED BY <2>4
<1>2. ASSUME NEW m \in Nat, m \in G PROVE m + 1 \in G
  <2> HIDE DEF Good
  <2> SUFFICES ASSUME m + 1 <= Len(ss) PROVE Good(m + 1)
    OBVIOUS
  <2>0. Good(m)
    BY <1>2
  <2> USE DEF Good
  <2> DEFINE p == ss[m + 1]
             q == tt[m + 1]
             a == FlattenSeq(Upto(ss, m))
             b == FlattenSeq(Upto(tt, m))
  <2>1. FlattenSeq(Upto(tt, m + 1)) = b \o q /\ b \in Seq(S) /\ q \in Seq(S)
    BY FlattenUpto
  <2>2. FlattenSeq(Upto(ss, m + 1)) = a \o p /\ a \in Seq(S) /\ p \in Seq(S)
    BY FlattenUpto
  <2>3. b = a \o more[m]
    BY <2>0
  <2>6. m + 1 \in 1..Len(ss) /\ k \in Nat
    OBVIOUS
  <2>7. /\ m + 1 = k => q = p \o d
        /\ m + 1 # k => q = p
        /\ m + 1 > k => p = <<>>
    BY <2>6
  <2> HIDE DEF a, b, p, q
  <2>8. CASE m + 1 < k
    <3>1. more[m] = <<>> /\ more[m + 1] = <<>> /\ q = p
      BY <1>0, <2>8, <2>7
    <3>2. b = a
      BY <2>2, <2>3, <3>1
    <3>3. (a \o p) \o <<>> = a \o p
      BY <2>2
    <3> QED BY <2>1, <2>2, <3>1, <3>2, <3>3
  <2>9. CASE m + 1 = k
    <3>1. more[m] = <<>> /\ more[m + 1] = d /\ q = p \o d
      BY <1>0, <2>9, <2>7
    <3>2. b = a
      BY <2>2, <2>3, <3>1
    <3>3. (a \o p) \o d = a \o (p \o d)
      <4>1. a \in Seq(S) /\ p \in Seq(S) /\ d \in Seq(S)
        BY <2>2
      <4> QED BY ONLY <4>1, Regroup, SMTT(30)
    <3> QED BY <2>1, <2>2, <3>1, <3>2, <3>3
  <2>10. CASE m + 1 > k
    <3>1. more[m] = d /\ more[m + 1] = d /\ q = <<>> /\ p = <<>>
      BY <1>0, <2>10, <2>7
    <3>2. b \o <<>> = b /\ a \o <<>> = a
      BY <2>1, <2>2
    <3> QED BY <2>1, <2>2, <2>3, <3>1, <3>2
  <2>11. m + 1 < k \/ m + 1 = k \/ m + 1 > k
    BY <2>6
  <2> HIDE DEF Good
  <2> QED BY <2>8, <2>9, <2>10, <2>11
<1> HIDE DEF Good
<1>3. G = Nat
  <2> HIDE DEF G
  <2> QED BY <1>1, <1>2, Inductive DEF G
<1>4. Len(ss) \in Nat
  OBVIOUS
<1>5. Good(Len(ss))
  <2>1. Len(ss) \in G
    BY <1>3, <1>4
  <2> QED BY <1>4, <2>1
<1>6. more[Len(ss)] = d
  BY <1>0, <1>4
<1>7. Upto(ss, Len(ss)) = ss
  BY <1>4, UptoIs
<1>8. Upto(tt, Len(tt)) = tt
  <2>1. Len(tt) \in Nat /\ Len(tt) <= Len(tt)
    BY <1>4
  <2> QED BY <2>1, UptoIs
<1> QED BY <1>5, <1>6, <1>7, <1>8 DEF Good

LEMMA RangeOfConcat ==
    ASSUME NEW S, NEW a \in Seq(S), NEW b \in Seq(S)
    PROVE  \A x : x \in ToSet(a \o b) <=> x \in ToSet(a) \/ x \in ToSet(b)
<1> DEFINE ab == a \o b
<1>1. /\ ab \in Seq(S) /\ Len(ab) = Len(a) + Len(b) /\ Len(a) \in Nat /\ Len(b) \in Nat
      /\ \A i \in 1..Len(a) : ab[i] = a[i]
      /\ \A i \in 1..Len(b) : ab[Len(a) + i] = b[i]
  OBVIOUS
<1>2. /\ DOMAIN ab = 1..(Len(a) + Len(b)) /\ DOMAIN a = 1..Len(a) /\ DOMAIN b = 1..Len(b)
  BY <1>1
<1> HIDE DEF ab
<1> SUFFICES ASSUME NEW x PROVE x \in ToSet(ab) <=> x \in ToSet(a) \/ x \in ToSet(b)
  BY DEF ab
<1>3. x \in ToSet(ab) => x \in ToSet(a) \/ x \in ToSet(b)
  <2> SUFFICES ASSUME NEW i \in DOMAIN ab, x = ab[i] PROVE x \in ToSet(a) \/ x \in ToSet(b)
    BY DEF ToSet
  <2>1. CASE i <= Len(a)
    BY <1>1, <1>2, <2>1 DEF ToSet
  <2>2. CASE i > Len(a)
    <3>1. i - Len(a) \in 1..Len(b) /\ i = Len(a) + (i - Len(a))
      BY <1>1, <1>2, <2>2
    <3>2. ab[i] = b[i - Len(a)]
      BY <1>1, <3>1
    <3> QED BY <1>2, <3>1, <3>2 DEF ToSet
  <2> QED BY <1>1, <1>2, <2>1, <2>2
<1>4. x \in ToSet(a) => x \in ToSet(ab)
  <2> SUFFICES ASSUME NEW i \in DOMAIN a, x = a[i] PROVE x \in ToSet(ab)
    BY DEF ToSet
  <2>1. i \in DOMAIN ab /\ ab[i] = x
    BY <1>1, <1>2
  <2> QED BY <2>1 DEF ToSet
<1>5. x \in ToSet(b) => x \in ToSet(ab)
  <2> SUFFICES ASSUME NEW i \in DOMAIN b, x = b[i] PROVE x \in ToSet(ab)
    BY DEF ToSet
  <2>1. Len(a) + i \in DOMAIN ab /\ ab[Len(a) + i] = x
    BY <1>1, <1>2
  <2> QED BY <2>1 DEF ToSet
<1> QED BY <1>3, <1>4, <1>5

LEMMA RangeOfAppend ==
    ASSUME NEW S, NEW s \in Seq(S), NEW e \in S
    PROVE  \A x : x \in ToSet(Append(s, e)) <=> x \in ToSet(s) \/ x = e
<1> DEFINE all == Append(s, e)
<1>1. /\ all \in Seq(S) /\ Len(all) = Len(s) + 1 /\ Len(s) \in Nat /\ all[Len(s) + 1] = e
      /\ \A i \in 1..Len(s) : all[i] = s[i]
  OBVIOUS
<1>2. DOMAIN all = 1..(Len(s) + 1) /\ DOMAIN s = 1..Len(s)
  BY <1>1
<1> HIDE DEF all
<1>3. \A i \in 1..(Len(s) + 1) : i \in 1..Len(s) \/ i = Len(s) + 1
  BY <1>1
<1>4. Len(s) + 1 \in 1..(Len(s) + 1) /\ \A i \in 1..Len(s) : i \in 1..(Len(s) + 1)
  BY <1>1
<1> SUFFICES ASSUME NEW x PROVE x \in ToSet(all) <=> x \in ToSet(s) \/ x = e
  BY DEF all
<1>5. x \in ToSet(all) => x \in ToSet(s) \/ x = e
  BY <1>1, <1>2, <1>3 DEF ToSet
<1>6. x \in ToSet(s) \/ x = e => x \in ToSet(all)
  BY <1>1, <1>2, <1>4 DEF ToSet
<1> QED BY <1>5, <1>6

\* The elements of a flattened sequence are those of its parts.
LEMMA FlattenRange ==
    ASSUME NEW S, NEW ss \in Seq(Seq(S))
    PROVE  \A x : x \in ToSet(FlattenSeq(ss)) <=> \E i \in 1..Len(ss) : x \in ToSet(ss[i])
<1> SUFFICES ASSUME NEW x
             PROVE  x \in ToSet(FlattenSeq(ss)) <=> \E i \in 1..Len(ss) : x \in ToSet(ss[i])
  OBVIOUS
<1> DEFINE G == {m \in Nat : m <= Len(ss) =>
                    (x \in ToSet(FlattenSeq(Upto(ss, m))) <=> \E i \in 1..m : x \in ToSet(ss[i]))}
<1>1. 0 \in G
  <2>1. FlattenSeq(Upto(ss, 0)) = <<>>
    BY UptoIs, FlattenEmpty
  <2> QED BY <2>1 DEF ToSet
<1>2. ASSUME NEW m \in Nat, m \in G PROVE m + 1 \in G
  <2> SUFFICES ASSUME m + 1 <= Len(ss)
               PROVE  x \in ToSet(FlattenSeq(Upto(ss, m + 1))) <=>
                         \E i \in 1..(m + 1) : x \in ToSet(ss[i])
    OBVIOUS
  <2> DEFINE a == FlattenSeq(Upto(ss, m))
  <2>1. FlattenSeq(Upto(ss, m + 1)) = a \o ss[m + 1] /\ a \in Seq(S) /\ ss[m + 1] \in Seq(S)
    BY FlattenUpto
  <2>2. x \in ToSet(a) <=> \E i \in 1..m : x \in ToSet(ss[i])
    BY <1>2
  <2> HIDE DEF a
  <2>3. x \in ToSet(a \o ss[m + 1]) <=> x \in ToSet(a) \/ x \in ToSet(ss[m + 1])
    BY <2>1, RangeOfConcat
  <2>4. (\E i \in 1..(m + 1) : x \in ToSet(ss[i])) <=>
          (\E i \in 1..m : x \in ToSet(ss[i])) \/ x \in ToSet(ss[m + 1])
    <3>1. \A i \in 1..(m + 1) : i \in 1..m \/ i = m + 1
      OBVIOUS
    <3>2. m + 1 \in 1..(m + 1) /\ \A i \in 1..m : i \in 1..(m + 1)
      OBVIOUS
    <3> QED BY <3>1, <3>2, Zenon
  <2> QED BY <2>1, <2>2, <2>3, <2>4
<1> HIDE DEF G
<1>3. G = Nat
  BY <1>1, <1>2, Inductive DEF G
<1>4. Len(ss) \in Nat /\ Len(ss) \in G
  BY <1>3
<1> QED BY <1>4, UptoIs DEF G

-----------------------------------------------------------------------------
(* The events of frames                                                    *)

Ev == [n : Nat, type : {"created", "in_progress", "added", "delta", "item", "error", "completed"}]

LEMMA LifecycleType == FirstEvents \in Seq(Ev)
BY DEF FirstEvents, FrameEvent, Ev

LEMMA EventsOfType ==
    ASSUME NEW frame \in Frame, NEW n \in Nat
    PROVE  EventsOf(frame, n) \in Seq(Ev)
<1>1. /\ <<FrameEvent(n, "added"), FrameEvent(n, "delta")>> \in Seq(Ev)
      /\ <<>> \in Seq(Ev)
      /\ <<FrameEvent(n, "error")>> \in Seq(Ev)
      /\ <<FrameEvent(n, "completed")>> \in Seq(Ev)
  BY DEF FrameEvent, Ev
<1>2. frame = "data" \/ frame = "skip" \/ frame = "bad" \/ frame = "done"
  BY DEF Frame
<1> QED BY <1>1, <1>2, Zenon DEF EventsOf

\* What the n-th of these frames adds.
Yield(frames, n) ==
    IF \E m \in 1..(n - 1) : frames[m] = "bad" THEN <<>> ELSE EventsOf(frames[n], n)

Yields(frames, k) == [n \in 1..k |-> Yield(frames, n)]

\* What a client can get for the first k of them.
UpTo(frames, k) == EventsFor(SubSeq(frames, 1, k))

LEMMA UpToIs ==
    ASSUME NEW u \in Seq(Frame), NEW k \in 0..Len(u)
    PROVE  /\ UpTo(u, k) = FirstEvents \o FlattenSeq(Yields(u, k))
           /\ Yields(u, k) \in Seq(Seq(Ev))
<1> DEFINE v == SubSeq(u, 1, k)
           ended(n) == \E m \in 1..(n - 1) : v[m] = "bad"
           yields == [n \in DOMAIN v |-> IF ended(n) THEN <<>> ELSE EventsOf(v[n], n)]
<1>1. v \in Seq(Frame) /\ Len(v) = k /\ DOMAIN v = 1..k /\ \A n \in 1..k : v[n] = u[n]
  OBVIOUS
<1>2. \A n \in 1..k : (IF ended(n) THEN <<>> ELSE EventsOf(v[n], n)) = Yield(u, n)
  BY <1>1 DEF Yield
<1>3. yields = Yields(u, k)
  BY <1>1, <1>2 DEF Yields
<1>4. EventsFor(v) = FirstEvents \o FlattenSeq(yields)
  BY DEF EventsFor
<1>5. \A n \in 1..k : Yield(u, n) \in Seq(Ev)
  <2> SUFFICES ASSUME NEW n \in 1..k PROVE Yield(u, n) \in Seq(Ev)
    OBVIOUS
  <2>1. u[n] \in Frame /\ n \in Nat
    OBVIOUS
  <2>2. EventsOf(u[n], n) \in Seq(Ev)
    BY <2>1, EventsOfType
  <2> QED BY <2>2 DEF Yield
<1>6. Yields(u, k) \in Seq(Seq(Ev))
  BY <1>5 DEF Yields
<1> QED BY <1>3, <1>4, <1>6 DEF UpTo

LEMMA UpToType ==
    ASSUME NEW u \in Seq(Frame), NEW k \in 0..Len(u)
    PROVE  UpTo(u, k) \in Seq(Ev)
<1>1. PICK flat : flat = FlattenSeq(Yields(u, k))
  OBVIOUS
<1>2. flat \in Seq(Ev)
  BY <1>1, UpToIs, FlattenType
<1>3. UpTo(u, k) = FirstEvents \o flat
  BY <1>1, UpToIs
<1> QED BY <1>2, <1>3, LifecycleType, ConcatProperties

LEMMA UpToNone ==
    ASSUME NEW u \in Seq(Frame)
    PROVE  UpTo(u, 0) = FirstEvents
<1>1. Yields(u, 0) = <<>>
  BY DEF Yields
<1>2. UpTo(u, 0) = FirstEvents \o <<>>
  <2>1. 0 \in 0..Len(u)
    OBVIOUS
  <2>2. UpTo(u, 0) = FirstEvents \o FlattenSeq(Yields(u, 0))
    BY <2>1, UpToIs
  <2> QED BY <1>1, <2>2, FlattenEmpty
<1> QED BY <1>2, LifecycleType

LEMMA UpToAll ==
    ASSUME NEW u \in Seq(Frame)
    PROVE  UpTo(u, Len(u)) = EventsFor(u)
<1>1. SubSeq(u, 1, Len(u)) = u
  OBVIOUS
<1> QED BY <1>1 DEF UpTo

LEMMA UpToStep ==
    ASSUME NEW u \in Seq(Frame), NEW k \in 1..Len(u)
    PROVE  UpTo(u, k) = UpTo(u, k - 1) \o Yield(u, k)
<1>1. k - 1 \in 0..Len(u) /\ k \in 0..Len(u)
  OBVIOUS
<1>2. Yields(u, k - 1) \in Seq(Seq(Ev)) /\ Yields(u, k) \in Seq(Seq(Ev))
  BY <1>1, UpToIs
<1>3. Yield(u, k) \in Seq(Ev)
  BY <1>2 DEF Yields
<1>4. Yields(u, k) = Append(Yields(u, k - 1), Yield(u, k))
  BY <1>1 DEF Yields
<1>5. FlattenSeq(Yields(u, k)) = FlattenSeq(Yields(u, k - 1)) \o Yield(u, k)
  BY <1>2, <1>3, <1>4, FlattenAppend
<1>6. FlattenSeq(Yields(u, k - 1)) \in Seq(Ev)
  BY <1>2, FlattenType
<1>7. /\ UpTo(u, k) = FirstEvents \o FlattenSeq(Yields(u, k))
      /\ UpTo(u, k - 1) = FirstEvents \o FlattenSeq(Yields(u, k - 1))
  BY <1>1, UpToIs
<1>8. ASSUME NEW f \in Seq(Ev), NEW y \in Seq(Ev)
      PROVE  FirstEvents \o (f \o y) = (FirstEvents \o f) \o y
  BY SMTT(30), LifecycleType, ConcatAssociative
<1>9. FirstEvents \o (FlattenSeq(Yields(u, k - 1)) \o Yield(u, k))
        = (FirstEvents \o FlattenSeq(Yields(u, k - 1))) \o Yield(u, k)
  BY <1>3, <1>6, <1>8
<1> QED BY <1>5, <1>7, <1>9, Zenon

\* More frames leave what the first ones yield as it was.
LEMMA UpToSame ==
    ASSUME NEW u \in Seq(Frame), NEW c \in Seq(Frame), NEW k \in 0..Len(u)
    PROVE  UpTo(u \o c, k) = UpTo(u, k)
<1>1. SubSeq(u \o c, 1, k) = SubSeq(u, 1, k)
  OBVIOUS
<1> QED BY <1>1 DEF UpTo

LEMMA YieldType ==
    ASSUME NEW u \in Seq(Frame), NEW k \in 1..Len(u)
    PROVE  Yield(u, k) \in Seq(Ev)
<1>1. u[k] \in Frame /\ k \in Nat
  OBVIOUS
<1>2. EventsOf(u[k], k) \in Seq(Ev)
  BY <1>1, EventsOfType
<1> QED BY <1>2 DEF Yield

\* What the first frames yield comes first.
LEMMA UpToMonotone ==
    ASSUME NEW u \in Seq(Frame), NEW k \in 0..Len(u)
    PROVE  \A j \in k..Len(u) : IsPrefix(UpTo(u, k), UpTo(u, j))
<1> DEFINE G == {d \in Nat : k + d <= Len(u) => IsPrefix(UpTo(u, k), UpTo(u, k + d))}
<1>1. 0 \in G
  <2>1. UpTo(u, k) \in Seq(Ev)
    BY UpToType
  <2>2. IsPrefix(UpTo(u, k), UpTo(u, k))
    BY <2>1 DEF IsPrefix
  <2> QED BY <2>2
<1>2. ASSUME NEW d \in Nat, d \in G PROVE d + 1 \in G
  <2> SUFFICES ASSUME k + d + 1 <= Len(u)
               PROVE  IsPrefix(UpTo(u, k), UpTo(u, k + d + 1))
    OBVIOUS
  <2>1. k + d \in 0..Len(u) /\ k + d + 1 \in 1..Len(u) /\ k + d + 1 - 1 = k + d
    OBVIOUS
  <2>2. IsPrefix(UpTo(u, k), UpTo(u, k + d))
    BY <1>2
  <2>3. UpTo(u, k + d + 1) = UpTo(u, k + d) \o Yield(u, k + d + 1)
    BY <2>1, UpToStep
  <2>4. /\ UpTo(u, k) \in Seq(Ev) /\ UpTo(u, k + d) \in Seq(Ev)
        /\ Yield(u, k + d + 1) \in Seq(Ev)
    BY <2>1, UpToType, YieldType
  <2>5. UpTo(u, k + d) \o Yield(u, k + d + 1) \in Seq(Ev)
    BY <2>4, ConcatProperties
  <2>6. IsPrefix(UpTo(u, k + d), UpTo(u, k + d) \o Yield(u, k + d + 1))
    BY <2>4, PrefixIsConcat
  <2> QED BY <2>2, <2>3, <2>4, <2>5, <2>6, PrefixTransitive
<1> HIDE DEF G
<1>3. G = Nat
  BY <1>1, <1>2, Inductive DEF G
<1> SUFFICES ASSUME NEW j \in k..Len(u) PROVE IsPrefix(UpTo(u, k), UpTo(u, j))
  OBVIOUS
<1>4. j - k \in G /\ k + (j - k) = j
  BY <1>3
<1> QED BY <1>4 DEF G

\* Nothing comes after a frame that does not parse.
LEMMA UpToBad ==
    ASSUME NEW u \in Seq(Frame), NEW k \in 0..Len(u), \E m \in 1..k : u[m] = "bad"
    PROVE  \A j \in k..Len(u) : UpTo(u, j) = UpTo(u, k)
<1> DEFINE G == {d \in Nat : k + d <= Len(u) => UpTo(u, k + d) = UpTo(u, k)}
<1>1. 0 \in G
  OBVIOUS
<1>2. ASSUME NEW d \in Nat, d \in G PROVE d + 1 \in G
  <2> SUFFICES ASSUME k + d + 1 <= Len(u)
               PROVE  UpTo(u, k + d + 1) = UpTo(u, k)
    OBVIOUS
  <2>1. k + d \in 0..Len(u) /\ k + d + 1 \in 1..Len(u) /\ k + d + 1 - 1 = k + d
    OBVIOUS
  <2>2. UpTo(u, k + d) = UpTo(u, k)
    BY <1>2
  <2>3. UpTo(u, k + d + 1) = UpTo(u, k + d) \o Yield(u, k + d + 1)
    BY <2>1, UpToStep
  <2>4. Yield(u, k + d + 1) = <<>>
    <3>1. PICK m \in 1..k : u[m] = "bad"
      OBVIOUS
    <3>2. m \in 1..(k + d + 1 - 1)
      OBVIOUS
    <3> QED BY <3>1, <3>2 DEF Yield
  <2>5. UpTo(u, k + d) \in Seq(Ev)
    BY <2>1, UpToType
  <2> QED BY <2>2, <2>3, <2>4, <2>5, ConcatEmptySeq
<1> HIDE DEF G
<1>3. G = Nat
  BY <1>1, <1>2, Inductive DEF G
<1> SUFFICES ASSUME NEW j \in k..Len(u) PROVE UpTo(u, j) = UpTo(u, k)
  OBVIOUS
<1>4. j - k \in G /\ k + (j - k) = j
  BY <1>3
<1> QED BY <1>4 DEF G

LEMMA RegroupEv ==
    \A a, x, y \in Seq(Ev) : (a \o x) \o y = a \o (x \o y)
BY Regroup

\* The events of all frames, as those of the first Len(u).
LEMMA EventsForType ==
    ASSUME NEW u \in Seq(Frame)
    PROVE  EventsFor(u) \in Seq(Ev)
<1>1. Len(u) \in 0..Len(u)
  OBVIOUS
<1> QED BY <1>1, UpToType, UpToAll

LEMMA PrefixOfAll ==
    ASSUME NEW u \in Seq(Frame), NEW k \in 0..Len(u)
    PROVE  IsPrefix(UpTo(u, k), EventsFor(u))
<1>1. Len(u) \in k..Len(u)
  OBVIOUS
<1> QED BY <1>1, UpToMonotone, UpToAll

LEMMA MoreIsLonger ==
    ASSUME NEW u \in Seq(Frame), NEW c \in Seq(Frame)
    PROVE  IsPrefix(EventsFor(u), EventsFor(u \o c))
<1>1. u \o c \in Seq(Frame) /\ Len(u) \in 0..Len(u) /\ Len(u) \in 0..Len(u \o c)
  OBVIOUS
<1>2. EventsFor(u) = UpTo(u \o c, Len(u))
  BY <1>1, UpToAll, UpToSame
<1>3. IsPrefix(UpTo(u \o c, Len(u)), EventsFor(u \o c))
  <2> DEFINE v == u \o c
             k == Len(u)
  <2> HIDE DEF v, k
  <2>1. v \in Seq(Frame) /\ k \in 0..Len(v)
    BY <1>1 DEF v, k
  <2>2. IsPrefix(UpTo(v, k), EventsFor(v))
    BY <2>1, PrefixOfAll
  <2> QED BY <2>2 DEF v, k
<1> QED BY <1>2, <1>3
=============================================================================
