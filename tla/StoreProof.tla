----------------------------- MODULE StoreProof -----------------------------
(***************************************************************************)
(* Theorems about Store, for every set of ids and readers and every value  *)
(* of the bounds: the shape of the state, that the memory map holds what   *)
(* it owes, that no get answers what is too old, and that histories are    *)
(* answered and left on the disk whole.  None assumes anything about when  *)
(* clients ask, how old an entry is when it is put again, or what the      *)
(* second put of an id holds: where a put may be lost or a file mixed, the *)
(* history variables displaced and spoiled of Store say so.                *)
(***************************************************************************)
EXTENDS Store, FiniteSetTheorems, WellFoundedInduction, TLAPS

-----------------------------------------------------------------------------
(* The operators                                                           *)

\* A nonempty set of naturals has a least element.
LEMMA LeastNatural ==
    ASSUME NEW T \in SUBSET Nat, T # {}
    PROVE  \E k \in T : \A n \in T : k <= n
<1>1. PICK k \in T : \A n \in T : ~ (<<n, k>> \in OpToRel(<, Nat))
  <2>1. IsWellFoundedOn(OpToRel(<, Nat), Nat)
    BY NatLessThanWellFounded
  <2> QED BY <2>1, WFMin, Zenon
<1>2. \A n \in T : ~ (n < k)
  BY <1>1 DEF OpToRel
<1> QED BY <1>2

Below(good, k) == {i \in good : i <= k}

\* Going up by one adds at most the number reached.
LEMMA BelowSteps ==
    ASSUME NEW good, \A i \in good : i \in Nat /\ 1 <= i, NEW k \in Nat
    PROVE  /\ Below(good, 0) = {}
           /\ k \notin good => Below(good, k) = Below(good, k - 1)
           /\ k \in good => Below(good, k) = Below(good, k - 1) \cup {k}
           /\ k \notin Below(good, k - 1)
BY DEF Below

\* The j-th smallest of a bounded set of positive numbers exists.
LEMMA NthSmallest ==
    ASSUME NEW n \in Nat, NEW good, \A i \in good : i \in 1..n,
           NEW j \in 1..Cardinality(good)
    PROVE  \E k \in good : Cardinality(Below(good, k)) = j
<1> DEFINE T == {k \in Nat : Cardinality(Below(good, k)) >= j}
<1>1. IsFiniteSet(good) /\ Cardinality(good) \in Nat
  <2>1. IsFiniteSet(1..n)
    BY FS_Interval
  <2> QED BY <2>1, FS_Subset, FS_CardinalityType
<1>2. \A k \in Int : IsFiniteSet(Below(good, k)) /\ Cardinality(Below(good, k)) \in Nat
  BY <1>1, FS_Subset, FS_CardinalityType DEF Below
<1>3. n \in T
  <2>1. Below(good, n) = good
    BY DEF Below
  <2> QED BY <1>1, <2>1
<1>4. \E k \in T : \A m \in T : k <= m
  <2>1. T \in SUBSET Nat
    OBVIOUS
  <2> HIDE DEF T
  <2> QED BY <1>3, <2>1, LeastNatural
<1>5. PICK k \in Nat : /\ Cardinality(Below(good, k)) >= j
                       /\ \A m \in Nat : m < k => ~(Cardinality(Below(good, m)) >= j)
  BY <1>4
<1>6. k # 0
  BY <1>5, BelowSteps, FS_EmptySet
<1>7. ~(Cardinality(Below(good, k - 1)) >= j)
  BY <1>5, <1>6
<1>8. k \in good
  BY <1>5, <1>7, BelowSteps
<1>9. Cardinality(Below(good, k)) = Cardinality(Below(good, k - 1)) + 1
  <2>0. \A i \in good : i \in Nat /\ 1 <= i
    OBVIOUS
  <2>1. Below(good, k) = Below(good, k - 1) \cup {k} /\ k \notin Below(good, k - 1)
    BY <1>8, <2>0, BelowSteps, Zenon
  <2>2. IsFiniteSet(Below(good, k - 1))
    BY <1>2
  <2> QED BY <2>1, <2>2, FS_AddElement
<1>10. Cardinality(Below(good, k - 1)) \in Nat /\ Cardinality(Below(good, k)) \in Nat
  BY <1>2
<1> QED BY <1>5, <1>7, <1>8, <1>9, <1>10

\* What a file yields is a sequence of lines: never a hole.
LEMMA ParsedType ==
    ASSUME NEW lines \in Seq(Lines \cup {Hole})
    PROVE  Parsed(lines) \in Seq(Lines)
<1> DEFINE Whole(k) == lines[k] # Hole /\ (k = 1 \/ lines[k - 1] # Hole)
           good == {k \in DOMAIN lines : Whole(k)}
           Nth(j) == CHOOSE k \in good : Cardinality(Below(good, k)) = j
<1>1. (\A k \in good : k \in 1..Len(lines)) /\ Len(lines) \in Nat
  OBVIOUS
<1>2. \A k \in good : lines[k] \in Lines
  BY DEF Lines, Hole
<1>3. Cardinality(good) \in Nat
  <2>1. IsFiniteSet(1..Len(lines))
    BY <1>1, FS_Interval
  <2> QED BY <1>1, <2>1, FS_Subset, FS_CardinalityType
<1> HIDE DEF good
<1>4. \A j \in 1..Cardinality(good) : Nth(j) \in good
  BY <1>1, NthSmallest
<1> HIDE DEF Nth
<1>5. [j \in 1..Cardinality(good) |-> lines[Nth(j)]] \in Seq(Lines)
  BY <1>2, <1>3, <1>4
<1>6. Parsed(lines) = [j \in 1..Cardinality(good) |-> lines[Nth(j)]]
  BY DEF Parsed, good, Nth, Below
<1> QED BY <1>5, <1>6

LEMMA MessagesType ==
    ASSUME NEW id, NEW v \in 0..MaxPuts
    PROVE  Messages(id, v) \in Seq(Lines)
<1> DEFINE turn == [k \in 1..(v + 1) |-> k]
<1>1. turn \in Seq(Lines)
  BY StoreAssumption DEF Lines
<1>2. <<Earlier>> \in Seq(Lines)
  BY StoreAssumption DEF Lines, Earlier
<1>3. <<Earlier>> \o turn \in Seq(Lines)
  BY <1>1, <1>2
<1> QED BY <1>1, <1>3 DEF Messages

\* Writing one line leaves a sequence of lines and holes.
LEMMA LineWrittenType ==
    ASSUME NEW lines \in Seq(Lines \cup {Hole}), NEW k \in Nat, NEW line \in Lines
    PROVE  LineWritten(lines, k, line) \in Seq(Lines \cup {Hole})
<1> DEFINE n == IF k > Len(lines) THEN k ELSE Len(lines)
<1>1. n \in Nat
  OBVIOUS
<1>2. \A j \in 1..n : (IF j = k THEN line ELSE IF j <= Len(lines) THEN lines[j] ELSE Hole)
                         \in Lines \cup {Hole}
  OBVIOUS
<1> HIDE DEF n
<1>3. [j \in 1..n |-> IF j = k THEN line ELSE IF j <= Len(lines) THEN lines[j] ELSE Hole]
         \in Seq(Lines \cup {Hole})
  BY <1>1, <1>2
<1> QED BY <1>3 DEF LineWritten, n

LEMMA OlderType ==
    ASSUME NEW limit \in Nat
    PROVE  /\ \A age \in -1..(limit + 1) : Older(age, limit) \in -1..(limit + 1)
           /\ \A age \in 0..(limit + 1) : Older(age, limit) \in 0..(limit + 1)
BY DEF Older

LEMMA IdleType == Idle \in ReaderType /\ Idle.pc = "idle" /\ Idle.puts = 0
<1>1. (CHOOSE id \in Ids : TRUE) \in Ids
  BY StoreAssumption
<1>2. <<>> \in Seq(Lines)
  OBVIOUS
<1> QED BY <1>1, <1>2, StoreAssumption DEF Idle, ReaderType

LEMMA NoSweepType ==
    /\ NoSweep \in SweeperType /\ NoSweep.pc = "idle" /\ NoSweep.todo = {}
    /\ NoSweep.files = {} /\ NoSweep.seen = [id \in Ids |-> 0]
<1>1. [id \in Ids |-> 0] \in [Ids -> 0..MaxPuts]
  BY StoreAssumption
<1> QED BY <1>1 DEF NoSweep, SweeperType

\* Spawning a removal keeps the counts in their bound.
LEMMA SpawnedType ==
    ASSUME removals \in [Ids -> 0..MaxPending], NEW id \in Ids
    PROVE  Spawned(id) \in [Ids -> 0..MaxPending]
BY StoreAssumption DEF Spawned, AtMost

-----------------------------------------------------------------------------
(* The shape of the state                                                  *)

LEMMA InitTypeOK == Init => TypeOK
<1> SUFFICES ASSUME Init PROVE TypeOK
  OBVIOUS
<1>1. <<>> \in Seq(Lines) /\ <<>> \in Seq(Lines \cup {Hole})
  OBVIOUS
<1>2. handler \in [Ids -> HandlerType]
  BY StoreAssumption DEF Init, HandlerType
<1> QED BY <1>1, <1>2, IdleType, NoSweepType, StoreAssumption
        DEF Init, TypeOK, EntryType, NoEntry, NoFile

\* What an unlink leaves of the disk and of the writers.
LEMMA UnlinkType ==
    ASSUME TypeOK, NEW id \in Ids, Unlink(id)
    PROVE  /\ disk' \in [Ids -> [lines : Seq(Lines \cup {Hole}), age : -1..(TTL + 1)]]
           /\ writes' \in SUBSET WriteType
           /\ \A w \in writes' : w.next <= Len(w.messages)
<1>1. NoFile \in [lines : Seq(Lines \cup {Hole}), age : -1..(TTL + 1)]
  <2>1. <<>> \in Seq(Lines \cup {Hole})
    OBVIOUS
  <2> QED BY <2>1, StoreAssumption DEF NoFile
<1>2. disk' \in [Ids -> [lines : Seq(Lines \cup {Hole}), age : -1..(TTL + 1)]]
  BY <1>1 DEF TypeOK, Unlink
<1>3. \A w \in writes : LET u == IF w.id = id /\ w.next > 0
                                 THEN [w EXCEPT !.attached = FALSE] ELSE w
                        IN  u \in WriteType /\ u.next <= Len(u.messages)
  <2>1. ASSUME NEW w \in WriteType
        PROVE  LET u == [w EXCEPT !.attached = FALSE]
               IN  u \in WriteType /\ u.next = w.next /\ u.messages = w.messages
    BY DEF WriteType
  <2> QED BY <2>1 DEF TypeOK
<1> QED BY <1>2, <1>3 DEF Unlink

LEMMA PutTypeOK == TypeOK /\ PutStep => TypeOK'
<1> SUFFICES ASSUME TypeOK, NEW id \in Ids, PutInsert(id) \/ PutSpawn(id)
             PROVE  TypeOK'
  BY DEF PutStep
<1>1. CASE PutInsert(id)
  <2>1. handler[id].puts + 1 \in 1..MaxPuts
    BY <1>1 DEF PutInsert, TypeOK, HandlerType
  <2>2. [messages |-> Messages(id, handler[id].puts + 1), age |-> 0] \in EntryType
    BY <2>1, MessagesType, StoreAssumption DEF EntryType
  <2>3. memory' \in [Ids -> EntryType]
    BY <1>1, <2>2 DEF PutInsert, TypeOK
  <2>4. handler' \in [Ids -> HandlerType]
    <3>1. [handler[id] EXCEPT !.puts = handler[id].puts + 1, !.pc = "inserted"]
             \in HandlerType
      <4>1. handler[id] \in HandlerType /\ handler[id].puts + 1 \in 0..MaxPuts
        BY <2>1, StoreAssumption DEF TypeOK
      <4> QED BY <4>1 DEF HandlerType
    <3>2. handler' = [handler EXCEPT ![id] = [handler[id] EXCEPT
                         !.puts = handler[id].puts + 1, !.pc = "inserted"]]
      BY <1>1 DEF PutInsert, TypeOK
    <3> QED BY <3>1, <3>2 DEF TypeOK
  <2>5. /\ owed' \in [Ids -> 0..MaxPuts]
        /\ putAge' \in [Ids -> 0..(TTL + 1)]
        /\ touched' \in [Ids -> 0..(TTL + MaxReadTicks + 1)]
    <3>1. /\ owed' = [owed EXCEPT ![id] = handler[id].puts + 1]
          /\ putAge' = [putAge EXCEPT ![id] = 0]
          /\ touched' = [touched EXCEPT ![id] = 0]
      BY <1>1 DEF PutInsert
    <3>2. /\ handler[id].puts + 1 \in 0..MaxPuts
          /\ 0 \in 0..(TTL + 1) /\ 0 \in 0..(TTL + MaxReadTicks + 1)
      BY <2>1, StoreAssumption
    <3> QED BY <3>1, <3>2 DEF TypeOK
  <2>6. displaced' \in SUBSET Ids
    BY <1>1 DEF PutInsert, TypeOK
  <2> QED BY <1>1, <2>3, <2>4, <2>5, <2>6 DEF PutInsert, TypeOK
<1>2. CASE PutSpawn(id)
  <2> DEFINE w0 == [id |-> id, put |-> handler[id].puts,
                    messages |-> memory[id].messages,
                    next |-> 0, attached |-> TRUE, ticks |-> 0]
  <2>1. memory[id].messages \in Seq(Lines) /\ Len(memory[id].messages) \in Nat
    BY DEF TypeOK, EntryType
  <2>2. w0 \in WriteType /\ w0.next <= Len(w0.messages)
    <3>1. handler[id].puts \in 0..MaxPuts /\ 0 \in Nat /\ 0 \in 0..MaxWriteTicks
      BY StoreAssumption DEF TypeOK, HandlerType
    <3>2. w0 \in WriteType
      BY <2>1, <3>1 DEF WriteType
    <3> QED BY <2>1, <3>2
  <2>3. writes' \in {writes, writes \cup {w0}}
    BY <1>2 DEF PutSpawn
  <2> HIDE DEF w0
  <2>4. writes' \in SUBSET WriteType /\ \A w \in writes' : w.next <= Len(w.messages)
    BY <2>2, <2>3 DEF TypeOK
  <2>5. handler' \in [Ids -> HandlerType]
    <3>1. handler \in [Ids -> HandlerType]
      BY DEF TypeOK
    <3>2. handler' = [handler EXCEPT ![id].pc = "running"]
      BY <1>2 DEF PutSpawn
    <3> QED BY <3>1, <3>2 DEF HandlerType
  <2>6. UNCHANGED <<memory, disk, removals, reader, sweeper, faults, owed, putAge, touched,
                    displaced>>
    BY <1>2 DEF PutSpawn
  <2>7. spoiled' \in SUBSET Ids
    BY <1>2 DEF PutSpawn, TypeOK
  <2> QED BY <2>4, <2>5, <2>6, <2>7 DEF TypeOK
<1> QED BY <1>1, <1>2

LEMMA DiskTypeOK ==
    ASSUME TypeOK, DiskStep \/ \E w \in writes : WriteFails(w)
    PROVE  TypeOK'
<1>1. ASSUME NEW w \in writes, WriteOpen(w) PROVE TypeOK'
  <2> DEFINE u == [w EXCEPT !.next = 1]
             file == [lines |-> <<>>, age |-> 0]
  <2>1. w \in WriteType /\ w.id \in Ids
    BY DEF TypeOK, WriteType
  <2>2. u \in WriteType /\ (w.messages # <<>> => u.next <= Len(u.messages))
    <3>1. u \in WriteType /\ u.next = 1 /\ u.messages = w.messages
      BY <2>1 DEF WriteType
    <3>2. w.messages \in Seq(Lines)
      BY <2>1 DEF WriteType
    <3> QED BY <3>1, <3>2
  <2>3. writes' = (writes \ {w}) \cup (IF w.messages = <<>> THEN {} ELSE {u})
    BY <1>1 DEF WriteOpen
  <2> HIDE DEF u
  <2>4. writes' \in SUBSET WriteType /\ \A x \in writes' : x.next <= Len(x.messages)
    BY <2>2, <2>3 DEF TypeOK
  <2>5. file \in [lines : Seq(Lines \cup {Hole}), age : -1..(TTL + 1)]
    BY StoreAssumption
  <2>6. disk' = [disk EXCEPT ![w.id] = file] /\ touched' = [touched EXCEPT ![w.id] = 0]
    BY <1>1 DEF WriteOpen
  <2>7. 0 \in 0..(TTL + MaxReadTicks + 1)
    BY StoreAssumption
  <2> HIDE DEF file
  <2>8. /\ disk' \in [Ids -> [lines : Seq(Lines \cup {Hole}), age : -1..(TTL + 1)]]
        /\ touched' \in [Ids -> 0..(TTL + MaxReadTicks + 1)]
    BY <2>1, <2>5, <2>6, <2>7 DEF TypeOK
  <2>9. spoiled' \in SUBSET Ids
    BY <1>1, <2>1 DEF WriteOpen, TypeOK
  <2> QED BY <1>1, <2>4, <2>8, <2>9 DEF WriteOpen, TypeOK
<1>2. ASSUME NEW w \in writes, WriteLine(w) PROVE TypeOK'
  <2> DEFINE u == [w EXCEPT !.next = @ + 1]
             old == disk[w.id].lines
             new == LineWritten(old, w.next, w.messages[w.next])
             file == [lines |-> new, age |-> 0]
  <2>1. /\ w \in WriteType /\ w.id \in Ids /\ w.next \in Nat
        /\ w.messages \in Seq(Lines) /\ w.next <= Len(w.messages)
    BY DEF TypeOK, WriteType
  <2>2. u \in WriteType /\ (~(w.next >= Len(w.messages)) => u.next <= Len(u.messages))
    <3>1. u \in WriteType /\ u.next = w.next + 1 /\ u.messages = w.messages
      BY <2>1 DEF WriteType
    <3> QED BY <2>1, <3>1
  <2>3. writes' = (writes \ {w}) \cup (IF w.next >= Len(w.messages) THEN {} ELSE {u})
    BY <1>2 DEF WriteLine
  <2> HIDE DEF u
  <2>4. writes' \in SUBSET WriteType /\ \A x \in writes' : x.next <= Len(x.messages)
    BY <2>2, <2>3 DEF TypeOK
  <2>5. file \in [lines : Seq(Lines \cup {Hole}), age : -1..(TTL + 1)]
    <3>1. w.next > 0
      BY <1>2 DEF WriteLine
    <3>2. w.messages[w.next] \in Lines
      BY <2>1, <3>1
    <3>3. old \in Seq(Lines \cup {Hole})
      BY <2>1 DEF TypeOK
    <3> HIDE DEF old
    <3>4. new \in Seq(Lines \cup {Hole})
      BY <2>1, <3>2, <3>3, LineWrittenType
    <3> QED BY <3>4, StoreAssumption
  <2>6. /\ disk' \in {disk, [disk EXCEPT ![w.id] = file]}
        /\ touched' \in {touched, [touched EXCEPT ![w.id] = 0]}
    BY <1>2 DEF WriteLine
  <2>7. 0 \in 0..(TTL + MaxReadTicks + 1)
    BY StoreAssumption
  <2> HIDE DEF file, new, old
  <2>8. w.id \in Ids
    BY <2>1
  <2>9. disk' \in [Ids -> [lines : Seq(Lines \cup {Hole}), age : -1..(TTL + 1)]]
    BY <2>5, <2>6, <2>8 DEF TypeOK
  <2>10. touched' \in [Ids -> 0..(TTL + MaxReadTicks + 1)]
    BY <2>6, <2>7, <2>8 DEF TypeOK
  <2> QED BY <1>2, <2>4, <2>9, <2>10 DEF WriteLine, taken, TypeOK
<1>3. ASSUME NEW id \in Ids, RemoveFile(id) PROVE TypeOK'
  <2>1. removals' \in [Ids -> 0..MaxPending]
    <3>1. removals[id] \in 0..MaxPending /\ removals[id] > 0
      BY <1>3 DEF RemoveFile, TypeOK
    <3>2. removals[id] - 1 \in 0..MaxPending
      BY <3>1, StoreAssumption
    <3> QED BY <1>3, <3>2 DEF RemoveFile, TypeOK
  <2>2. Unlink(id)
    BY <1>3 DEF RemoveFile
  <2> QED BY <1>3, <2>1, <2>2, UnlinkType DEF RemoveFile, history, taken, TypeOK
<1>4. ASSUME NEW w \in writes, WriteFails(w) PROVE TypeOK'
  <2>1. faults' \in 0..MaxFaults
    BY <1>4, StoreAssumption DEF WriteFails, TypeOK
  <2> QED BY <1>4, <2>1 DEF WriteFails, history, taken, TypeOK
<1> QED BY <1>1, <1>2, <1>3, <1>4 DEF DiskStep

LEMMA GetTypeOK ==
    ASSUME TypeOK, NEW r \in Readers,
           GetStep(r) \/ \E id \in Ids : GetLookup(r, id)
    PROVE  TypeOK'
<1>1. ASSUME NEW id \in Ids, NEW messages, NEW overtaken,
             Answered(r, id, messages, overtaken)
      PROVE  reader' \in [Readers -> ReaderType]
  BY <1>1, IdleType DEF Answered, TypeOK
<1>2. ASSUME NEW id \in Ids, NEW pc \in {"evict", "stat"}, Goes(r, id, pc)
      PROVE  reader' \in [Readers -> ReaderType]
  <2>1. handler[id].puts \in 0..MaxPuts
    BY DEF TypeOK, HandlerType
  <2>2. [Idle EXCEPT !.pc = pc, !.id = id, !.puts = handler[id].puts] \in ReaderType
    BY <2>1, IdleType DEF ReaderType
  <2> QED BY <1>2, <2>2 DEF Goes, TypeOK
<1>3. reader[r] \in ReaderType /\ reader[r].id \in Ids
  BY DEF TypeOK, ReaderType
<1>4. ASSUME NEW id \in Ids, GetLookup(r, id) PROVE TypeOK'
  <2>1. reader' \in [Readers -> ReaderType]
    BY <1>1, <1>2, <1>4 DEF GetLookup
  <2> QED BY <1>4, <2>1 DEF GetLookup, taken, TypeOK
<1>5. CASE GetEvict(r)
  <2>1. reader' \in [Readers -> ReaderType]
    BY <1>1, <1>3, <1>5 DEF GetEvict
  <2>2. removals' \in [Ids -> 0..MaxPending]
    <3>1. removals' = Spawned(reader[r].id) /\ removals \in [Ids -> 0..MaxPending]
      BY <1>5 DEF GetEvict, TypeOK
    <3> QED BY <1>3, <3>1, SpawnedType
  <2>3. NoEntry \in EntryType
    BY StoreAssumption DEF NoEntry, EntryType
  <2>4. memory' \in [Ids -> EntryType]
    BY <1>5, <2>3 DEF GetEvict, TypeOK
  <2>5. displaced' \in SUBSET Ids
    BY <1>3, <1>5 DEF GetEvict, Displaced, TypeOK
  <2> QED BY <1>5, <2>1, <2>2, <2>4, <2>5 DEF GetEvict, TypeOK
<1>6. CASE GetStat(r)
  <2> DEFINE id == reader[r].id
             age == IF Present(disk[id]) THEN disk[id].age ELSE 0
  <2>1. age \in 0..(TTL + 1)
    <3>1. disk[id].age \in -1..(TTL + 1)
      BY <1>3 DEF TypeOK
    <3> QED BY <3>1, StoreAssumption DEF Present
  <2>2. \/ removals' = Spawned(id) /\ Answered(r, id, None, Overtaken(r))
        \/ /\ age <= TTL
           /\ reader' = [reader EXCEPT ![r].pc = "read", ![r].age = age]
           /\ removals' = removals
    BY <1>6 DEF GetStat
  <2> HIDE DEF age
  <2>3. reader' \in [Readers -> ReaderType]
    <3>1. CASE Answered(r, id, None, Overtaken(r))
      BY <1>1, <1>3, <3>1
    <3>2. CASE age <= TTL /\ reader' = [reader EXCEPT ![r].pc = "read", ![r].age = age]
      <4>1. age \in 0..TTL
        BY <2>1, <3>2, StoreAssumption
      <4>2. [reader[r] EXCEPT !.pc = "read", !.age = age] \in ReaderType
        BY <1>3, <4>1 DEF ReaderType
      <4>3. reader' = [reader EXCEPT ![r] = [reader[r] EXCEPT !.pc = "read", !.age = age]]
        BY <3>2 DEF TypeOK
      <4> QED BY <4>2, <4>3 DEF TypeOK
    <3> QED BY <2>2, <3>1, <3>2
  <2>4. removals' \in [Ids -> 0..MaxPending]
    BY <1>3, <2>2, SpawnedType DEF TypeOK
  <2> QED BY <1>6, <2>3, <2>4 DEF GetStat, taken, TypeOK
<1>7. CASE GetRead(r)
  <2> DEFINE id == reader[r].id
             found == Parsed(disk[id].lines)
  <2>1. found \in Seq(Lines)
    <3>1. disk[id].lines \in Seq(Lines \cup {Hole})
      BY <1>3 DEF TypeOK
    <3> QED BY <3>1, ParsedType
  <2>2. \/ Answered(r, id, None, Overtaken(r))
        \/ reader' = [reader EXCEPT ![r].pc = "insert", ![r].found = found]
    BY <1>7 DEF GetRead
  <2> HIDE DEF found
  <2>3. [reader[r] EXCEPT !.pc = "insert", !.found = found] \in ReaderType
    BY <1>3, <2>1 DEF ReaderType
  <2>4. reader' \in [Readers -> ReaderType]
    <3>1. CASE Answered(r, id, None, Overtaken(r))
      BY <1>1, <1>3, <3>1
    <3>2. CASE reader' = [reader EXCEPT ![r].pc = "insert", ![r].found = found]
      <4>1. reader' = [reader EXCEPT ![r] =
                          [reader[r] EXCEPT !.pc = "insert", !.found = found]]
        BY <3>2 DEF TypeOK
      <4> QED BY <2>3, <4>1 DEF TypeOK
    <3> QED BY <2>2, <3>1, <3>2
  <2> QED BY <1>7, <2>4 DEF GetRead, taken, TypeOK
<1>8. CASE GetInsert(r)
  <2>1. reader' \in [Readers -> ReaderType]
    BY <1>1, <1>3, <1>8 DEF GetInsert
  <2>2. [messages |-> reader[r].found, age |-> reader[r].age] \in EntryType
    BY <1>3, StoreAssumption DEF ReaderType, EntryType
  <2>3. memory' \in [Ids -> EntryType]
    BY <1>3, <1>8, <2>2 DEF GetInsert, TypeOK
  <2>4. displaced' \in SUBSET Ids
    BY <1>3, <1>8 DEF GetInsert, Displaced, TypeOK
  <2> QED BY <1>8, <2>1, <2>3, <2>4 DEF GetInsert, TypeOK
<1> QED BY <1>4, <1>5, <1>6, <1>7, <1>8 DEF GetStep

LEMMA SweepTypeOK ==
    ASSUME TypeOK, SweepStep
    PROVE  TypeOK'
<1>1. CASE SweepCollect
  <2> DEFINE old == {id \in Ids : Present(memory[id]) /\ Expired(memory[id])}
             seen == [id \in Ids |-> IF id \in old THEN handler[id].puts ELSE 0]
  <2>1. \A id \in Ids : handler[id].puts \in 0..MaxPuts /\ 0 \in 0..MaxPuts
    BY StoreAssumption DEF TypeOK, HandlerType
  <2>2. seen \in [Ids -> 0..MaxPuts]
    BY <2>1
  <2>3. sweeper' = [pc |-> "memory", files |-> {}, todo |-> old, seen |-> seen]
    BY <1>1 DEF SweepCollect
  <2> HIDE DEF seen
  <2>4. sweeper' \in SweeperType
    BY <2>2, <2>3 DEF SweeperType
  <2> QED BY <1>1, <2>4 DEF SweepCollect, history, taken, TypeOK
<1>2. CASE SweepOpenDir
  <2>1. sweeper' \in SweeperType
    BY <1>2, NoSweepType DEF SweepOpenDir, SweeperType
  <2> QED BY <1>2, <2>1 DEF SweepOpenDir, history, taken, TypeOK
<1>3. CASE SweepDone
  BY <1>3, NoSweepType DEF SweepDone, history, taken, TypeOK
<1>4. ASSUME NEW id \in Ids, SweepEvict(id) PROVE TypeOK'
  <2>1. removals' \in [Ids -> 0..MaxPending]
    <3>1. removals' = Spawned(id) /\ removals \in [Ids -> 0..MaxPending]
      BY <1>4 DEF SweepEvict, TypeOK
    <3> QED BY <3>1, SpawnedType
  <2>2. NoEntry \in EntryType
    BY StoreAssumption DEF NoEntry, EntryType
  <2>3. memory' \in [Ids -> EntryType]
    BY <1>4, <2>2 DEF SweepEvict, TypeOK
  <2>4. sweeper' \in SweeperType
    <3>1. sweeper \in SweeperType /\ 0 \in 0..MaxPuts
      BY StoreAssumption DEF TypeOK
    <3>2. sweeper' = [sweeper EXCEPT !.todo = @ \ {id}, !.seen = [@ EXCEPT ![id] = 0]]
      BY <1>4 DEF SweepEvict
    <3> QED BY <3>1, <3>2 DEF SweeperType
  <2>5. displaced' \in SUBSET Ids
    BY <1>4 DEF SweepEvict, Displaced, TypeOK
  <2> QED BY <1>4, <2>1, <2>3, <2>4, <2>5 DEF SweepEvict, TypeOK
<1>5. ASSUME NEW id \in Ids, SweepStat(id) PROVE TypeOK'
  <2>1. sweeper' \in SweeperType
    BY <1>5 DEF SweepStat, TypeOK, SweeperType
  <2> QED BY <1>5, <2>1 DEF SweepStat, history, taken, TypeOK
<1>6. ASSUME NEW id \in Ids, SweepUnlink(id) PROVE TypeOK'
  <2>1. sweeper' \in SweeperType
    BY <1>6 DEF SweepUnlink, TypeOK, SweeperType
  <2>2. Unlink(id)
    BY <1>6 DEF SweepUnlink
  <2> QED BY <1>6, <2>1, <2>2, UnlinkType DEF SweepUnlink, history, taken, TypeOK
<1> QED BY <1>1, <1>2, <1>3, <1>4, <1>5, <1>6 DEF SweepStep

LEMMA TickTypeOK ==
    ASSUME TypeOK, Tick
    PROVE  TypeOK'
<1>1. memory' \in [Ids -> EntryType]
  <2>1. ASSUME NEW x \in EntryType
        PROVE  [x EXCEPT !.age = Older(@, TTL)] \in EntryType
    BY OlderType, StoreAssumption DEF EntryType
  <2> QED BY <2>1 DEF Tick, TypeOK
<1>2. disk' \in [Ids -> [lines : Seq(Lines \cup {Hole}), age : -1..(TTL + 1)]]
  <2>1. ASSUME NEW x \in [lines : Seq(Lines \cup {Hole}), age : -1..(TTL + 1)]
        PROVE  [x EXCEPT !.age = Older(@, TTL)]
                  \in [lines : Seq(Lines \cup {Hole}), age : -1..(TTL + 1)]
    BY OlderType, StoreAssumption
  <2> QED BY <2>1 DEF Tick, TypeOK
<1>3. writes' \in SUBSET WriteType /\ \A w \in writes' : w.next <= Len(w.messages)
  <2> DEFINE U(w) == [w EXCEPT !.ticks = @ + 1]
  <2>1. ASSUME NEW w \in WriteType, w.ticks < MaxWriteTicks
        PROVE  U(w) \in WriteType /\ U(w).next = w.next /\ U(w).messages = w.messages
    <3>1. w.ticks + 1 \in 0..MaxWriteTicks
      BY <2>1, StoreAssumption DEF WriteType
    <3> QED BY <3>1 DEF WriteType
  <2>2. writes' = {U(w) : w \in writes}
    BY DEF Tick
  <2> HIDE DEF U
  <2>3. \A w \in writes : U(w) \in WriteType /\ U(w).next <= Len(U(w).messages)
    BY <2>1 DEF Tick, TypeOK
  <2> QED BY <2>2, <2>3
<1>4. reader' \in [Readers -> ReaderType]
  <2>1. ASSUME NEW x \in ReaderType, x.ticks < MaxReadTicks
        PROVE  [x EXCEPT !.ticks = @ + 1] \in ReaderType
    <3>1. x.ticks + 1 \in 0..MaxReadTicks
      BY <2>1, StoreAssumption DEF ReaderType
    <3> QED BY <3>1 DEF ReaderType
  <2> QED BY <2>1 DEF Tick, TypeOK
<1>5. putAge' \in [Ids -> 0..(TTL + 1)]
  BY OlderType, StoreAssumption DEF Tick, TypeOK
<1>6. touched' \in [Ids -> 0..(TTL + MaxReadTicks + 1)]
  <2>1. TTL + MaxReadTicks \in Nat
    BY StoreAssumption
  <2>2. \A age \in 0..(TTL + MaxReadTicks + 1) :
           Older(age, TTL + MaxReadTicks) \in 0..(TTL + MaxReadTicks + 1)
    BY <2>1, OlderType
  <2> QED BY <2>2 DEF Tick, TypeOK
<1> QED BY <1>1, <1>2, <1>3, <1>4, <1>5, <1>6 DEF Tick, taken, TypeOK

LEMMA CrashTypeOK ==
    ASSUME TypeOK, Crash
    PROVE  TypeOK'
<1>1. memory' \in [Ids -> EntryType]
  <2>1. NoEntry \in EntryType
    BY StoreAssumption DEF NoEntry, EntryType
  <2> QED BY <2>1 DEF Crash
<1>2. handler' \in [Ids -> HandlerType]
  <2>1. handler \in [Ids -> HandlerType]
    BY DEF TypeOK
  <2>2. handler' = [id \in Ids |-> IF handler[id].puts > 0
                                   THEN [handler[id] EXCEPT !.pc = "gone"]
                                   ELSE handler[id]]
    BY DEF Crash
  <2> QED BY <2>1, <2>2 DEF HandlerType
<1>3. reader' \in [Readers -> ReaderType]
  BY IdleType DEF Crash
<1>4. faults' \in 0..MaxFaults
  <2>1. faults \in 0..MaxFaults /\ faults < MaxFaults /\ faults' = faults + 1
    BY DEF Crash, TypeOK
  <2> QED BY <2>1, StoreAssumption
<1>5. removals' \in [Ids -> 0..MaxPending]
  <2>1. 0 \in 0..MaxPending /\ removals' = [id \in Ids |-> 0]
    BY StoreAssumption DEF Crash
  <2> QED BY <2>1
<1>6. owed' \in [Ids -> 0..MaxPuts]
  <2>1. 0 \in 0..MaxPuts /\ owed' = [id \in Ids |-> 0]
    BY StoreAssumption DEF Crash
  <2> QED BY <2>1
<1> QED BY <1>1, <1>2, <1>3, <1>4, <1>5, <1>6, NoSweepType DEF Crash, TypeOK

\* The state keeps its shape: every writer stays inside the messages it writes,
\* what is read from a file is lines only, and ages stay in their range.
THEOREM TypeCorrect == Spec => []TypeOK
<1>1. Init => TypeOK
  BY InitTypeOK
<1>2. TypeOK /\ [Next]_vars => TypeOK'
  <2>1. TypeOK /\ UNCHANGED vars => TypeOK'
    BY DEF vars, taken, TypeOK
  <2>2. TypeOK /\ Next => TypeOK'
    BY PutTypeOK, DiskTypeOK, GetTypeOK, SweepTypeOK, TickTypeOK, CrashTypeOK DEF Next
  <2> QED BY <2>1, <2>2
<1> QED BY <1>1, <1>2, PTL DEF Spec

-----------------------------------------------------------------------------
(* The memory map holds what it owes                                       *)

\* The map owes nothing for id: it was put before the process last died, or more
\* than the TTL ago, or never.
Settled(id) == owed[id] = 0 \/ putAge[id] > TTL

\* A get that did not answer from memory at once was about a settled id when it
\* looked, or about one that had been displaced; a put since then has overtaken it.
ReadersAreLate ==
    \A r \in Readers :
        LET id == reader[r].id IN
        reader[r].pc # "idle" =>
            /\ reader[r].puts <= handler[id].puts
            /\ Overtaken(r) \/ id \in displaced \/ Settled(id)

\* And so was a key that the sweep collected.
SweepIsLate ==
    sweeper.pc = "memory" =>
        \A id \in sweeper.todo :
            /\ sweeper.seen[id] <= handler[id].puts
            /\ handler[id].puts > sweeper.seen[id] \/ id \in displaced \/ Settled(id)

LatestInv ==
    /\ TypeOK
    /\ MemoryHoldsLatest
    /\ ReadersAreLate
    /\ SweepIsLate

\* An entry that a get misses, or that is expired, belongs to a settled id.
LEMMA MissIsSettled ==
    ASSUME LatestInv, NEW id \in Ids, id \notin displaced,
           ~Present(memory[id]) \/ Expired(memory[id])
    PROVE  Settled(id)
<1>1. CASE owed[id] > 0 /\ putAge[id] <= TTL
  <2>1. memory[id].age = putAge[id] /\ putAge[id] \in 0..(TTL + 1)
    BY <1>1 DEF LatestInv, MemoryHoldsLatest, TypeOK
  <2> QED BY <1>1, <2>1, StoreAssumption DEF Present, Expired
<1>2. CASE ~(owed[id] > 0 /\ putAge[id] <= TTL)
  <2>1. owed[id] \in 0..MaxPuts /\ putAge[id] \in 0..(TTL + 1)
    BY DEF LatestInv, TypeOK
  <2> QED BY <1>2, <2>1, StoreAssumption DEF Settled
<1> QED BY <1>1, <1>2

\* The number of puts only grows, and what the second puts is as it was.
LEMMA PutsGrow ==
    ASSUME TypeOK, Next, NEW id \in Ids
    PROVE  /\ handler'[id].alone = handler[id].alone
           /\ handler[id].puts \in 0..MaxPuts /\ handler'[id].puts \in 0..MaxPuts
           /\ handler'[id].puts >= handler[id].puts
           /\ PutInsert(id) => handler'[id].puts = handler[id].puts + 1
           /\ ~PutInsert(id) => handler'[id].puts = handler[id].puts
           /\ \A v : Messages(id, v)' = Messages(id, v)
<1>0. handler \in [Ids -> HandlerType] /\ handler[id].puts \in 0..MaxPuts
  BY DEF TypeOK, HandlerType
<1> DEFINE Same == handler'[id].alone = handler[id].alone
                   /\ handler'[id].puts = handler[id].puts
<1>1. ASSUME PutInsert(id)
      PROVE  /\ handler'[id].alone = handler[id].alone
             /\ handler'[id].puts = handler[id].puts + 1
             /\ handler[id].puts + 1 <= MaxPuts
  BY <1>0, <1>1 DEF PutInsert, HandlerType
<1>2. ASSUME NEW i \in Ids, PutInsert(i), i # id PROVE Same
  BY <1>0, <1>2 DEF PutInsert
<1>3. ASSUME NEW i \in Ids, PutSpawn(i) PROVE Same
  <2>1. handler' = [handler EXCEPT ![i] = [handler[i] EXCEPT !.pc = "running"]]
    BY <1>0, <1>3 DEF PutSpawn
  <2> QED BY <1>0, <2>1 DEF HandlerType
<1>4. ASSUME Crash PROVE Same
  <2>1. handler'[id] = IF handler[id].puts > 0
                       THEN [handler[id] EXCEPT !.pc = "gone"] ELSE handler[id]
    BY <1>4 DEF Crash
  <2>2. handler[id] \in HandlerType
    BY <1>0
  <2> QED BY <2>1, <2>2 DEF HandlerType
<1>5. ASSUME UNCHANGED handler PROVE Same
  BY <1>5
<1>6. PutInsert(id) \/ Same
  BY <1>2, <1>3, <1>4, <1>5
     DEF Next, PutStep, DiskStep, WriteOpen, WriteLine, WriteFails, RemoveFile, history,
         GetStep, GetEvict, GetStat, GetRead, GetInsert, GetLookup, SweepStep,
         SweepCollect, SweepOpenDir, SweepDone, SweepEvict, SweepStat, SweepUnlink, Tick
<1>7. PutInsert(id) => ~Same
  BY <1>0, <1>1
<1>8. handler'[id].alone = handler[id].alone
  BY <1>1, <1>6
<1>9. \A v : Messages(id, v)' = Messages(id, v)
  BY <1>8 DEF Messages
<1> QED BY <1>0, <1>1, <1>6, <1>8, <1>9, StoreAssumption

\* Only a put makes the map owe again.
LEMMA SettledStays ==
    ASSUME TypeOK, Next, NEW id \in Ids, Settled(id)
    PROVE  Settled(id)' \/ PutInsert(id)
<1> USE DEF Settled
<1>1. ASSUME NEW i \in Ids, PutInsert(i), i # id PROVE Settled(id)'
  BY <1>1 DEF PutInsert, TypeOK
<1>2. ASSUME NEW i \in Ids, PutSpawn(i) PROVE Settled(id)'
  BY <1>2 DEF PutSpawn
<1>3. CASE DiskStep \/ \E w \in writes : WriteFails(w)
  BY <1>3 DEF DiskStep, WriteOpen, WriteLine, WriteFails, RemoveFile, history
<1>4. ASSUME NEW r \in Readers, GetStep(r) \/ \E i \in Ids : GetLookup(r, i)
      PROVE  Settled(id)'
  BY <1>4 DEF GetStep, GetEvict, GetStat, GetRead, GetInsert, GetLookup
<1>5. CASE SweepStep
  BY <1>5 DEF SweepStep, SweepCollect, SweepOpenDir, SweepDone, SweepEvict,
              SweepStat, SweepUnlink, history
<1>6. CASE Tick
  BY <1>6, StoreAssumption DEF Tick, Older, TypeOK
<1>7. CASE Crash
  BY <1>7 DEF Crash
<1> QED BY <1>1, <1>2, <1>3, <1>4, <1>5, <1>6, <1>7 DEF Next, PutStep

\* A displaced id stays so until it is put again or the process dies.
LEMMA DisplacedStays ==
    ASSUME Next, NEW id \in displaced
    PROVE  id \in displaced' \/ PutInsert(id) \/ Crash
<1>1. ASSUME NEW i \in Ids, PutInsert(i), i # id PROVE id \in displaced'
  BY <1>1 DEF PutInsert
<1>2. ASSUME NEW i, NEW overtaken, displaced' = Displaced(i, overtaken)
      PROVE  id \in displaced'
  BY <1>2 DEF Displaced
<1>3. CASE UNCHANGED displaced
  BY <1>3
<1> QED BY <1>1, <1>2, <1>3
        DEF Next, PutStep, PutSpawn, DiskStep, WriteOpen, WriteLine, WriteFails,
            RemoveFile, GetStep, GetEvict, GetStat, GetRead, GetInsert, GetLookup,
            SweepStep, SweepCollect, SweepOpenDir, SweepDone, SweepEvict, SweepStat,
            SweepUnlink, Tick, history, taken

\* What excuses one who has looked goes on excusing him: a put overtakes him.
LEMMA LateStays ==
    ASSUME TypeOK, Next, ~Crash, NEW id \in Ids, NEW seen \in 0..MaxPuts,
           seen <= handler[id].puts,
           handler[id].puts > seen \/ id \in displaced \/ Settled(id)
    PROVE  /\ seen <= handler'[id].puts
           /\ handler'[id].puts > seen \/ id \in displaced' \/ Settled(id)'
<1>1. CASE PutInsert(id)
  <2>1. handler'[id].puts = handler[id].puts + 1 /\ handler[id].puts \in 0..MaxPuts
    BY <1>1, PutsGrow
  <2> QED BY <2>1, StoreAssumption
<1>2. CASE ~PutInsert(id)
  <2>1. handler'[id].puts = handler[id].puts
    BY <1>2, PutsGrow
  <2> QED BY <1>2, <2>1, SettledStays, DisplacedStays
<1> QED BY <1>1, <1>2

\* Where a reader that does not answer comes from: it was under way, about the
\* same id, or it has just missed.
LEMMA ReaderSteps ==
    ASSUME TypeOK, Next, NEW r \in Readers, reader'[r].pc # "idle"
    PROVE  \/ /\ reader[r].pc # "idle" /\ reader'[r].id = reader[r].id
              /\ reader'[r].puts = reader[r].puts
           \/ \E id \in Ids :
                 /\ reader'[r].id = id /\ reader'[r].puts = handler[id].puts
                 /\ reader'[r].pc \in {"evict", "stat"}
                 /\ ~Present(memory[id]) \/ Expired(memory[id])
<1> DEFINE Same == /\ reader[r].pc # "idle" /\ reader'[r].id = reader[r].id
                   /\ reader'[r].puts = reader[r].puts
<1>1. reader \in [Readers -> ReaderType]
  BY DEF TypeOK
<1>2. ASSUME reader' = reader PROVE Same
  BY <1>2
<1>3. ASSUME NEW q \in Readers, NEW id, NEW messages, NEW overtaken,
             Answered(q, id, messages, overtaken)
      PROVE  Same
  BY <1>1, <1>3, IdleType DEF Answered
<1>4. ASSUME NEW q \in Readers, GetStep(q) PROVE Same
  <2>1. CASE GetEvict(q)
    BY <1>3, <2>1 DEF GetEvict
  <2>2. CASE GetStat(q)
    <3> DEFINE age == IF Present(disk[reader[q].id]) THEN disk[reader[q].id].age ELSE 0
    <3>1. \/ Answered(q, reader[q].id, None, Overtaken(q))
          \/ reader' = [reader EXCEPT ![q].pc = "read", ![q].age = age]
      BY <2>2 DEF GetStat
    <3>2. reader[q].pc = "stat"
      BY <2>2 DEF GetStat
    <3> HIDE DEF age
    <3>3. CASE reader' = [reader EXCEPT ![q].pc = "read", ![q].age = age]
      BY <1>1, <3>2, <3>3 DEF ReaderType
    <3> QED BY <1>3, <3>1, <3>3
  <2>3. CASE GetRead(q)
    <3> DEFINE found == Parsed(disk[reader[q].id].lines)
    <3>1. \/ Answered(q, reader[q].id, None, Overtaken(q))
          \/ reader' = [reader EXCEPT ![q].pc = "insert", ![q].found = found]
      BY <2>3 DEF GetRead
    <3>2. reader[q].pc = "read"
      BY <2>3 DEF GetRead
    <3> HIDE DEF found
    <3>3. CASE reader' = [reader EXCEPT ![q].pc = "insert", ![q].found = found]
      BY <1>1, <3>2, <3>3 DEF ReaderType
    <3> QED BY <1>3, <3>1, <3>3
  <2>4. CASE GetInsert(q)
    BY <1>3, <2>4 DEF GetInsert
  <2> QED BY <1>4, <2>1, <2>2, <2>3, <2>4 DEF GetStep
<1>5. ASSUME NEW q \in Readers, NEW id \in Ids, GetLookup(q, id)
      PROVE  \/ Same
             \/ /\ reader'[r].id = id /\ reader'[r].puts = handler[id].puts
                /\ reader'[r].pc \in {"evict", "stat"}
                /\ ~Present(memory[id]) \/ Expired(memory[id])
  <2>1. CASE Answered(q, id, memory[id].messages, FALSE)
    BY <1>3, <2>1
  <2>2. CASE /\ ~Present(memory[id]) \/ Expired(memory[id])
             /\ Goes(q, id, "evict") \/ Goes(q, id, "stat")
    <3>1. PICK pc \in {"evict", "stat"} : Goes(q, id, pc)
      BY <2>2
    <3> DEFINE started == [Idle EXCEPT !.pc = pc, !.id = id, !.puts = handler[id].puts]
    <3>2. started.id = id /\ started.puts = handler[id].puts /\ started.pc = pc
      BY IdleType DEF ReaderType
    <3>3. reader' = [reader EXCEPT ![q] = started]
      BY <3>1 DEF Goes
    <3> HIDE DEF started
    <3> QED BY <1>1, <2>2, <3>2, <3>3
  <2> QED BY <1>5, <2>1, <2>2 DEF GetLookup
<1>6. CASE Tick
  BY <1>1, <1>6 DEF Tick, ReaderType
<1>7. CASE Crash
  BY <1>7, IdleType DEF Crash
<1>8. CASE PutStep \/ DiskStep \/ SweepStep \/ \E w \in writes : WriteFails(w)
  BY <1>2, <1>8
     DEF PutStep, PutInsert, PutSpawn, DiskStep, WriteOpen, WriteLine, WriteFails,
         RemoveFile, SweepStep, SweepCollect, SweepOpenDir, SweepDone,
         SweepEvict, SweepStat, SweepUnlink
<1> QED BY <1>4, <1>5, <1>6, <1>7, <1>8 DEF Next

LEMMA NextTypeOK ==
    ASSUME TypeOK, Next
    PROVE  TypeOK'
BY PutTypeOK, DiskTypeOK, GetTypeOK, SweepTypeOK, TickTypeOK, CrashTypeOK
   DEF Next

LEMMA ReadersStayLate ==
    ASSUME LatestInv, Next
    PROVE  ReadersAreLate'
<1> SUFFICES ASSUME NEW r \in Readers, reader'[r].pc # "idle",
                    NEW id \in Ids, reader'[r].id = id,
                    NEW seen \in 0..MaxPuts, reader'[r].puts = seen
             PROVE  /\ seen <= handler'[id].puts
                    /\ handler'[id].puts > seen \/ id \in displaced' \/ Settled(id)'
  <2>1. \A r \in Readers : reader'[r].id \in Ids /\ reader'[r].puts \in 0..MaxPuts
    BY NextTypeOK DEF LatestInv, TypeOK, ReaderType
  <2> QED BY <2>1 DEF ReadersAreLate, Settled, Overtaken
<1>0. TypeOK /\ ~Crash
  BY IdleType DEF LatestInv, Crash
<1>1. seen <= handler[id].puts /\ (handler[id].puts > seen \/ id \in displaced \/ Settled(id))
  <2>1. CASE /\ reader[r].pc # "idle" /\ reader'[r].id = reader[r].id
             /\ reader'[r].puts = reader[r].puts
    BY <2>1 DEF LatestInv, ReadersAreLate, Overtaken
  <2>2. CASE /\ reader'[r].puts = handler[id].puts
             /\ ~Present(memory[id]) \/ Expired(memory[id])
    BY <2>2, MissIsSettled
  <2> QED BY <1>0, <2>1, <2>2, ReaderSteps
<1> QED BY <1>0, <1>1, LateStays

LEMMA SweepStaysLate ==
    ASSUME LatestInv, Next
    PROVE  SweepIsLate'
<1>0. TypeOK /\ sweeper \in SweeperType /\ handler \in [Ids -> HandlerType]
      /\ TypeOK' /\ sweeper' \in SweeperType
  BY NextTypeOK DEF LatestInv, TypeOK
<1> SUFFICES ASSUME sweeper'.pc = "memory", NEW id \in Ids, id \in sweeper'.todo,
                    NEW seen \in 0..MaxPuts, sweeper'.seen[id] = seen
             PROVE  /\ seen <= handler'[id].puts
                    /\ handler'[id].puts > seen \/ id \in displaced' \/ Settled(id)'
  <2>1. /\ sweeper'.todo \subseteq Ids
        /\ \A id \in Ids : sweeper'.seen[id] \in 0..MaxPuts
    BY <1>0 DEF SweeperType
  <2> QED BY <2>1 DEF SweepIsLate, Settled
<1>1. ~Crash
  BY NoSweepType DEF Crash
<1>2. seen <= handler[id].puts /\ (handler[id].puts > seen \/ id \in displaced \/ Settled(id))
  <2>1. CASE SweepCollect
    <3>1. Present(memory[id]) /\ Expired(memory[id]) /\ seen = handler[id].puts
      BY <2>1 DEF SweepCollect
    <3>2. handler[id].puts \in 0..MaxPuts
      BY <1>0 DEF HandlerType
    <3> QED BY <3>1, <3>2, MissIsSettled
  <2>2. CASE ~SweepCollect
    <3>1. sweeper.pc = "memory" /\ id \in sweeper.todo /\ sweeper.seen[id] = seen
      <4>1. CASE SweepStep
        <5>1. ASSUME NEW i \in Ids, SweepEvict(i)
              PROVE  sweeper.pc = "memory" /\ id \in sweeper.todo /\ sweeper.seen[id] = seen
          <6>1. sweeper' = [sweeper EXCEPT !.todo = @ \ {i}, !.seen = [@ EXCEPT ![i] = 0]]
            BY <5>1 DEF SweepEvict
          <6>2. /\ sweeper'.todo = sweeper.todo \ {i}
                /\ sweeper'.seen = [sweeper.seen EXCEPT ![i] = 0]
            BY <1>0, <6>1 DEF SweeperType
          <6>3. sweeper.seen \in [Ids -> 0..MaxPuts]
            BY <1>0 DEF SweeperType
          <6> QED BY <5>1, <6>2, <6>3 DEF SweepEvict
        <5>2. ~(SweepOpenDir \/ SweepDone)
          BY <1>0, NoSweepType DEF SweepOpenDir, SweepDone, SweeperType
        <5>3. ASSUME NEW i \in Ids, SweepStat(i) PROVE FALSE
          BY <1>0, <5>3 DEF SweepStat, SweeperType
        <5>4. ASSUME NEW i \in Ids, SweepUnlink(i) PROVE FALSE
          BY <1>0, <5>4 DEF SweepUnlink, SweeperType
        <5> QED BY <2>2, <4>1, <5>1, <5>2, <5>3, <5>4 DEF SweepStep
      <4>2. CASE sweeper' = sweeper
        BY <4>2
      <4> QED BY <1>1, <4>1, <4>2 DEF Next, PutStep, PutInsert, PutSpawn, DiskStep,
            WriteOpen, WriteLine, WriteFails, RemoveFile, GetStep, GetEvict,
            GetStat, GetRead, GetInsert, GetLookup, Tick
    <3> QED BY <3>1 DEF LatestInv, SweepIsLate
  <2> QED BY <2>1, <2>2
<1> QED BY <1>0, <1>1, <1>2, LateStays

\* Nothing is put.
Owes(id) == UNCHANGED <<handler[id].puts, owed[id], putAge[id]>>

\* What each step does to one entry of the memory map.
LEMMA EntrySteps ==
    ASSUME LatestInv, Next, NEW id \in Ids
    PROVE  \/ PutInsert(id)
           \/ Tick
           \/ Crash
           \/ Owes(id) /\ (Settled(id) \/ id \in displaced' \/ memory'[id] = memory[id])
<1> USE DEF Owes
<1>0. ~PutInsert(id) => handler'[id].puts = handler[id].puts
  BY PutsGrow DEF LatestInv
<1> DEFINE Kept == UNCHANGED <<owed[id], putAge[id]>>
           Fine == Settled(id) \/ id \in displaced' \/ memory'[id] = memory[id]
<1>1. ASSUME NEW i \in Ids, PutInsert(i), i # id
      PROVE  Kept /\ Fine
  BY <1>1 DEF PutInsert, LatestInv, TypeOK
<1>2. ASSUME NEW i \in Ids, PutSpawn(i)
      PROVE  Kept /\ Fine
  BY <1>2 DEF PutSpawn
<1>3. ASSUME DiskStep \/ \E w \in writes : WriteFails(w)
      PROVE  Kept /\ Fine
  BY <1>3 DEF DiskStep, WriteOpen, WriteLine, WriteFails, RemoveFile, history
<1>4. ASSUME NEW r \in Readers, GetStep(r) \/ \E i \in Ids : GetLookup(r, i)
      PROVE  Kept /\ Fine
  <2>1. CASE GetEvict(r) \/ GetInsert(r)
    <3>1. /\ reader[r].id \in Ids
          /\ Overtaken(r) \/ reader[r].id \in displaced \/ Settled(reader[r].id)
      BY <2>1 DEF LatestInv, ReadersAreLate, TypeOK, ReaderType, GetEvict, GetInsert
    <3>2. reader[r].id # id => memory'[id] = memory[id]
      BY <2>1, <3>1 DEF GetEvict, GetInsert, LatestInv, TypeOK
    <3>3. displaced' = Displaced(reader[r].id, Overtaken(r))
      BY <2>1 DEF GetEvict, GetInsert
    <3>4. Overtaken(r) \/ reader[r].id \in displaced => reader[r].id \in displaced'
      BY <3>3 DEF Displaced
    <3>5. Kept
      BY <2>1 DEF GetEvict, GetInsert
    <3> QED BY <3>1, <3>2, <3>4, <3>5
  <2>2. CASE GetStat(r) \/ GetRead(r) \/ \E i \in Ids : GetLookup(r, i)
    BY <2>2 DEF GetStat, GetRead, GetLookup
  <2> QED BY <1>4, <2>1, <2>2 DEF GetStep
<1>5. ASSUME SweepStep
      PROVE  Kept /\ Fine
  <2>1. ASSUME NEW i \in Ids, SweepEvict(i)
        PROVE  Kept /\ Fine
    <3>1. handler[i].puts > sweeper.seen[i] \/ i \in displaced \/ Settled(i)
      BY <2>1 DEF SweepEvict, LatestInv, SweepIsLate
    <3>2. i # id => memory'[id] = memory[id]
      BY <2>1 DEF SweepEvict, LatestInv, TypeOK
    <3>3. displaced' = Displaced(i, handler[i].puts > sweeper.seen[i])
      BY <2>1 DEF SweepEvict
    <3>4. handler[i].puts > sweeper.seen[i] \/ i \in displaced => i \in displaced'
      BY <3>3 DEF Displaced
    <3>5. Kept
      BY <2>1 DEF SweepEvict
    <3> QED BY <3>1, <3>2, <3>4, <3>5
  <2>2. ASSUME \/ SweepCollect \/ SweepOpenDir \/ SweepDone
               \/ \E i \in Ids : SweepStat(i) \/ SweepUnlink(i)
        PROVE  Kept /\ Fine
    BY <2>2 DEF SweepCollect, SweepOpenDir, SweepDone, SweepStat, SweepUnlink, history
  <2> QED BY <1>5, <2>1, <2>2 DEF SweepStep
<1> HIDE DEF Fine
<1>6. PutInsert(id) \/ Tick \/ Crash \/ (Kept /\ Fine)
  BY <1>1, <1>2, <1>3, <1>4, <1>5 DEF Next, PutStep
<1> QED BY <1>0, <1>6 DEF Fine

LEMMA LatestStep ==
    ASSUME LatestInv, Next
    PROVE  MemoryHoldsLatest'
<1> DEFINE Held(id) == id \notin displaced /\ owed[id] > 0 /\ putAge[id] <= TTL =>
                          memory[id] = [messages |-> Messages(id, owed[id]), age |-> putAge[id]]
<1> SUFFICES ASSUME NEW id \in Ids PROVE Held(id)'
  BY DEF MemoryHoldsLatest
<1>1. /\ memory \in [Ids -> EntryType] /\ handler[id].puts \in 0..MaxPuts
      /\ owed \in [Ids -> 0..MaxPuts] /\ putAge \in [Ids -> 0..(TTL + 1)]
  BY DEF LatestInv, TypeOK, HandlerType
<1>2. Held(id)
  BY DEF LatestInv, MemoryHoldsLatest
<1>3. \A v : Messages(id, v)' = Messages(id, v)
  BY PutsGrow DEF LatestInv
<1>4. SUFFICES ASSUME id \notin displaced', owed'[id] > 0, putAge'[id] <= TTL
               PROVE  memory'[id] = [messages |-> Messages(id, owed'[id]), age |-> putAge'[id]]
  <2>1. Messages(id, owed[id])' = Messages(id, owed'[id])
    BY PutsGrow DEF LatestInv, Messages
  <2> QED BY <2>1
<1>5. CASE PutInsert(id)
  BY <1>1, <1>5 DEF PutInsert
<1>6. CASE Tick
  <2>1. /\ memory'[id] = [memory[id] EXCEPT !.age = Older(@, TTL)]
        /\ putAge'[id] = Older(putAge[id], TTL)
        /\ owed' = owed /\ displaced' = displaced
    BY <1>6 DEF Tick, taken
  <2>2. putAge[id] <= TTL
    BY <1>1, <1>4, <2>1, StoreAssumption DEF Older
  <2>3. memory[id] = [messages |-> Messages(id, owed[id]), age |-> putAge[id]]
    BY <1>2, <1>4, <2>1, <2>2
  <2> QED BY <2>1, <2>3
<1>7. CASE Crash
  BY <1>1, <1>4, <1>7 DEF Crash
<1>8. CASE Owes(id) /\ (Settled(id) \/ id \in displaced' \/ memory'[id] = memory[id])
  <2>1. owed[id] > 0 /\ putAge[id] <= TTL
    BY <1>4, <1>8 DEF Owes
  <2>2. ~Settled(id)
    BY <1>1, <2>1, StoreAssumption DEF Settled
  <2>3. CASE PutInsert(id) \/ Crash
    BY <1>5, <1>7, <2>3
  <2>4. CASE id \notin displaced
    BY <1>2, <1>4, <1>8, <2>1, <2>2, <2>4 DEF Owes
  <2> QED BY <1>4, <2>3, <2>4, DisplacedStays
<1> QED BY <1>5, <1>6, <1>7, <1>8, EntrySteps

LEMMA LatestInit == Init => LatestInv
<1> SUFFICES ASSUME Init PROVE LatestInv
  OBVIOUS
<1>1. TypeOK
  BY InitTypeOK
<1>2. \A id \in Ids : owed[id] = 0
  BY DEF Init
<1>3. (\A r \in Readers : reader[r].pc = "idle") /\ sweeper.pc = "idle"
  BY IdleType, NoSweepType DEF Init
<1> QED BY <1>1, <1>2, <1>3
        DEF LatestInv, MemoryHoldsLatest, ReadersAreLate, SweepIsLate

LEMMA LatestNext ==
    ASSUME LatestInv, [Next]_vars
    PROVE  LatestInv'
<1>1. CASE UNCHANGED vars
  <2>1. TypeOK'
    BY <1>1 DEF vars, taken, LatestInv, TypeOK
  <2>2. MemoryHoldsLatest'
    BY <1>1 DEF vars, taken, LatestInv, MemoryHoldsLatest, Messages
  <2>3. ReadersAreLate' /\ SweepIsLate'
    BY <1>1 DEF vars, taken, LatestInv, ReadersAreLate, SweepIsLate, Settled, Overtaken
  <2> QED BY <2>1, <2>2, <2>3 DEF LatestInv
<1>2. CASE Next
  BY <1>2, NextTypeOK, LatestStep, ReadersStayLate, SweepStaysLate DEF LatestInv
<1> QED BY <1>1, <1>2

\* Until an entry expires or the process dies, the map holds the last version put
\* of every id, however gets, sweeps, file writes and removals interleave, unless
\* a get or a sweep looked at the map before that put and acted after it (store.rs:
\* get, load_messages_from_disk and sweep_expired look under one lock and act under
\* another).  Clients may name any id at any time, and a put may come at any age of
\* the one before.
THEOREM LatestIsHeld == Spec => []MemoryHoldsLatest
<1>1. Init => LatestInv
  BY LatestInit
<1>2. LatestInv /\ [Next]_vars => LatestInv'
  BY LatestNext
<1>3. LatestInv => MemoryHoldsLatest
  BY DEF LatestInv
<1> QED BY <1>1, <1>2, <1>3, PTL DEF Spec

-----------------------------------------------------------------------------
(* The disk gives no history a second life                                 *)

\* A file is no younger than the last put of its id, or the last write of it.
FilesAreDated ==
    \A id \in Ids : Present(disk[id]) /\ ~Expired(disk[id]) =>
        touched[id] <= disk[id].age

\* Loaded from the disk, an entry may lag by the ticks of the get that loaded it.
EntriesAreDated ==
    \A id \in Ids : Present(memory[id]) /\ ~Expired(memory[id]) =>
        touched[id] <= memory[id].age + MaxReadTicks

\* A get holds the age the file had, and the file it found may be another by the
\* time it is read: a newer one.
ReadersAreDated ==
    \A r \in Readers :
        LET id  == reader[r].id
            age == reader[r].age + reader[r].ticks
        IN  /\ reader[r].pc = "read" /\ Present(disk[id]) => touched[id] <= age
            /\ reader[r].pc = "insert" => touched[id] <= age

DatedInv ==
    /\ FilesAreDated
    /\ EntriesAreDated
    /\ ReadersAreDated
    /\ NoStaleAnswer

\* A put, or a write that touches the file, makes everything about its id young.
LEMMA TouchedKeepsDates ==
    ASSUME TypeOK, DatedInv, TypeOK', NEW id \in Ids,
           touched' = [touched EXCEPT ![id] = 0],
           memory' = memory \/ memory' = [memory EXCEPT ![id] = memory'[id]],
           disk' = disk \/ disk' = [disk EXCEPT ![id] = disk'[id]],
           UNCHANGED <<reader, answer>>
    PROVE  DatedInv'
<1>1. \A i \in Ids : /\ touched'[i] = (IF i = id THEN 0 ELSE touched[i])
                     /\ i # id => memory'[i] = memory[i] /\ disk'[i] = disk[i]
  BY DEF TypeOK
<1>2. FilesAreDated'
  <2>1. \A i \in Ids : disk'[i].age \in -1..(TTL + 1)
    BY DEF TypeOK
  <2> QED BY <1>1, <2>1 DEF DatedInv, FilesAreDated, Present, Expired
<1>3. EntriesAreDated'
  <2>1. \A i \in Ids : memory'[i].age \in -1..(TTL + 1)
    BY DEF TypeOK, EntryType
  <2> QED BY <1>1, <2>1, StoreAssumption DEF DatedInv, EntriesAreDated, Present, Expired
<1>4. ReadersAreDated'
  <2>1. \A r \in Readers : reader[r] \in ReaderType
    BY DEF TypeOK
  <2>2. \A x \in ReaderType : x.id \in Ids /\ x.age \in Nat /\ x.ticks \in Nat
    BY DEF ReaderType
  <2>3. reader' = reader
    OBVIOUS
  <2> QED BY <1>1, <2>1, <2>2, <2>3 DEF DatedInv, ReadersAreDated
<1>5. NoStaleAnswer'
  BY DEF DatedInv, NoStaleAnswer
<1> QED BY <1>2, <1>3, <1>4, <1>5 DEF DatedInv

\* Nothing gets younger, and no answer is given, when entries and files only go.
LEMMA RemovalKeepsDates ==
    ASSUME DatedInv, UNCHANGED <<touched, reader, answer>>,
           \A id \in Ids : memory'[id] = memory[id] \/ ~Present(memory'[id]),
           \A id \in Ids : disk'[id] = disk[id] \/ ~Present(disk'[id]),
           TypeOK
    PROVE  DatedInv'
<1>1. FilesAreDated' /\ EntriesAreDated' /\ NoStaleAnswer'
  BY DEF DatedInv, FilesAreDated, EntriesAreDated, NoStaleAnswer,
         Present, Expired
<1>2. ReadersAreDated'
  <2>1. \A r \in Readers : reader[r].id \in Ids
    BY DEF TypeOK, ReaderType
  <2> QED BY <2>1 DEF DatedInv, ReadersAreDated
<1> QED BY <1>1, <1>2 DEF DatedInv

LEMMA PutAndDiskKeepDates ==
    ASSUME TypeOK, DatedInv, TypeOK',
           PutStep \/ DiskStep \/ \E w \in writes : WriteFails(w)
    PROVE  DatedInv'
<1>0. (\A id \in Ids : memory'[id] = memory[id]) /\ disk' = disk /\
      UNCHANGED <<touched, reader, answer>> => DatedInv'
  BY RemovalKeepsDates
<1>1. ASSUME NEW id \in Ids, PutInsert(id) PROVE DatedInv'
  BY <1>1, TouchedKeepsDates DEF PutInsert, TypeOK
<1>2. ASSUME NEW id \in Ids, PutSpawn(id) PROVE DatedInv'
  BY <1>0, <1>2 DEF PutSpawn
<1>3. ASSUME NEW w \in writes, WriteOpen(w) PROVE DatedInv'
  <2>1. w.id \in Ids
    BY DEF TypeOK, WriteType
  <2> QED BY <1>3, <2>1, TouchedKeepsDates DEF WriteOpen, TypeOK
<1>4. ASSUME NEW w \in writes, WriteLine(w) PROVE DatedInv'
  <2>1. w.id \in Ids
    BY DEF TypeOK, WriteType
  <2> DEFINE file == [lines |-> LineWritten(disk[w.id].lines, w.next, w.messages[w.next]),
                      age |-> 0]
  <2>2. CASE w.attached
    <3>1. disk' = [disk EXCEPT ![w.id] = file] /\ touched' = [touched EXCEPT ![w.id] = 0]
      BY <1>4, <2>2 DEF WriteLine
    <3> HIDE DEF file
    <3>2. disk' = [disk EXCEPT ![w.id] = disk'[w.id]]
      BY <2>1, <3>1 DEF TypeOK
    <3>3. memory' = memory /\ UNCHANGED <<reader, answer>>
      BY <1>4 DEF WriteLine
    <3> QED BY <2>1, <3>1, <3>2, <3>3, TouchedKeepsDates
  <2>3. CASE ~w.attached
    BY <1>0, <1>4, <2>3 DEF WriteLine
  <2> QED BY <2>2, <2>3
<1>5. ASSUME NEW id \in Ids, RemoveFile(id) PROVE DatedInv'
  <2>1. \A i \in Ids : disk'[i] = disk[i] \/ ~Present(disk'[i])
    BY <1>5 DEF RemoveFile, Unlink, NoFile, Present, TypeOK
  <2> QED BY <1>5, <2>1, RemovalKeepsDates DEF RemoveFile, history
<1>6. ASSUME NEW w \in writes, WriteFails(w) PROVE DatedInv'
  BY <1>0, <1>6 DEF WriteFails, history
<1> QED BY <1>1, <1>2, <1>3, <1>4, <1>5, <1>6 DEF PutStep, DiskStep

LEMMA GetKeepsDates ==
    ASSUME TypeOK, DatedInv, TypeOK', NEW r \in Readers,
           GetStep(r) \/ \E id \in Ids : GetLookup(r, id)
    PROVE  DatedInv'
<1>0. /\ reader[r] \in ReaderType /\ reader[r].id \in Ids
      /\ reader[r].age \in 0..TTL /\ reader[r].ticks \in 0..MaxReadTicks
  BY DEF TypeOK, ReaderType
<1>1. \A id \in Ids : touched[id] \in Nat
  BY DEF TypeOK
\* What a get answers is young enough, and it holds nothing any longer.
<1>2. ASSUME NEW id \in Ids, NEW messages, NEW overtaken,
             Answered(r, id, messages, overtaken),
             messages # None => touched[id] <= TTL + MaxReadTicks,
             touched' = touched, disk' = disk
      PROVE  ReadersAreDated' /\ NoStaleAnswer'
  <2>1. \A q \in Readers : q # r => reader'[q] = reader[q]
    BY <1>1, <1>2 DEF Answered, TypeOK
  <2>2. reader'[r].pc = "idle"
    BY <1>2, IdleType DEF Answered, TypeOK
  <2>3. \/ answer' = NoAnswer
        \/ answer'.age = touched[id] /\ messages # None
    BY <1>2 DEF Answered
  <2>4. NoStaleAnswer'
    BY <1>2, <2>3 DEF NoStaleAnswer, NoAnswer
  <2>5. ReadersAreDated'
    BY <1>2, <2>1, <2>2 DEF ReadersAreDated, DatedInv
  <2> QED BY <2>4, <2>5
\* A get that goes on answers nothing yet.
<1>3. ASSUME NEW id \in Ids, NEW pc \in {"evict", "stat"}, Goes(r, id, pc),
             touched' = touched, disk' = disk
      PROVE  ReadersAreDated' /\ NoStaleAnswer'
  <2>1. \A q \in Readers : q # r => reader'[q] = reader[q]
    BY <1>1, <1>3 DEF Goes, TypeOK
  <2>2. reader'[r].pc = pc
    BY <1>3, IdleType DEF Goes, TypeOK, ReaderType
  <2>3. NoStaleAnswer'
    BY <1>3 DEF Goes, NoStaleAnswer, NoAnswer
  <2>4. ReadersAreDated'
    BY <1>3, <2>1, <2>2 DEF ReadersAreDated, DatedInv
  <2> QED BY <2>3, <2>4
<1>4. ASSUME NEW id \in Ids, GetLookup(r, id) PROVE DatedInv'
  <2>1. FilesAreDated' /\ EntriesAreDated'
    BY <1>4 DEF GetLookup, DatedInv, FilesAreDated, EntriesAreDated, Present, Expired
  <2>2. ASSUME Present(memory[id]), ~Expired(memory[id])
        PROVE  touched[id] <= TTL + MaxReadTicks
    <3>1. memory[id].age \in -1..(TTL + 1)
      BY DEF TypeOK, EntryType
    <3> QED BY <1>1, <2>2, <3>1, StoreAssumption DEF DatedInv, EntriesAreDated, Expired
  <2> QED BY <1>2, <1>3, <1>4, <2>1, <2>2 DEF GetLookup, DatedInv
<1>5. CASE GetEvict(r)
  <2>1. \A i \in Ids : memory'[i] = memory[i] \/ ~Present(memory'[i])
    BY <1>0, <1>5 DEF GetEvict, TypeOK, NoEntry, Present
  <2>2. FilesAreDated' /\ EntriesAreDated'
    BY <1>5, <2>1 DEF GetEvict, DatedInv, FilesAreDated, EntriesAreDated, Present, Expired
  <2> QED BY <1>0, <1>2, <1>5, <2>2 DEF GetEvict, DatedInv
<1>6. CASE GetStat(r)
  <2> DEFINE id  == reader[r].id
             age == IF Present(disk[id]) THEN disk[id].age ELSE 0
  <2>1. FilesAreDated' /\ EntriesAreDated'
    BY <1>6 DEF GetStat, DatedInv, FilesAreDated, EntriesAreDated, Present, Expired
  <2>2. CASE Answered(r, id, None, Overtaken(r))
    BY <1>0, <1>2, <1>6, <2>1, <2>2 DEF GetStat, DatedInv
  <2>3. CASE /\ age <= TTL /\ answer' = answer
             /\ reader' = [reader EXCEPT ![r].pc = "read", ![r].age = age]
    <3>1. \A q \in Readers : q # r => reader'[q] = reader[q]
      BY <2>3 DEF TypeOK
    <3>2. /\ reader'[r].id = id /\ reader'[r].pc = "read"
          /\ reader'[r].age = age /\ reader'[r].ticks = reader[r].ticks
      <4>1. reader'[r] = [reader[r] EXCEPT !.pc = "read", !.age = age]
        BY <2>3 DEF TypeOK
      <4> HIDE DEF age
      <4> QED BY <1>0, <4>1 DEF ReaderType
    <3>3. Present(disk[id]) => touched[id] <= age + reader[r].ticks
      <4>1. disk[id].age \in -1..(TTL + 1)
        BY <1>0 DEF TypeOK
      <4>2. Present(disk[id]) => touched[id] <= disk[id].age
        BY <1>0, <2>3, <4>1, StoreAssumption DEF DatedInv, FilesAreDated, Expired
      <4> QED BY <1>0, <1>1, <4>1, <4>2
    <3>4. touched' = touched /\ disk' = disk
      BY <1>6 DEF GetStat
    <3> HIDE DEF age
    <3>5. ReadersAreDated'
      BY <3>1, <3>2, <3>3, <3>4 DEF ReadersAreDated, DatedInv
    <3> QED BY <2>1, <2>3, <3>5 DEF DatedInv, NoStaleAnswer
  <2> QED BY <1>6, <2>2, <2>3 DEF GetStat
<1>7. CASE GetRead(r)
  <2> DEFINE id    == reader[r].id
             found == Parsed(disk[id].lines)
  <2>1. FilesAreDated' /\ EntriesAreDated'
    BY <1>7 DEF GetRead, DatedInv, FilesAreDated, EntriesAreDated, Present, Expired
  <2>2. CASE Answered(r, id, None, Overtaken(r))
    BY <1>0, <1>2, <1>7, <2>1, <2>2 DEF GetRead, DatedInv
  <2>3. CASE /\ Present(disk[id]) /\ answer' = answer
             /\ reader' = [reader EXCEPT ![r].pc = "insert", ![r].found = found]
    <3>1. \A q \in Readers : q # r => reader'[q] = reader[q]
      BY <2>3 DEF TypeOK
    <3>2. /\ reader'[r].id = id /\ reader'[r].pc = "insert"
          /\ reader'[r].age = reader[r].age /\ reader'[r].ticks = reader[r].ticks
      <4>1. reader'[r] = [reader[r] EXCEPT !.pc = "insert", !.found = found]
        BY <2>3 DEF TypeOK
      <4> HIDE DEF found
      <4> QED BY <1>0, <4>1 DEF ReaderType
    <3>3. touched' = touched /\ disk' = disk /\ reader[r].pc = "read"
      BY <1>7 DEF GetRead
    <3> HIDE DEF found
    <3>4. ReadersAreDated'
      BY <2>3, <3>1, <3>2, <3>3 DEF ReadersAreDated, DatedInv
    <3> QED BY <2>1, <2>3, <3>4 DEF DatedInv, NoStaleAnswer
  <2> QED BY <1>7, <2>2, <2>3 DEF GetRead
<1>8. CASE GetInsert(r)
  <2> DEFINE id == reader[r].id
  <2>1. touched[id] <= reader[r].age + reader[r].ticks
    BY <1>8 DEF GetInsert, DatedInv, ReadersAreDated
  <2>2. /\ \A i \in Ids : i # id => memory'[i] = memory[i]
        /\ memory'[id].age = reader[r].age
    BY <1>0, <1>8 DEF GetInsert, TypeOK
  <2>3. touched' = touched /\ disk' = disk
    BY <1>8 DEF GetInsert
  <2>4. FilesAreDated'
    BY <2>3 DEF DatedInv, FilesAreDated, Present, Expired
  <2>5. EntriesAreDated'
    BY <1>0, <1>1, <2>1, <2>2, <2>3, StoreAssumption
       DEF DatedInv, EntriesAreDated, Present, Expired
  <2>6. touched[id] <= TTL + MaxReadTicks
    BY <1>0, <1>1, <2>1, StoreAssumption
  <2> QED BY <1>0, <1>2, <1>8, <2>3, <2>4, <2>5, <2>6 DEF GetInsert, DatedInv
<1> QED BY <1>4, <1>5, <1>6, <1>7, <1>8 DEF GetStep

LEMMA SweepKeepsDates ==
    ASSUME TypeOK, DatedInv, SweepStep
    PROVE  DatedInv'
<1>1. UNCHANGED <<touched, reader, answer>>
  BY DEF SweepStep, SweepCollect, SweepOpenDir, SweepDone, SweepEvict, SweepStat,
         SweepUnlink, history
<1> DEFINE Less == /\ \A id \in Ids : memory'[id] = memory[id] \/ ~Present(memory'[id])
                   /\ \A id \in Ids : disk'[id] = disk[id] \/ ~Present(disk'[id])
<1>2. ASSUME NEW id \in Ids, SweepEvict(id) PROVE Less
  BY <1>2 DEF SweepEvict, TypeOK, NoEntry, Present
<1>3. ASSUME NEW id \in Ids, SweepUnlink(id) PROVE Less
  BY <1>3 DEF SweepUnlink, Unlink, TypeOK, NoFile, Present
<1>4. ASSUME \/ SweepCollect \/ SweepOpenDir \/ SweepDone
             \/ \E id \in Ids : SweepStat(id)
      PROVE  Less
  BY <1>4 DEF SweepCollect, SweepOpenDir, SweepDone, SweepStat
<1>5. Less
  BY <1>2, <1>3, <1>4 DEF SweepStep
<1> QED BY <1>1, <1>5, RemovalKeepsDates

LEMMA TickKeepsDates ==
    ASSUME TypeOK, DatedInv, Tick
    PROVE  DatedInv'
<1>1. ASSUME NEW id \in Ids
      PROVE  /\ memory'[id].age = Older(memory[id].age, TTL)
             /\ disk'[id].age = Older(disk[id].age, TTL)
             /\ touched'[id] = Older(touched[id], TTL + MaxReadTicks)
             /\ memory[id].age \in -1..(TTL + 1) /\ disk[id].age \in -1..(TTL + 1)
             /\ touched[id] \in 0..(TTL + MaxReadTicks + 1)
  <2>1. memory[id] \in EntryType
    BY DEF TypeOK
  <2>2. disk[id] \in [lines : Seq(Lines \cup {Hole}), age : -1..(TTL + 1)]
    BY DEF TypeOK
  <2>3. /\ memory'[id] = [memory[id] EXCEPT !.age = Older(@, TTL)]
        /\ disk'[id] = [disk[id] EXCEPT !.age = Older(@, TTL)]
        /\ touched'[id] = Older(touched[id], TTL + MaxReadTicks)
    BY DEF Tick
  <2>4. touched[id] \in 0..(TTL + MaxReadTicks + 1)
    BY DEF TypeOK
  <2> QED BY <2>1, <2>2, <2>3, <2>4 DEF EntryType
<1>2. FilesAreDated'
  BY <1>1, StoreAssumption DEF DatedInv, FilesAreDated, Present, Expired, Older
<1>3. EntriesAreDated'
  BY <1>1, StoreAssumption DEF DatedInv, EntriesAreDated, Present, Expired, Older
<1>4. ReadersAreDated'
  <2> SUFFICES ASSUME NEW r \in Readers
               PROVE  LET id  == reader'[r].id
                          age == reader'[r].age + reader'[r].ticks
                      IN  /\ reader'[r].pc = "read" /\ Present(disk'[id])
                                => touched'[id] <= age
                          /\ reader'[r].pc = "insert" => touched'[id] <= age
    BY DEF ReadersAreDated
  <2>1. reader[r] \in ReaderType
    BY DEF TypeOK
  <2>2. CASE reader[r].pc = "idle"
    BY <2>2 DEF Tick
  <2>3. CASE reader[r].pc # "idle"
    <3>1. reader'[r] = [reader[r] EXCEPT !.ticks = @ + 1]
      BY <2>3 DEF Tick
    <3>2. /\ reader'[r].id = reader[r].id /\ reader'[r].pc = reader[r].pc
          /\ reader'[r].age = reader[r].age /\ reader'[r].ticks = reader[r].ticks + 1
          /\ reader[r].id \in Ids /\ reader[r].age \in Nat /\ reader[r].ticks \in Nat
      BY <2>1, <3>1 DEF ReaderType
    <3>3. touched'[reader[r].id] <= touched[reader[r].id] + 1
      BY <1>1, <3>2, StoreAssumption DEF Older
    <3>4. Present(disk'[reader[r].id]) => Present(disk[reader[r].id])
      BY <1>1, <3>2, StoreAssumption DEF Present, Older
    <3>5. touched[reader[r].id] \in Nat /\ touched'[reader[r].id] \in Nat
      BY <1>1, <3>2, StoreAssumption DEF Older
    <3> QED BY <3>2, <3>3, <3>4, <3>5 DEF DatedInv, ReadersAreDated
  <2> QED BY <2>2, <2>3
<1> QED BY <1>2, <1>3, <1>4 DEF Tick, DatedInv, NoStaleAnswer, NoAnswer

LEMMA CrashKeepsDates ==
    ASSUME TypeOK, DatedInv, Crash
    PROVE  DatedInv'
<1>1. /\ \A id \in Ids : ~Present(memory'[id])
      /\ \A r \in Readers : reader'[r].pc = "idle"
      /\ UNCHANGED <<disk, touched, answer>>
  BY IdleType DEF Crash, NoEntry, Present
<1> QED BY <1>1 DEF DatedInv, FilesAreDated, EntriesAreDated, ReadersAreDated,
                    NoStaleAnswer, Present, Expired

\* What a get answers was put or written no longer ago than the TTL and the time
\* of the get: an entry loaded from a file keeps the age of the file (store.rs:
\* get), so the disk renews no lifetime, whatever is written, swept or lost
\* between the steps of the get.
THEOREM AnswersAreFresh == Spec => []NoStaleAnswer
<1>1. Init => TypeOK /\ DatedInv
  <2> SUFFICES ASSUME Init PROVE DatedInv
    BY InitTypeOK
  <2>1. /\ \A id \in Ids : ~Present(memory[id]) /\ ~Present(disk[id])
        /\ \A r \in Readers : reader[r].pc = "idle"
        /\ answer.messages = None
    BY IdleType DEF Init, NoEntry, NoFile, NoAnswer, Present
  <2> QED BY <2>1 DEF DatedInv, FilesAreDated, EntriesAreDated, ReadersAreDated,
                      NoStaleAnswer
<1>2. TypeOK /\ DatedInv /\ [Next]_vars => (TypeOK /\ DatedInv)'
  <2>1. TypeOK /\ DatedInv /\ UNCHANGED vars => (TypeOK /\ DatedInv)'
    BY DEF vars, taken, TypeOK, DatedInv, FilesAreDated, EntriesAreDated, ReadersAreDated,
           NoStaleAnswer, Present, Expired
  <2>2. TypeOK /\ Next => TypeOK'
    BY PutTypeOK, DiskTypeOK, GetTypeOK, SweepTypeOK, TickTypeOK, CrashTypeOK DEF Next
  <2>3. TypeOK /\ DatedInv /\ Next => DatedInv'
    BY <2>2, PutAndDiskKeepDates, GetKeepsDates, SweepKeepsDates, TickKeepsDates,
       CrashKeepsDates DEF Next
  <2> QED BY <2>1, <2>2, <2>3
<1>3. DatedInv => NoStaleAnswer
  BY DEF DatedInv
<1> QED BY <1>1, <1>2, <1>3, PTL DEF Spec

-----------------------------------------------------------------------------
(* Histories are answered, and left on the disk, whole                     *)

\* A put is under way only while the store owes it.
PutsAreOwed ==
    \A id \in Ids : handler[id].pc = "inserted" =>
        owed[id] = handler[id].puts /\ owed[id] > 0 /\ putAge[id] = 0

\* m is the beginning of what puts that extend one another put.
Initial(m) == Len(m) <= MaxPuts + 1 /\ \A k \in 1..Len(m) : m[k] = k

\* A writer writes one of the versions, unless it read back what had displaced its
\* put, and it is no older than the put of its id.
WriterInv(w) ==
    /\ w.put \in 1..MaxPuts
    /\ w.id \notin spoiled => w.messages = Messages(w.id, w.put)
    /\ Extending(w.id) => Initial(w.messages)
    /\ w.next = 0 => w.attached
    /\ owed[w.id] > 0
    /\ putAge[w.id] <= w.ticks

WritersAreRecent == \A w \in writes : WriterInv(w)

\* w has the file of id open.
Writes(w, id) == w.id = id /\ w.next > 0 /\ w.attached

\* Every line of a file is in its place or still a hole.
InPlace(lines) ==
    /\ Len(lines) <= MaxPuts + 1
    /\ \A k \in 1..Len(lines) : lines[k] \in {k, Hole}

\* Where the second put extends the first: a hole is yet to be filled, as it was
\* left by a writer overtaken by another, which has the file open and has not come
\* that far.  A file nobody has open holds the two lines that every version has.
Fillable(id) ==
    LET lines == disk[id].lines
        Open  == {w \in writes : Writes(w, id)}
    IN  /\ \A k \in 1..Len(lines) : lines[k] = Hole =>
              k <= 2 /\ \E w \in Open : w.next <= k
        /\ Open # {} => \E w \in Open : w.next <= Len(lines) + 1
        /\ Open = {} => Len(lines) >= 2

\* lines are the first of v.
Begins(lines, v) == Len(lines) <= Len(v) /\ \A k \in 1..Len(lines) : lines[k] = v[k]

OneWrites(id) == \A w, x \in writes : Writes(w, id) /\ Writes(x, id) => w = x

\* Where it does not: at most one writer has the file open, and the file holds what
\* that one has written so far.
Exact(id) ==
    LET lines == disk[id].lines IN
    /\ OneWrites(id)
    /\ \A w \in writes : Writes(w, id) =>
          Len(lines) = w.next - 1 /\ Begins(lines, w.messages)
    /\ \E v \in Versions(id) : Begins(lines, v)
    /\ faults = 0 /\ (\A w \in writes : ~Writes(w, id)) => lines \in Versions(id)

FileInv(id) ==
    /\ \A w \in writes : Writes(w, id) => Present(disk[id])
    /\ Present(disk[id]) =>
          /\ Extending(id) => InPlace(disk[id].lines)
          /\ id \notin spoiled /\ handler[id].alone /\ faults = 0 => Fillable(id)
          /\ id \notin spoiled /\ ~handler[id].alone => Exact(id)

FilesInv == \A id \in Ids : FileInv(id)

\* Before the last write of id was spawned there was at most one before it, and a
\* put that is displaced is displaced by the beginning of what that one writes.
Once(id) ==
    /\ Extending(id)
    /\ handler[id].puts <= 1 \/ handler[id].pc = "inserted"
    /\ handler[id].pc # "gone"

Unwritten(id) ==
    handler[id].puts = 0 \/ (handler[id].puts = 1 /\ handler[id].pc = "inserted")

FirstInv(id) ==
    /\ Unwritten(id) => ~Present(disk[id]) /\ \A w \in writes : w.id # id
    /\ Once(id) =>
          /\ \A w, x \in writes : w.id = id /\ x.id = id => w = x
          /\ Present(disk[id]) =>
                /\ Initial(disk[id].lines)
                /\ \A w \in writes : Writes(w, id) => w.next <= Len(disk[id].lines) + 1
          /\ Present(memory[id]) => Initial(memory[id].messages)
          /\ \A r \in Readers : reader[r].pc = "insert" /\ reader[r].id = id =>
                Initial(reader[r].found)

FirstsInv == \A id \in Ids : FirstInv(id)

Rising(m) ==
    /\ \A i \in 1..Len(m) : m[i] \in 1..(MaxPuts + 1)
    /\ \A i, j \in 1..Len(m) : i < j => m[i] < m[j]

\* Whole, if nothing went wrong; else thinned at most.
Fit(id, m) == IF faults = 0 THEN m \in Versions(id)
              ELSE \E v \in Versions(id) : Thinned(m, v)

\* What may be held for id, or answered.
Holds(id, m, clean) ==
    /\ m \in Seq(Lines)
    /\ Extending(id) => Rising(m)
    /\ clean => Fit(id, m)

Clean(id) == id \notin displaced \cup spoiled

HeldFit ==
    /\ \A id \in Ids : Present(memory[id]) => Holds(id, memory[id].messages, Clean(id))
    /\ \A r \in Readers : reader[r].pc = "insert" =>
          Holds(reader[r].id, reader[r].found, ~Overtaken(r) /\ Clean(reader[r].id))

AnswerFits ==
    IF answer.messages = None THEN ~answer.clean
    ELSE answer.id \in Ids /\ Holds(answer.id, answer.messages, answer.clean)

HistoryInv ==
    /\ LatestInv
    /\ PutsAreOwed
    /\ WritersAreRecent
    /\ FilesInv
    /\ FirstsInv
    /\ HeldFit
    /\ AnswerFits

-----------------------------------------------------------------------------
(* The operators                                                           *)

LEMMA MessagesAre ==
    ASSUME NEW id \in Ids, NEW v \in 1..MaxPuts
    PROVE  /\ Messages(id, v) \in Seq(Lines)
           /\ Len(Messages(id, v)) \in Nat /\ Len(Messages(id, v)) >= 2
           /\ Messages(id, v) \in Versions(id)
           /\ v = 1 \/ handler[id].alone =>
                 /\ Messages(id, v) = [k \in 1..(v + 1) |-> k]
                 /\ Len(Messages(id, v)) = v + 1
                 /\ \A k \in 1..(v + 1) : Messages(id, v)[k] = k
                 /\ Initial(Messages(id, v)) /\ Rising(Messages(id, v))
<1> DEFINE turn == [k \in 1..(v + 1) |-> k]
<1>1. v \in 0..MaxPuts /\ v \in Nat /\ MaxPuts \in Nat /\ v + 1 <= MaxPuts + 1
  BY StoreAssumption
<1>2. Messages(id, v) \in Seq(Lines)
  BY <1>1, MessagesType
<1>3. turn \in Seq(1..(v + 1)) /\ Len(turn) = v + 1 /\ \A k \in 1..(v + 1) : turn[k] = k
  BY <1>1
<1>4. Messages(id, v) = IF v > 1 /\ ~handler[id].alone THEN <<Earlier>> \o turn ELSE turn
  BY DEF Messages
<1> HIDE DEF turn
<1>5. Len(<<Earlier>> \o turn) = v + 2
  BY <1>1, <1>3 DEF Earlier
<1>6. Len(Messages(id, v)) \in Nat /\ Len(Messages(id, v)) >= 2
  BY <1>1, <1>3, <1>4, <1>5
<1>7. Messages(id, v) \in Versions(id)
  BY DEF Versions
<1>8. ASSUME v = 1 \/ handler[id].alone
      PROVE  /\ Messages(id, v) = [k \in 1..(v + 1) |-> k]
             /\ Len(Messages(id, v)) = v + 1
             /\ \A k \in 1..(v + 1) : Messages(id, v)[k] = k
             /\ Initial(Messages(id, v)) /\ Rising(Messages(id, v))
  <2>1. Messages(id, v) = turn
    BY <1>1, <1>4, <1>8
  <2>2. Initial(turn) /\ Rising(turn)
    BY <1>1, <1>3 DEF Initial, Rising
  <2> QED BY <1>3, <2>1, <2>2 DEF turn
<1> QED BY <1>2, <1>6, <1>7, <1>8

\* Lines in their places, without a hole, are a whole version.
LEMMA FullIsWhole ==
    ASSUME NEW id \in Ids, handler[id].alone,
           NEW lines \in Seq(Lines \cup {Hole}), InPlace(lines),
           \A k \in 1..Len(lines) : lines[k] # Hole, Len(lines) >= 2
    PROVE  lines \in Versions(id)
<1> DEFINE v == Len(lines) - 1
<1>1. v \in 1..MaxPuts /\ v + 1 = Len(lines)
  BY StoreAssumption DEF InPlace
<1>2. \A k \in 1..Len(lines) : lines[k] = k
  BY DEF InPlace
<1>3. lines = [k \in 1..Len(lines) |-> k]
  <2>1. lines = [k \in 1..Len(lines) |-> lines[k]]
    OBVIOUS
  <2> QED BY <1>2, <2>1
<1> HIDE DEF v
<1>4. lines = Messages(id, v)
  BY <1>1, <1>3, MessagesAre
<1> QED BY <1>1, <1>4 DEF Versions

\* The beginning of a version, and what rises, is that version thinned.
LEMMA BeginsIsThinned ==
    ASSUME NEW m \in Seq(Lines), NEW v \in Seq(Lines), Begins(m, v)
    PROVE  Thinned(m, v)
<1> DEFINE at == [k \in 1..Len(m) |-> k]
<1>1. /\ DOMAIN m = 1..Len(m) /\ DOMAIN v = 1..Len(v)
      /\ Len(m) \in Nat /\ Len(v) \in Nat /\ Len(m) <= Len(v)
  BY DEF Begins
<1>2. at \in [DOMAIN m -> DOMAIN v]
  BY <1>1
<1>3. \A i, j \in DOMAIN m : m[i] = v[at[i]] /\ (i < j => at[i] < at[j])
  BY <1>1 DEF Begins
<1> HIDE DEF at
<1> QED BY <1>2, <1>3 DEF Thinned

LEMMA VersionIsThinned ==
    ASSUME NEW id \in Ids, NEW m \in Versions(id)
    PROVE  m \in Seq(Lines) /\ Thinned(m, m) /\ Fit(id, m)
<1>1. m \in Seq(Lines)
  BY MessagesAre DEF Versions
<1>2. Thinned(m, m)
  <2>1. Begins(m, m)
    BY <1>1 DEF Begins
  <2> QED BY <1>1, <2>1, BeginsIsThinned
<1> QED BY <1>1, <1>2 DEF Fit

LEMMA RisingIsThinned ==
    ASSUME NEW id \in Ids, handler[id].alone, NEW m \in Seq(Lines), Rising(m)
    PROVE  \E v \in Versions(id) : Thinned(m, v)
<1> DEFINE v == Messages(id, MaxPuts)
<1>1. MaxPuts \in 1..MaxPuts
  BY StoreAssumption
<1>2. /\ v \in Versions(id) /\ Len(v) = MaxPuts + 1 /\ v \in Seq(Lines)
      /\ \A k \in 1..(MaxPuts + 1) : v[k] = k
  BY <1>1, MessagesAre
<1> HIDE DEF v
<1>3. /\ DOMAIN m = 1..Len(m) /\ DOMAIN v = 1..(MaxPuts + 1)
      /\ m \in [DOMAIN m -> DOMAIN v]
  BY <1>2 DEF Rising
<1>4. \A i, j \in DOMAIN m : m[i] = v[m[i]] /\ (i < j => m[i] < m[j])
  BY <1>2, <1>3 DEF Rising
<1>5. Thinned(m, v)
  BY <1>3, <1>4 DEF Thinned
<1> QED BY <1>2, <1>5

LEMMA InitialIsRising ==
    ASSUME NEW m \in Seq(Lines \cup {Hole}), Initial(m)
    PROVE  Rising(m) /\ InPlace(m) /\ \A k \in 1..Len(m) : m[k] # Hole
BY StoreAssumption DEF Initial, Rising, InPlace, Hole

\* From one of the good positions to the next, more are below.
LEMMA BelowGrows ==
    ASSUME NEW n \in Nat, NEW good, \A i \in good : i \in 1..n,
           NEW a \in good, NEW b \in good,
           Cardinality(Below(good, a)) < Cardinality(Below(good, b))
    PROVE  a < b
<1>1. IsFiniteSet(good)
  <2>1. IsFiniteSet(1..n)
    BY FS_Interval
  <2> QED BY <2>1, FS_Subset
<1>2. IsFiniteSet(Below(good, a)) /\ IsFiniteSet(Below(good, b))
  BY <1>1, FS_Subset DEF Below
<1>3. CASE b <= a
  <2>1. Below(good, b) \subseteq Below(good, a)
    BY <1>3 DEF Below
  <2>2. /\ Cardinality(Below(good, b)) <= Cardinality(Below(good, a))
        /\ Cardinality(Below(good, b)) \in Nat /\ Cardinality(Below(good, a)) \in Nat
    BY <1>2, <2>1, FS_Subset, FS_CardinalityType
  <2> QED BY <2>2
<1> QED BY <1>3

\* What is read from lines in their places is in order.
LEMMA ParsedRises ==
    ASSUME NEW lines \in Seq(Lines \cup {Hole}), InPlace(lines)
    PROVE  Parsed(lines) \in Seq(Lines) /\ Rising(Parsed(lines))
<1> DEFINE Whole(k) == lines[k] # Hole /\ (k = 1 \/ lines[k - 1] # Hole)
           good == {k \in DOMAIN lines : Whole(k)}
           Nth(j) == CHOOSE k \in good : Cardinality(Below(good, k)) = j
           n == Cardinality(good)
<1>1. (\A k \in good : k \in 1..Len(lines)) /\ Len(lines) \in Nat
  OBVIOUS
<1>2. \A k \in good : lines[k] = k /\ k \in 1..(MaxPuts + 1)
  BY StoreAssumption DEF InPlace
<1>3. n \in Nat
  <2>1. IsFiniteSet(1..Len(lines))
    BY <1>1, FS_Interval
  <2> QED BY <1>1, <2>1, FS_Subset, FS_CardinalityType
<1>4. Parsed(lines) = [j \in 1..n |-> lines[Nth(j)]]
  BY DEF Parsed, Below
<1> HIDE DEF good
<1>5. \A j \in 1..n : Nth(j) \in good /\ Cardinality(Below(good, Nth(j))) = j
  BY <1>1, NthSmallest
<1> HIDE DEF Nth
<1>6. ASSUME NEW i \in 1..n, NEW j \in 1..n, i < j PROVE Nth(i) < Nth(j)
  BY <1>1, <1>5, <1>6, BelowGrows
<1>7. Parsed(lines) \in Seq(Lines)
  BY ParsedType
<1> HIDE DEF n
<1>8. Len(Parsed(lines)) = n /\ \A j \in 1..n : Parsed(lines)[j] = Nth(j)
  BY <1>2, <1>3, <1>4, <1>5, <1>7
<1> QED BY <1>2, <1>3, <1>5, <1>6, <1>7, <1>8 DEF Rising

\* Lines without a hole are read as they are.
LEMMA ParsedWhole ==
    ASSUME NEW lines \in Seq(Lines \cup {Hole}),
           \A k \in 1..Len(lines) : lines[k] # Hole
    PROVE  Parsed(lines) = lines
<1> DEFINE Whole(k) == lines[k] # Hole /\ (k = 1 \/ lines[k - 1] # Hole)
           good == {k \in DOMAIN lines : Whole(k)}
           n == Len(lines)
<1>1. n \in Nat /\ good = 1..n
  <2>1. \A k \in 1..n : k = 1 \/ k - 1 \in 1..n
    OBVIOUS
  <2> QED BY <2>1
<1>2. Cardinality(good) = n
  <2>1. Cardinality(1..n) = n
    BY <1>1, FS_Interval
  <2> HIDE DEF good
  <2> QED BY <1>1, <2>1
<1>3. \A k \in 1..n : Cardinality(Below(good, k)) = k
  <2>1. \A k \in 1..n : Below(good, k) = 1..k
    BY <1>1 DEF Below
  <2> QED BY <2>1, FS_Interval
<1>4. Parsed(lines) = [j \in 1..Cardinality(good) |->
          lines[CHOOSE k \in good : Cardinality(Below(good, k)) = j]]
  BY DEF Parsed, Below
<1> HIDE DEF good
<1>5. \A j \in 1..n : (CHOOSE k \in good : Cardinality(Below(good, k)) = j) = j
  BY <1>1, <1>3
<1>6. Parsed(lines) = [j \in 1..n |-> lines[j]]
  BY <1>2, <1>4, <1>5
<1> QED BY <1>6

-----------------------------------------------------------------------------
(* The steps                                                               *)

\* What never goes back.
LEMMA NothingGoesBack ==
    ASSUME TypeOK, Next
    PROVE  /\ spoiled \subseteq spoiled'
           /\ faults \in Nat /\ (faults' = 0 => faults = 0)
           /\ \A id \in Ids : /\ handler'[id].alone = handler[id].alone
                              /\ Extending(id)' => Extending(id)
                              /\ Versions(id)' = Versions(id)
                              /\ \A v : Messages(id, v)' = Messages(id, v)
<1>1. faults \in Nat
  BY StoreAssumption DEF TypeOK
<1>2. spoiled \subseteq spoiled' /\ (faults' = 0 => faults = 0)
  <2>1. ASSUME NEW i \in Ids, PutInsert(i) \/ PutSpawn(i)
        PROVE  spoiled \subseteq spoiled' /\ faults' = faults
    BY <2>1 DEF PutInsert, PutSpawn
  <2>2. ASSUME NEW w \in writes, WriteOpen(w) \/ WriteLine(w)
        PROVE  spoiled \subseteq spoiled' /\ faults' = faults
    BY <2>2 DEF WriteOpen, WriteLine, taken
  <2>3. ASSUME NEW w \in writes, WriteFails(w)
        PROVE  spoiled' = spoiled /\ faults' # 0
    BY <1>1, <2>3 DEF WriteFails, history, taken
  <2>4. CASE Crash
    BY <1>1, <2>4 DEF Crash
  <2>5. CASE UNCHANGED <<spoiled, faults>>
    BY <2>5
  <2> QED BY <2>1, <2>2, <2>3, <2>4, <2>5
        DEF Next, PutStep, DiskStep, RemoveFile, GetStep, GetEvict, GetStat, GetRead,
            GetInsert, GetLookup, SweepStep, SweepCollect, SweepOpenDir, SweepDone,
            SweepEvict, SweepStat, SweepUnlink, Tick, history, taken
<1>3. ASSUME NEW id \in Ids
      PROVE  /\ handler'[id].alone = handler[id].alone
             /\ Extending(id)' => Extending(id)
             /\ \A v : Messages(id, v)' = Messages(id, v)
  BY PutsGrow DEF Extending
<1>4. \A id \in Ids : Versions(id)' = Versions(id)
  BY <1>3 DEF Versions
<1> QED BY <1>1, <1>2, <1>3, <1>4

\* A settled id has no writers left: they would be older than they may be.
LEMMA SettledIsQuiet ==
    ASSUME HistoryInv, NEW id \in Ids, Settled(id)
    PROVE  \A w \in writes : w.id # id
<1> SUFFICES ASSUME NEW w \in writes, w.id = id PROVE FALSE
  OBVIOUS
<1>1. w.ticks \in 0..MaxWriteTicks /\ putAge[id] \in 0..(TTL + 1)
  BY DEF HistoryInv, LatestInv, TypeOK, WriteType
<1>2. owed[id] > 0 /\ putAge[id] <= w.ticks
  BY DEF HistoryInv, WritersAreRecent, WriterInv
<1> QED BY <1>1, <1>2, StoreAssumption DEF Settled

LEMMA PutsStayOwed ==
    ASSUME HistoryInv, Next
    PROVE  PutsAreOwed'
<1> SUFFICES ASSUME NEW id \in Ids, handler'[id].pc = "inserted"
             PROVE  owed'[id] = handler'[id].puts /\ owed'[id] > 0 /\ putAge'[id] = 0
  BY DEF PutsAreOwed
<1>1. /\ handler \in [Ids -> HandlerType] /\ handler[id].puts \in 0..MaxPuts
      /\ owed \in [Ids -> 0..MaxPuts] /\ putAge \in [Ids -> 0..(TTL + 1)]
      /\ handler[id] \in HandlerType
  BY DEF HistoryInv, LatestInv, TypeOK, HandlerType
<1>2. CASE PutInsert(id)
  <2>1. /\ owed'[id] = handler[id].puts + 1 /\ putAge'[id] = 0
    BY <1>1, <1>2 DEF PutInsert
  <2>2. handler'[id].puts = handler[id].puts + 1
    BY <1>2, PutsGrow DEF HistoryInv, LatestInv
  <2> QED BY <1>1, <2>1, <2>2, StoreAssumption
<1>3. CASE Tick
  BY <1>3 DEF Tick
<1>4. CASE Crash
  <2>1. handler'[id] = IF handler[id].puts > 0 THEN [handler[id] EXCEPT !.pc = "gone"]
                       ELSE handler[id]
    BY <1>4 DEF Crash
  <2>2. handler'[id] = handler[id] /\ ~ (handler[id].puts > 0)
    BY <1>1, <2>1 DEF HandlerType
  <2>3. owed[id] = handler[id].puts /\ owed[id] > 0
    BY <2>2 DEF HistoryInv, PutsAreOwed
  <2> QED BY <2>2, <2>3
<1>5. CASE Owes(id) /\ ~PutInsert(id) /\ ~Tick /\ ~Crash
  <2>1. handler[id].pc = "inserted"
    <3>1. ASSUME NEW i \in Ids, PutInsert(i), i # id PROVE handler'[id] = handler[id]
      BY <1>1, <3>1 DEF PutInsert
    <3>2. ASSUME NEW i \in Ids, PutSpawn(i)
          PROVE  handler'[id].pc = IF i = id THEN "running" ELSE handler[id].pc
      <4>1. handler' = [handler EXCEPT ![i] = [handler[i] EXCEPT !.pc = "running"]]
        BY <1>1, <3>2 DEF PutSpawn
      <4> QED BY <1>1, <4>1 DEF HandlerType
    <3>3. CASE handler' = handler
      BY <3>3
    <3> QED BY <1>5, <3>1, <3>2, <3>3
          DEF Next, PutStep, DiskStep, WriteOpen, WriteLine, WriteFails, history,
              RemoveFile, GetStep, GetEvict, GetStat, GetRead, GetInsert, GetLookup,
              SweepStep, SweepCollect, SweepOpenDir, SweepDone, SweepEvict, SweepStat,
              SweepUnlink
  <2> QED BY <1>5, <2>1 DEF Owes, HistoryInv, PutsAreOwed
<1> QED BY <1>2, <1>3, <1>4, <1>5, EntrySteps DEF HistoryInv

\* What is still to be asked of the writers after a step: each was one before, at
\* most one line further, or detached, or has just been spawned.
LEMMA WritersStayRecent ==
    ASSUME HistoryInv, Next
    PROVE  WritersAreRecent'
<1> SUFFICES ASSUME NEW w \in writes' PROVE WriterInv(w)'
  BY DEF WritersAreRecent
<1> DEFINE Like(u) == /\ u \in writes
                      /\ w.id = u.id /\ w.put = u.put /\ w.messages = u.messages
                      /\ w.next = 0 => w.attached = u.attached /\ u.next = 0
<1>0. /\ writes \in SUBSET WriteType /\ TypeOK
      /\ owed \in [Ids -> 0..MaxPuts] /\ putAge \in [Ids -> 0..(TTL + 1)]
      /\ \A u \in writes : u.id \in Ids
  BY DEF HistoryInv, LatestInv, TypeOK, WriteType
\* What does not depend on the clock.
<1>1. ASSUME NEW u, Like(u)
      PROVE  /\ w.put \in 1..MaxPuts
             /\ w.id \notin spoiled' => w.messages = Messages(w.id, w.put)'
             /\ Extending(w.id)' => Initial(w.messages)
             /\ w.next = 0 => w.attached
             /\ owed[w.id] > 0 /\ putAge[w.id] <= u.ticks
  <2>1. WriterInv(u) /\ u.id \in Ids
    BY <1>0, <1>1 DEF HistoryInv, WritersAreRecent
  <2> QED BY <1>0, <1>1, <2>1, NothingGoesBack DEF WriterInv
<1>2. ASSUME NEW u, Like(u), w.ticks = u.ticks, UNCHANGED <<owed, putAge>>
      PROVE  WriterInv(w)'
  <2>1. Initial(w.messages)' = Initial(w.messages)
    BY DEF Initial
  <2> QED BY <1>1, <1>2, <2>1 DEF WriterInv
<1>3. ASSUME NEW id \in Ids, PutInsert(id) PROVE WriterInv(w)'
  <2>1. w \in writes /\ w \in WriteType /\ Like(w)
    BY <1>0, <1>3 DEF PutInsert
  <2>2. w.id # id => owed'[w.id] = owed[w.id] /\ putAge'[w.id] = putAge[w.id]
    BY <1>3 DEF PutInsert, HistoryInv, LatestInv, TypeOK
  <2>3. w.id = id => owed'[w.id] > 0 /\ putAge'[w.id] = 0
    <3>1. handler[id].puts \in 0..MaxPuts
      BY DEF HistoryInv, LatestInv, TypeOK, HandlerType
    <3> QED BY <1>0, <1>3, <3>1, StoreAssumption DEF PutInsert
  <2>4. w.ticks \in Nat /\ w.ticks >= 0
    BY <2>1, StoreAssumption DEF WriteType
  <2>5. owed'[w.id] > 0 /\ putAge'[w.id] <= w.ticks
    BY <1>1, <2>1, <2>2, <2>3, <2>4
  <2>6. Initial(w.messages)' = Initial(w.messages)
    BY DEF Initial
  <2> HIDE DEF Like
  <2> QED BY <1>1, <2>1, <2>5, <2>6 DEF WriterInv
<1>4. ASSUME NEW id \in Ids, PutSpawn(id) PROVE WriterInv(w)'
  <2> DEFINE w0 == [id |-> id, put |-> handler[id].puts,
                    messages |-> memory[id].messages,
                    next |-> 0, attached |-> TRUE, ticks |-> 0]
  <2>1. owed[id] = handler[id].puts /\ owed[id] > 0 /\ putAge[id] = 0
    BY <1>4 DEF PutSpawn, HistoryInv, PutsAreOwed
  <2>2. UNCHANGED <<owed, putAge>>
    BY <1>4 DEF PutSpawn
  <2>3. w \in writes \/ (w = w0 /\ Present(memory[id]))
    BY <1>4 DEF PutSpawn
  <2>4. CASE w = w0 /\ Present(memory[id])
    <3>1. /\ w.id = id /\ w.put = handler[id].puts /\ w.messages = memory[id].messages
          /\ w.next = 0 /\ w.attached = TRUE /\ w.ticks = 0
      BY <2>4
    <3>2. w.put \in 1..MaxPuts
      BY <1>0, <2>1, <3>1, StoreAssumption
    <3>3. ASSUME id \notin spoiled' PROVE w.messages = Messages(id, w.put)'
      <4>1. id \notin displaced
        BY <1>4, <3>3 DEF PutSpawn
      <4>2. putAge[id] <= TTL
        BY <2>1, StoreAssumption
      <4>3. memory[id] = [messages |-> Messages(id, owed[id]), age |-> putAge[id]]
        BY <2>1, <4>1, <4>2 DEF HistoryInv, LatestInv, MemoryHoldsLatest
      <4>4. memory[id].messages = Messages(id, w.put)
        BY <2>1, <3>1, <4>3
      <4>5. Messages(id, w.put)' = Messages(id, w.put)
        <5>1. handler'[id].alone = handler[id].alone
          BY <1>0, NothingGoesBack
        <5> QED BY <3>1, <5>1, <1>4 DEF Messages, PutSpawn
      <4> QED BY <3>1, <4>4, <4>5
    <3>4. ASSUME Extending(id)' PROVE Initial(w.messages)'
      <4>1. Once(id)
        <5>1. Extending(id)
          BY <1>0, <3>4, NothingGoesBack
        <5> QED BY <1>4, <5>1 DEF Once, PutSpawn
      <4>2. Initial(memory[id].messages)
        BY <2>4, <4>1 DEF HistoryInv, FirstsInv, FirstInv
      <4> QED BY <1>4, <3>1, <4>2 DEF Initial, PutSpawn
    <3>5. w' = w /\ owed'[w.id] > 0 /\ putAge'[w.id] <= w.ticks
      BY <2>1, <2>2, <3>1
    <3> HIDE DEF w0
    <3> QED BY <3>1, <3>2, <3>3, <3>4, <3>5 DEF WriterInv
  <2> QED BY <1>2, <2>2, <2>3, <2>4
<1>5. ASSUME NEW u \in writes, WriteOpen(u) \/ WriteLine(u) PROVE WriterInv(w)'
  <2>1. UNCHANGED <<owed, putAge>>
    BY <1>5 DEF WriteOpen, WriteLine
  <2>2. w \in writes \/ w = [u EXCEPT !.next = 1] \/ (u.next > 0 /\ w = [u EXCEPT !.next = @ + 1])
    BY <1>5 DEF WriteOpen, WriteLine
  <2>3. u \in WriteType /\ u.next \in Nat
    BY <1>0 DEF WriteType
  <2>4. w \in writes \/ (Like(u) /\ w.ticks = u.ticks)
    BY <2>2, <2>3 DEF WriteType
  <2> QED BY <1>2, <2>1, <2>4
<1>6. ASSUME NEW id \in Ids, RemoveFile(id) \/ SweepUnlink(id) PROVE WriterInv(w)'
  <2>1. UNCHANGED <<owed, putAge>> /\ Unlink(id)
    BY <1>6 DEF RemoveFile, SweepUnlink, history
  <2>2. PICK u \in writes : w = IF u.id = id /\ u.next > 0
                                THEN [u EXCEPT !.attached = FALSE] ELSE u
    BY <2>1 DEF Unlink
  <2>3. Like(u) /\ w.ticks = u.ticks
    <3>1. CASE w = u
      BY <3>1
    <3>2. CASE u.next > 0 /\ w = [u EXCEPT !.attached = FALSE]
      <4>1. u \in WriteType
        BY <1>0
      <4>2. /\ w.id = u.id /\ w.put = u.put /\ w.messages = u.messages
            /\ w.next = u.next /\ w.ticks = u.ticks /\ u.next \in Nat
        BY <3>2, <4>1 DEF WriteType
      <4>3. u.next > 0
        BY <3>2
      <4>4. w.next # 0
        BY <4>2, <4>3
      <4> QED BY <4>2, <4>4
    <3> QED BY <2>2, <3>1, <3>2
  <2> QED BY <1>2, <2>1, <2>3
<1>7. CASE Tick
  <2>1. PICK u \in writes : w = [u EXCEPT !.ticks = @ + 1]
    BY <1>7 DEF Tick
  <2>2. Like(u) /\ w.ticks = u.ticks + 1 /\ u.id \in Ids /\ u.ticks \in Nat
    BY <1>0, <2>1 DEF WriteType
  <2>3. owed' = owed /\ putAge'[u.id] = Older(putAge[u.id], TTL)
    BY <1>7, <2>2 DEF Tick
  <2>4. putAge'[u.id] <= putAge[u.id] + 1 /\ putAge[u.id] \in Int /\ putAge'[u.id] \in Int
    BY <1>0, <2>2, <2>3 DEF Older
  <2>5. owed'[w.id] > 0 /\ putAge'[w.id] <= w.ticks
    BY <1>1, <2>2, <2>3, <2>4
  <2>6. Initial(w.messages)' = Initial(w.messages)
    BY DEF Initial
  <2> QED BY <1>1, <2>2, <2>5, <2>6 DEF WriterInv
<1>8. CASE writes' \subseteq writes /\ UNCHANGED <<owed, putAge>>
  BY <1>2, <1>8
<1>9. CASE Crash
  BY <1>9 DEF Crash
<1> QED BY <1>3, <1>4, <1>5, <1>6, <1>7, <1>8, <1>9
        DEF Next, PutStep, DiskStep, WriteFails, GetStep, GetEvict, GetStat,
            GetRead, GetInsert, GetLookup, SweepStep, SweepCollect, SweepOpenDir,
            SweepDone, SweepEvict, SweepStat, history


\* A file that a step leaves alone, with those who have it open.
LEMMA FileStays ==
    ASSUME HistoryInv, Next, NEW id \in Ids,
           disk'[id].lines = disk[id].lines,
           Present(disk'[id]) <=> Present(disk[id]),
           \A x \in writes' : Writes(x, id) =>
              \E w \in writes : Writes(w, id) /\ w.next = x.next /\ w.messages = x.messages,
           faults' = 0 => \A w \in writes : Writes(w, id) =>
              \E x \in writes' : Writes(x, id) /\ x.next = w.next,
           OneWrites(id) => \A w, x \in writes' : Writes(w, id) /\ Writes(x, id) => w = x
    PROVE  FileInv(id)'
<1> DEFINE L == disk[id].lines
<1>0. FileInv(id) /\ disk'[id].lines = L
  BY DEF HistoryInv, FilesInv
<1>1. /\ id \notin spoiled' => id \notin spoiled
      /\ faults' = 0 => faults = 0
      /\ handler'[id].alone = handler[id].alone
      /\ Extending(id)' => Extending(id)
      /\ Versions(id)' = Versions(id)
  BY NothingGoesBack DEF HistoryInv, LatestInv
<1>2. ASSUME NEW x \in writes', Writes(x, id) PROVE Present(disk'[id])
  BY <1>0, <1>2 DEF FileInv
<1>3. ASSUME Present(disk'[id]), Extending(id)' PROVE InPlace(L)'
  <2>1. InPlace(L)
    BY <1>0, <1>1, <1>3 DEF FileInv
  <2> QED BY <1>0, <2>1 DEF InPlace
<1>4. ASSUME Present(disk'[id]), id \notin spoiled', handler'[id].alone, faults' = 0
      PROVE  Fillable(id)'
  <2>1. Fillable(id)
    BY <1>0, <1>1, <1>4 DEF FileInv
  <2>2. ASSUME NEW w \in writes, Writes(w, id)
        PROVE  \E x \in writes' : Writes(x, id) /\ x.next = w.next
    BY <1>4, <2>2
  <2>3. ASSUME NEW k \in 1..Len(L), L[k] = Hole
        PROVE  k <= 2 /\ \E x \in writes' : Writes(x, id) /\ x.next <= k
    <3>1. PICK w \in writes : Writes(w, id) /\ w.next <= k /\ k <= 2
      BY <2>1, <2>3 DEF Fillable
    <3> QED BY <2>2, <3>1
  <2>4. ASSUME NEW y \in writes', Writes(y, id)
        PROVE  \E x \in writes' : Writes(x, id) /\ x.next <= Len(L) + 1
    <3>1. PICK v \in writes : Writes(v, id)
      BY <2>4
    <3>2. PICK w \in writes : Writes(w, id) /\ w.next <= Len(L) + 1
      BY <2>1, <3>1 DEF Fillable
    <3> QED BY <2>2, <3>2
  <2>5. ASSUME \A x \in writes' : ~Writes(x, id) PROVE Len(L) >= 2
    BY <2>1, <2>2, <2>5 DEF Fillable
  <2> QED BY <1>0, <2>3, <2>4, <2>5 DEF Fillable
<1>5. ASSUME Present(disk'[id]), id \notin spoiled', ~handler'[id].alone
      PROVE  Exact(id)'
  <2>1. Exact(id)
    BY <1>0, <1>1, <1>5 DEF FileInv
  <2>2. \A w, x \in writes' : Writes(w, id) /\ Writes(x, id) => w = x
    BY <2>1 DEF Exact
  <2>3. ASSUME NEW x \in writes', Writes(x, id)
        PROVE  Len(L) = x.next - 1 /\ Begins(L, x.messages)
    BY <2>1, <2>3 DEF Exact
  <2>4. PICK v \in Versions(id) : Begins(L, v)
    BY <2>1 DEF Exact
  <2>5. ASSUME faults' = 0, \A x \in writes' : ~Writes(x, id) PROVE L \in Versions(id)
    BY <1>1, <2>1, <2>5 DEF Exact
  <2> HIDE DEF L
  <2>6. /\ \A w \in writes' : Writes(w, id) =>
              Len(L) = w.next - 1 /\ Begins(L, w.messages)
        /\ \E vv \in Versions(id)' : Begins(L, vv)
        /\ faults' = 0 /\ (\A w \in writes' : ~Writes(w, id)) => L \in Versions(id)'
    BY <1>1, <2>3, <2>4, <2>5
  <2> QED BY <1>0, <2>2, <2>6 DEF Exact, OneWrites, Begins
<1> QED BY <1>0, <1>2, <1>3, <1>4, <1>5 DEF FileInv, InPlace

LEMMA OpenKeepsFiles ==
    ASSUME HistoryInv, Next, NEW w \in writes, WriteOpen(w)
    PROVE  FilesInv'
<1> SUFFICES ASSUME NEW id \in Ids PROVE FileInv(id)'
  BY DEF FilesInv
<1> DEFINE u == [w EXCEPT !.next = 1]
<1>0. w \in WriteType /\ w.id \in Ids /\ FileInv(id) /\ WriterInv(w)
  BY DEF HistoryInv, LatestInv, TypeOK, FilesInv, WriteType, WritersAreRecent
<1>1. u.id = w.id /\ u.next = 1 /\ u.attached = w.attached /\ u.messages = w.messages
  BY <1>0 DEF WriteType
<1>2. w.next = 0 /\ w.attached /\ ~Writes(w, id)
  BY <1>0 DEF WriteOpen, WriterInv, Writes
<1>3. /\ writes' = (writes \ {w}) \cup (IF w.messages = <<>> THEN {} ELSE {u})
      /\ disk' = [disk EXCEPT ![w.id] = [lines |-> <<>>, age |-> 0]]
      /\ handler' = handler
  BY DEF WriteOpen
<1> HIDE DEF u
<1>4. CASE id # w.id
  <2>1. disk'[id] = disk[id]
    BY <1>3, <1>4 DEF HistoryInv, LatestInv, TypeOK
  <2>2. \A x \in writes \cup writes' : Writes(x, id) => x \in writes /\ x \in writes'
    BY <1>1, <1>2, <1>3, <1>4 DEF Writes
  <2>3. OneWrites(id) => \A y, x \in writes' : Writes(y, id) /\ Writes(x, id) => y = x
    BY <2>2 DEF OneWrites
  <2> QED BY <2>1, <2>2, <2>3, FileStays
<1>5. CASE id = w.id
  <2>1. disk'[id].lines = <<>> /\ Present(disk'[id])
    BY <1>0, <1>3, <1>5 DEF HistoryInv, LatestInv, TypeOK, Present
  <2>2. InPlace(<<>>)
    BY StoreAssumption DEF InPlace
  <2>3. u.next = 1 /\ Writes(u, id)
    BY <1>1, <1>2, <1>5 DEF Writes
  <2>4. ASSUME id \notin spoiled' PROVE u \in writes' /\ w.messages \in Versions(id)
    <3>1. id \notin spoiled
      BY <2>4, NothingGoesBack DEF HistoryInv, LatestInv
    <3>2. w.messages = Messages(id, w.put) /\ w.put \in 1..MaxPuts
      BY <1>0, <1>5, <3>1 DEF WriterInv
    <3>3. w.messages # <<>> /\ w.messages \in Versions(id)
      <4>1. Len(w.messages) >= 2 /\ w.messages \in Versions(id)
        BY <3>2, MessagesAre
      <4> QED BY <4>1
    <3> QED BY <1>3, <3>3
  <2>5. id \notin spoiled' => Fillable(id)'
    BY <2>1, <2>3, <2>4 DEF Fillable
  <2>6. ASSUME id \notin spoiled', ~handler'[id].alone PROVE Exact(id)'
    <3>1. Writing(w.id) = {}
      BY <1>3, <1>5, <2>6 DEF WriteOpen
    <3>2. \A x \in writes' : Writes(x, id) => x = u
      BY <1>3, <1>5, <3>1 DEF Writing, Writes
    <3>3. Versions(id)' = Versions(id)
      BY NothingGoesBack DEF HistoryInv, LatestInv
    <3>4. \A v \in Versions(id) : Len(v) \in Nat
      BY MessagesAre DEF Versions
    <3>5. Len(w.messages) \in Nat
      BY <1>0 DEF WriteType
    <3>6. \E v \in Versions(id)' : Begins(disk[id].lines, v)'
      BY <2>1, <2>4, <2>6, <3>3, <3>4 DEF Begins
    <3>7. u.messages = w.messages
      BY <1>1
    <3>8. \A x \in writes' : Writes(x, id) =>
             Len(disk'[id].lines) = x.next - 1 /\ Begins(disk'[id].lines, x.messages)
      BY <2>1, <2>3, <3>2, <3>5, <3>7 DEF Begins
    <3> QED BY <2>3, <2>4, <2>6, <3>2, <3>6, <3>8 DEF Exact, OneWrites, Begins
  <2> QED BY <2>1, <2>2, <2>5, <2>6 DEF FileInv, InPlace
<1> QED BY <1>4, <1>5

\* What one more line makes of a file.
LEMMA LineWrittenIs ==
    ASSUME NEW lines \in Seq(Lines \cup {Hole}), NEW n \in Nat, n >= 1,
           NEW line \in Lines, NEW L, L = Len(lines)
    PROVE  LET new == LineWritten(lines, n, line) IN
           /\ new \in Seq(Lines \cup {Hole})
           /\ Len(new) = IF n > L THEN n ELSE L
           /\ \A j \in 1..Len(new) :
                 new[j] = IF j = n THEN line ELSE IF j <= L THEN lines[j] ELSE Hole
<1> DEFINE N == IF n > L THEN n ELSE L
           new == LineWritten(lines, n, line)
<1>1. N \in Nat
  OBVIOUS
<1>2. new = [j \in 1..N |-> IF j = n THEN line ELSE IF j <= L THEN lines[j] ELSE Hole]
  BY DEF LineWritten
<1>3. new \in Seq(Lines \cup {Hole})
  BY LineWrittenType
<1> HIDE DEF N, new
<1>4. Len(new) = N
  BY <1>1, <1>2, <1>3
<1> QED BY <1>2, <1>3, <1>4 DEF N, new

LEMMA LineKeepsFiles ==
    ASSUME HistoryInv, Next, NEW w \in writes, WriteLine(w)
    PROVE  FilesInv'
<1> SUFFICES ASSUME NEW id \in Ids PROVE FileInv(id)'
  BY DEF FilesInv
<1> DEFINE u    == [w EXCEPT !.next = @ + 1]
           last == w.next >= Len(w.messages)
           n    == w.next
<1>0. w \in WriteType /\ w.id \in Ids /\ FileInv(id) /\ WriterInv(w)
  BY DEF HistoryInv, LatestInv, TypeOK, FilesInv, WriteType, WritersAreRecent
<1>1. /\ u.id = w.id /\ u.next = n + 1 /\ u.attached = w.attached
      /\ u.messages = w.messages
  BY <1>0 DEF WriteType
<1>2. /\ n \in Nat /\ n >= 1 /\ Len(w.messages) \in Nat /\ n <= Len(w.messages)
      /\ w.messages \in Seq(Lines)
  BY <1>0 DEF WriteLine, WriteType, HistoryInv, LatestInv, TypeOK
<1>3. /\ writes' = (writes \ {w}) \cup (IF last THEN {} ELSE {u})
      /\ faults' = faults /\ handler' = handler /\ spoiled' = spoiled
      /\ Versions(id)' = Versions(id)
      /\ Extending(id)' => Extending(id)
  BY NothingGoesBack DEF WriteLine, taken, HistoryInv, LatestInv
<1> HIDE DEF u, last
<1>5. CASE id # w.id \/ ~w.attached
  <2>1. disk'[id] = disk[id]
    BY <1>0, <1>5 DEF WriteLine, HistoryInv, LatestInv, TypeOK
  <2>2. \A x \in writes \cup writes' : Writes(x, id) => x \in writes /\ x \in writes'
    BY <1>1, <1>3, <1>5 DEF Writes
  <2>3. OneWrites(id) => \A y, x \in writes' : Writes(y, id) /\ Writes(x, id) => y = x
    BY <2>2 DEF OneWrites
  <2> QED BY <2>1, <2>2, <2>3, FileStays
<1>6. CASE id = w.id /\ w.attached
  <2> DEFINE lines == disk[id].lines
             L     == Len(lines)
             line  == w.messages[n]
             new   == LineWritten(lines, n, line)
             N     == Len(new)
  <2>1. Writes(w, id) /\ Present(disk[id])
    BY <1>0, <1>2, <1>6 DEF Writes, FileInv
  <2>2. lines \in Seq(Lines \cup {Hole}) /\ L \in Nat
    BY DEF HistoryInv, LatestInv, TypeOK
  <2>3. line \in Lines
    BY <1>2
  <2>4. Present(disk'[id]) /\ disk'[id].lines = new
    <3>1. disk' = [disk EXCEPT ![w.id] =
                      [lines |-> LineWritten(@.lines, w.next, w.messages[w.next]),
                       age |-> 0]]
      BY <1>6 DEF WriteLine
    <3>2. disk'[id] = [lines |-> new, age |-> 0]
      BY <1>6, <3>1 DEF HistoryInv, LatestInv, TypeOK
    <3> QED BY <3>2 DEF Present
  <2> HIDE DEF lines, line
  <2>5. /\ new \in Seq(Lines \cup {Hole})
        /\ N = IF n > L THEN n ELSE L
        /\ \A j \in 1..N : new[j] = IF j = n THEN line
                                    ELSE IF j <= L THEN lines[j] ELSE Hole
    <3>1. n \in Nat /\ n >= 1
      BY <1>2
    <3> HIDE DEF n, L
    <3>2. L = Len(lines)
      BY DEF L
    <3> QED BY <2>2, <2>3, <3>1, <3>2, LineWrittenIs
  <2> HIDE DEF new
  <2> USE DEF line
  <2>6. last \/ (u \in writes' /\ Writes(u, id))
    BY <1>1, <1>2, <1>3, <1>6 DEF Writes
  \* Where the puts extend one another.
  <2>7. ASSUME Extending(id) PROVE InPlace(new) /\ w.messages[n] = n /\ n <= MaxPuts + 1
    <3>1. Initial(w.messages) /\ InPlace(lines)
      BY <1>0, <1>6, <2>1, <2>7 DEF WriterInv, FileInv, lines
    <3>2. w.messages[n] = n /\ n <= MaxPuts + 1
      BY <1>2, <3>1, StoreAssumption DEF Initial
    <3> QED BY <1>2, <2>2, <2>5, <3>1, <3>2, StoreAssumption DEF InPlace
  <2>8. ASSUME id \notin spoiled, handler[id].alone, faults = 0
        PROVE  Fillable(id)'
    <3>1. Fillable(id) /\ Extending(id)
      BY <1>0, <2>1, <2>8 DEF FileInv, Extending
    <3>2. ASSUME NEW x \in writes, x.id = id
          PROVE  /\ Len(x.messages) \in Nat /\ 2 <= Len(x.messages)
                 /\ Len(x.messages) <= 3
                 /\ x.next \in Nat /\ x.next <= Len(x.messages)
      <4>1. x.put \in 1..MaxPuts /\ x.messages = Messages(id, x.put)
        BY <2>8, <3>2 DEF HistoryInv, WritersAreRecent, WriterInv
      <4>2. x.next \in Nat /\ x.next <= Len(x.messages)
        BY DEF HistoryInv, LatestInv, TypeOK, WriteType
      <4>3. Len(x.messages) = x.put + 1
        BY <2>8, <4>1, MessagesAre
      <4> QED BY <4>1, <4>2, <4>3, StoreAssumption
    <3>3. w.messages[n] = n /\ Len(w.messages) <= 3 /\ 2 <= Len(w.messages)
      BY <1>6, <2>7, <3>1, <3>2
    <3>4. ASSUME NEW x \in writes', Writes(x, id)
          PROVE  x.next \in Nat /\ x.next <= 3
      <4>1. CASE x \in writes
        BY <3>2, <3>4, <4>1 DEF Writes
      <4>2. CASE ~last /\ x = u
        <5>1. n < Len(w.messages)
          BY <1>2, <4>2 DEF last
        <5> QED BY <1>1, <1>2, <3>3, <4>2, <5>1
      <4> QED BY <1>3, <3>4, <4>1, <4>2
    <3>5. ASSUME NEW x \in writes, x # w PROVE x \in writes'
      BY <1>3, <3>5
    <3>6. ASSUME NEW k \in 1..N, new[k] = Hole
          PROVE  k <= 2 /\ \E x \in writes' : Writes(x, id) /\ x.next <= k
      <4>1. k # n /\ k \in Nat /\ k >= 1
        BY <1>2, <2>5, <3>3, <3>6 DEF Hole
      <4>2. CASE k <= L
        <5>1. lines[k] = Hole
          BY <2>5, <3>6, <4>1, <4>2
        <5>2. PICK x \in writes : k <= 2 /\ Writes(x, id) /\ x.next <= k
          BY <2>2, <3>1, <4>1, <4>2, <5>1 DEF Fillable, lines
        <5>3. CASE x = w
          <6>1. n < k /\ n < Len(w.messages)
            BY <1>2, <3>3, <4>1, <5>2, <5>3
          <6>2. u.next <= k /\ ~last
            BY <1>1, <1>2, <4>1, <6>1 DEF last
          <6> QED BY <2>6, <5>2, <6>2
        <5> QED BY <3>5, <5>2, <5>3
      <4>3. CASE k > L
        <5>1. n > L /\ k < n /\ n <= 3
          BY <1>2, <2>2, <2>5, <3>3, <3>6, <4>1, <4>3
        <5>2. PICK x \in writes : Writes(x, id) /\ x.next <= L + 1
          BY <2>1, <3>1 DEF Fillable, lines
        <5>3. x.next \in Nat /\ x.next <= k /\ x # w
          BY <1>2, <2>2, <3>2, <4>1, <4>3, <5>1, <5>2 DEF Writes
        <5>4. k <= 2
          BY <1>2, <4>1, <5>1
        <5> QED BY <3>5, <5>2, <5>3, <5>4
      <4> QED BY <2>2, <4>1, <4>2, <4>3
    <3>7. ASSUME NEW y \in writes', Writes(y, id)
          PROVE  \E x \in writes' : Writes(x, id) /\ x.next <= N + 1
      <4>1. CASE last
        <5>1. N >= 2 /\ N \in Nat
          BY <1>2, <2>2, <2>5, <3>3, <4>1 DEF last
        <5> QED BY <3>4, <3>7, <5>1
      <4>2. CASE ~last
        <5>1. u.next <= N + 1
          BY <1>1, <1>2, <2>2, <2>5
        <5> QED BY <2>6, <4>2, <5>1
      <4> QED BY <4>1, <4>2
    <3>8. ASSUME \A x \in writes' : ~Writes(x, id) PROVE N >= 2
      <4>1. last
        BY <2>6, <3>8
      <4> QED BY <1>2, <2>2, <2>5, <3>3, <4>1 DEF last
    <3> QED BY <2>4, <3>6, <3>7, <3>8 DEF Fillable
  \* Where they do not.
  <2>9. ASSUME id \notin spoiled, ~handler[id].alone
        PROVE  Exact(id)'
    <3>1. Exact(id)
      BY <1>0, <2>1, <2>9 DEF FileInv
    <3>2. /\ \A x \in writes : Writes(x, id) => x = w
          /\ L = n - 1 /\ Begins(lines, w.messages)
      BY <2>1, <3>1 DEF Exact, OneWrites, lines
    <3>3. w.messages \in Versions(id)
      <4>1. w.messages = Messages(id, w.put) /\ w.put \in 1..MaxPuts
        BY <1>0, <1>6, <2>9 DEF WriterInv
      <4> QED BY <4>1, MessagesAre
    <3>4. N = n /\ \A j \in 1..N : new[j] = w.messages[j]
      BY <1>2, <2>2, <2>5, <3>2 DEF Begins
    <3>5. Begins(new, w.messages)
      BY <1>2, <3>4 DEF Begins
    <3>6. \A x \in writes' : Writes(x, id) => x = u
      BY <1>3, <3>2
    <3>7. \A x \in writes' : Writes(x, id) => N = x.next - 1 /\ Begins(new, x.messages)
      BY <1>1, <1>2, <3>4, <3>5, <3>6
    <3>8. ASSUME \A x \in writes' : ~Writes(x, id) PROVE new \in Versions(id)
      <4>1. N = Len(w.messages)
        BY <1>2, <2>6, <3>4, <3>8 DEF last
      <4>2. new = w.messages
        BY <1>2, <2>5, <3>4, <4>1
      <4> QED BY <3>3, <4>2
    <3>9. \E v \in Versions(id)' : Begins(new, v)
      BY <1>3, <3>3, <3>5
    <3>10. (\A x \in writes' : ~Writes(x, id)) => new \in Versions(id)'
      BY <1>3, <3>8
    <3> QED BY <2>4, <3>6, <3>7, <3>9, <3>10 DEF Exact, OneWrites, Begins
  <2>10. Extending(id)' => InPlace(new)
    BY <1>3, <2>7
  <2>11. id \notin spoiled' /\ handler'[id].alone /\ faults' = 0 => Fillable(id)'
    BY <1>3, <2>8
  <2>12. id \notin spoiled' /\ ~handler'[id].alone => Exact(id)'
    BY <1>3, <2>9
  <2> QED BY <2>4, <2>10, <2>11, <2>12 DEF FileInv, InPlace
<1> QED BY <1>5, <1>6

LEMMA FilesStayInv ==
    ASSUME HistoryInv, Next
    PROVE  FilesInv'
<1>0. /\ \A id \in Ids : FileInv(id)
      /\ writes \in SUBSET WriteType /\ faults \in Nat
      /\ disk \in [Ids -> [lines : Seq(Lines \cup {Hole}), age : -1..(TTL + 1)]]
  BY StoreAssumption DEF HistoryInv, LatestInv, TypeOK, FilesInv
\* Those who have a file open are those who had it.
<1>1. ASSUME UNCHANGED disk,
             \A id \in Ids : \A w \in writes' : Writes(w, id) => w \in writes,
             faults' = 0 => writes \subseteq writes'
      PROVE  FilesInv'
  <2> SUFFICES ASSUME NEW id \in Ids PROVE FileInv(id)'
    BY DEF FilesInv
  <2>1. OneWrites(id) => \A w, x \in writes' : Writes(w, id) /\ Writes(x, id) => w = x
    BY <1>1 DEF OneWrites
  <2> QED BY <1>1, <2>1, FileStays
<1>2. ASSUME NEW id \in Ids, PutSpawn(id) PROVE FilesInv'
  <2>1. \A w \in writes' : w.next > 0 => w \in writes
    BY <1>2 DEF PutSpawn
  <2>2. writes \subseteq writes' /\ disk' = disk
    BY <1>2 DEF PutSpawn
  <2> QED BY <1>1, <2>1, <2>2 DEF Writes
<1>3. ASSUME NEW w \in writes, WriteFails(w) PROVE FilesInv'
  <2>1. writes' \subseteq writes /\ disk' = disk /\ faults' # 0
    BY <1>0, <1>3 DEF WriteFails
  <2> QED BY <1>1, <2>1
<1>4. ASSUME NEW i \in Ids, RemoveFile(i) \/ SweepUnlink(i) PROVE FilesInv'
  <2>0. Unlink(i) /\ faults' = faults
    BY <1>4 DEF RemoveFile, SweepUnlink
  <2> DEFINE Cut(w) == IF w.id = i /\ w.next > 0 THEN [w EXCEPT !.attached = FALSE] ELSE w
  <2>1. writes' = {Cut(w) : w \in writes}
    BY <2>0 DEF Unlink
  <2>2. ASSUME NEW w \in writes PROVE Cut(w).id = w.id /\ ~Writes(Cut(w), i)
    <3>1. w \in WriteType
      BY <1>0
    <3>2. CASE w.id = i /\ w.next > 0
      <4>1. Cut(w) = [w EXCEPT !.attached = FALSE]
        BY <3>2
      <4> HIDE DEF Cut
      <4>2. Cut(w).id = w.id /\ Cut(w).attached = FALSE
        BY <3>1, <4>1 DEF WriteType
      <4> QED BY <4>2 DEF Writes
    <3>3. CASE ~(w.id = i /\ w.next > 0)
      BY <3>3 DEF Writes
    <3> QED BY <3>2, <3>3
  <2>3. ASSUME NEW w \in writes, w.id # i PROVE Cut(w) = w
    BY <2>3
  <2> HIDE DEF Cut
  <2> SUFFICES ASSUME NEW id \in Ids PROVE FileInv(id)'
    BY DEF FilesInv
  <2>4. CASE id = i
    <3>1. ~Present(disk'[id])
      BY <1>0, <2>0, <2>4 DEF Unlink, NoFile, Present
    <3>2. \A x \in writes' : ~Writes(x, id)
      BY <2>1, <2>2, <2>4
    <3> QED BY <3>1, <3>2 DEF FileInv
  <2>5. CASE id # i
    <3>1. disk'[id] = disk[id]
      BY <1>0, <2>0, <2>5 DEF Unlink
    <3>2. \A w \in writes : Writes(w, id) => w \in writes'
      BY <2>1, <2>3, <2>5 DEF Writes
    <3>3. \A x \in writes' : Writes(x, id) => x \in writes
      BY <2>1, <2>2, <2>3, <2>5 DEF Writes
    <3>4. OneWrites(id) => \A w, x \in writes' : Writes(w, id) /\ Writes(x, id) => w = x
      BY <3>3 DEF OneWrites
    <3> QED BY <3>1, <3>2, <3>3, <3>4, FileStays
  <2> QED BY <2>4, <2>5
<1>5. CASE Tick
  <2> DEFINE Aged(w) == [w EXCEPT !.ticks = @ + 1]
  <2>1. writes' = {Aged(w) : w \in writes} /\ faults' = faults
    BY <1>5 DEF Tick
  <2>2. ASSUME NEW w \in writes, NEW id \in Ids
        PROVE  /\ Writes(Aged(w), id) <=> Writes(w, id)
               /\ Aged(w).next = w.next /\ Aged(w).messages = w.messages
    <3>1. w \in WriteType
      BY <1>0
    <3> QED BY <3>1 DEF WriteType, Writes
  <2> HIDE DEF Aged
  <2>3. ASSUME NEW id \in Ids
        PROVE  disk'[id].lines = disk[id].lines /\ (Present(disk'[id]) <=> Present(disk[id]))
    <3>1. disk[id] \in [lines : Seq(Lines \cup {Hole}), age : -1..(TTL + 1)]
      BY <1>0
    <3>2. disk'[id] = [disk[id] EXCEPT !.age = Older(@, TTL)]
      BY <1>5 DEF Tick
    <3>3. disk'[id].lines = disk[id].lines /\ disk'[id].age = Older(disk[id].age, TTL)
      BY <3>1, <3>2
    <3>4. disk[id].age \in Int
      BY <3>1
    <3> QED BY <3>3, <3>4 DEF Older, Present
  <2>4. ASSUME NEW id \in Ids, OneWrites(id)
        PROVE  \A w, x \in writes' : Writes(w, id) /\ Writes(x, id) => w = x
    BY <2>1, <2>2, <2>4 DEF OneWrites
  <2>5. ASSUME NEW id \in Ids PROVE FileInv(id)'
    BY <2>1, <2>2, <2>3, <2>4, FileStays
  <2> QED BY <2>5 DEF FilesInv
<1>6. CASE Crash
  <2>1. writes' = {} /\ disk' = disk /\ faults' # 0
    BY <1>0, <1>6 DEF Crash
  <2> QED BY <1>1, <2>1
<1>7. CASE UNCHANGED <<disk, writes>>
  BY <1>1, <1>7
<1> QED BY <1>2, <1>3, <1>4, <1>5, <1>6, <1>7, OpenKeepsFiles, LineKeepsFiles
        DEF Next, PutStep, PutInsert, DiskStep, GetStep, GetEvict, GetStat, GetRead,
            GetInsert, GetLookup, SweepStep, SweepCollect, SweepOpenDir, SweepDone,
            SweepEvict, SweepStat

\* Before the last write of an id is spawned it was so before every step.
LEMMA OnceWasOnce ==
    ASSUME HistoryInv, Next, NEW id \in Ids
    PROVE  /\ Once(id)' => Once(id)
           /\ Unwritten(id)' => Unwritten(id)
           /\ Once(id)' /\ PutSpawn(id) => Unwritten(id)
           /\ Unwritten(id)' => ~PutSpawn(id)
<1>0. /\ handler \in [Ids -> HandlerType] /\ handler[id] \in HandlerType
      /\ handler[id].puts \in 0..MaxPuts /\ handler'[id].puts \in 0..MaxPuts
      /\ handler'[id].puts >= handler[id].puts
      /\ Extending(id)' => Extending(id)
  BY PutsGrow, NothingGoesBack DEF HistoryInv, LatestInv, TypeOK, HandlerType
<1>1. CASE PutInsert(id)
  <2>1. handler[id].pc = "running"
    BY <1>1 DEF PutInsert
  <2>2. handler'[id].puts = handler[id].puts + 1
    BY <1>1, PutsGrow DEF HistoryInv, LatestInv
  <2>3. handler'[id].puts <= 2
    BY <1>0, StoreAssumption
  <2> QED BY <1>0, <1>1, <2>1, <2>2, <2>3 DEF Once, Unwritten, PutSpawn
<1>2. CASE PutSpawn(id)
  <2>1. handler' = [handler EXCEPT ![id] = [handler[id] EXCEPT !.pc = "running"]]
    BY <1>0, <1>2 DEF PutSpawn
  <2>2. handler'[id].pc = "running" /\ handler[id].pc = "inserted"
    BY <1>0, <1>2, <2>1 DEF HandlerType, PutSpawn
  <2>3. handler[id].puts > 0 /\ handler'[id].puts = handler[id].puts
    BY <1>0, <1>2, <2>1, <2>2 DEF HistoryInv, PutsAreOwed, HandlerType
  <2> QED BY <1>0, <2>2, <2>3 DEF Once, Unwritten
<1>3. CASE Crash
  <2>1. handler'[id] = IF handler[id].puts > 0 THEN [handler[id] EXCEPT !.pc = "gone"]
                       ELSE handler[id]
    BY <1>3 DEF Crash
  <2>2. CASE handler[id].puts > 0
    <3>1. handler'[id].pc = "gone" /\ handler'[id].puts > 0
      BY <1>0, <2>1, <2>2 DEF HandlerType
    <3>2. ~(handler'[id].pc = "inserted") /\ ~(handler'[id].puts = 0)
      BY <3>1
    <3> QED BY <3>1, <3>2 DEF Once, Unwritten
  <2>3. CASE ~(handler[id].puts > 0)
    <3>1. handler'[id] = handler[id] /\ ~PutSpawn(id)
      BY <1>0, <2>1, <2>3 DEF HistoryInv, PutsAreOwed, PutSpawn
    <3> QED BY <1>0, <3>1 DEF Once, Unwritten
  <2> QED BY <2>2, <2>3
<1>4. CASE handler'[id] = handler[id] /\ ~PutSpawn(id)
  BY <1>0, <1>4 DEF Once, Unwritten
<1>5. ASSUME NEW i \in Ids, i # id, PutInsert(i) \/ PutSpawn(i)
      PROVE  handler'[id] = handler[id]
  <2>1. CASE PutInsert(i)
    BY <1>0, <1>5, <2>1 DEF PutInsert
  <2>2. CASE PutSpawn(i)
    BY <1>0, <1>5, <2>2 DEF PutSpawn
  <2> QED BY <1>5, <2>1, <2>2
<1> QED BY <1>1, <1>2, <1>3, <1>4, <1>5
        DEF Next, PutStep, DiskStep, WriteOpen, WriteLine, WriteFails, RemoveFile, history,
            GetStep, GetEvict, GetStat, GetRead, GetInsert, GetLookup, SweepStep,
            SweepCollect, SweepOpenDir, SweepDone, SweepEvict, SweepStat, SweepUnlink, Tick

Alone(id, tasks) == \A w, x \in tasks : w.id = id /\ x.id = id => w = x

\* No writer comes but by a put.
LEMMA WritersOfFirsts ==
    ASSUME HistoryInv, Next, NEW id \in Ids
    PROVE  /\ Unwritten(id)' => \A w \in writes' : w.id # id
           /\ Once(id)' => Alone(id, writes')
<1>0. /\ Unwritten(id) => \A w \in writes : w.id # id
      /\ Once(id) => Alone(id, writes)
      /\ \A w \in writes : w \in WriteType
  BY DEF HistoryInv, FirstsInv, FirstInv, Alone, LatestInv, TypeOK
<1> DEFINE Goal == /\ (\A w \in writes : w.id # id) => \A w \in writes' : w.id # id
                   /\ Alone(id, writes) => Alone(id, writes')
\* Each writer of id now was one before.
<1>1. ASSUME NEW w \in writes, NEW u, u.id = w.id, writes' \subseteq (writes \ {w}) \cup {u}
      PROVE  Goal
  BY <1>1 DEF Alone
<1>3. ASSUME NEW w \in writes, WriteOpen(w) PROVE Goal
  <2> DEFINE u == [w EXCEPT !.next = 1]
  <2>1. u.id = w.id
    BY <1>0, <1>3 DEF WriteType
  <2>2. writes' \subseteq (writes \ {w}) \cup {u}
    BY <1>3 DEF WriteOpen
  <2> HIDE DEF u
  <2> QED BY <1>1, <2>1, <2>2
<1>4. ASSUME NEW w \in writes, WriteLine(w) PROVE Goal
  <2> DEFINE u == [w EXCEPT !.next = @ + 1]
  <2>1. u.id = w.id
    BY <1>0, <1>4 DEF WriteType
  <2>2. writes' \subseteq (writes \ {w}) \cup {u}
    BY <1>4 DEF WriteLine
  <2> HIDE DEF u
  <2> QED BY <1>1, <2>1, <2>2
<1>5. ASSUME NEW i \in Ids, Unlink(i) PROVE Goal
  <2> DEFINE Cut(w) == IF w.id = i /\ w.next > 0 THEN [w EXCEPT !.attached = FALSE] ELSE w
  <2>1. writes' = {Cut(w) : w \in writes}
    BY <1>5 DEF Unlink
  <2>2. \A w \in writes : Cut(w).id = w.id
    BY <1>0 DEF WriteType
  <2> HIDE DEF Cut
  <2>3. ASSUME NEW x \in writes' PROVE \E w \in writes : x = Cut(w) /\ x.id = w.id
    BY <2>1, <2>2
  <2> QED BY <2>3 DEF Alone
<1>6. ASSUME Tick PROVE Goal
  <2> DEFINE Aged(w) == [w EXCEPT !.ticks = @ + 1]
  <2>1. writes' = {Aged(w) : w \in writes}
    BY <1>6 DEF Tick
  <2>2. \A w \in writes : Aged(w).id = w.id
    BY <1>0 DEF WriteType
  <2> HIDE DEF Aged
  <2>3. ASSUME NEW x \in writes' PROVE \E w \in writes : x = Aged(w) /\ x.id = w.id
    BY <2>1, <2>2
  <2> QED BY <2>3 DEF Alone
<1>7. ASSUME NEW i \in Ids, PutSpawn(i), i # id PROVE Goal
  <2> DEFINE w0 == [id |-> i, put |-> handler[i].puts, messages |-> memory[i].messages,
                    next |-> 0, attached |-> TRUE, ticks |-> 0]
  <2>1. w0.id = i /\ writes' \subseteq writes \cup {w0}
    BY <1>7 DEF PutSpawn
  <2> HIDE DEF w0
  <2> QED BY <1>7, <2>1 DEF Alone
<1>8. ASSUME PutSpawn(id)
      PROVE  /\ Unwritten(id)' => \A w \in writes' : w.id # id
             /\ Once(id)' => Alone(id, writes')
  <2> DEFINE w0 == [id |-> id, put |-> handler[id].puts, messages |-> memory[id].messages,
                    next |-> 0, attached |-> TRUE, ticks |-> 0]
  <2>1. writes' \subseteq writes \cup {w0}
    BY <1>8 DEF PutSpawn
  <2> HIDE DEF w0
  <2>2. Once(id)' => \A w \in writes : w.id # id
    BY <1>0, <1>8, OnceWasOnce
  <2> QED BY <1>8, <2>1, <2>2, OnceWasOnce DEF Alone
<1>9. ASSUME writes' \subseteq writes PROVE Goal
  BY <1>9 DEF Alone
<1>10. Goal \/ PutSpawn(id)
  BY <1>3, <1>4, <1>5, <1>6, <1>7, <1>9
     DEF Next, PutStep, PutInsert, DiskStep, WriteFails, RemoveFile, history,
         GetStep, GetEvict, GetStat, GetRead, GetInsert, GetLookup, SweepStep,
         SweepCollect, SweepOpenDir, SweepDone, SweepEvict, SweepStat, SweepUnlink, Crash
<1> QED BY <1>0, <1>8, <1>10, OnceWasOnce

LEMMA FilesOfFirsts ==
    ASSUME HistoryInv, Next, NEW id \in Ids
    PROVE  /\ Unwritten(id)' => ~Present(disk'[id])
           /\ Once(id)' /\ Present(disk'[id]) =>
                 /\ Initial(disk'[id].lines)
                 /\ \A w \in writes' : Writes(w, id) => w.next <= Len(disk'[id].lines) + 1
<1> DEFINE Goal == /\ Unwritten(id)' => ~Present(disk'[id])
                   /\ Once(id)' /\ Present(disk'[id]) =>
                         /\ Initial(disk'[id].lines)
                         /\ \A w \in writes' : Writes(w, id) =>
                               w.next <= Len(disk'[id].lines) + 1
<1>0. /\ writes \in SUBSET WriteType /\ \A w \in writes : w \in WriteType
      /\ disk \in [Ids -> [lines : Seq(Lines \cup {Hole}), age : -1..(TTL + 1)]]
      /\ Unwritten(id)' => Unwritten(id) /\ ~Present(disk[id]) /\ \A w \in writes : w.id # id
      /\ Once(id)' =>
            /\ Extending(id) /\ Alone(id, writes)
            /\ Present(disk[id]) =>
                  /\ Initial(disk[id].lines)
                  /\ \A w \in writes : Writes(w, id) => w.next <= Len(disk[id].lines) + 1
  <2>1. FirstInv(id)
    BY DEF HistoryInv, FirstsInv
  <2> QED BY <2>1, OnceWasOnce DEF HistoryInv, LatestInv, TypeOK, FirstInv, Alone, Once
<1>1. ASSUME disk'[id].lines = disk[id].lines, Present(disk'[id]) => Present(disk[id]),
             \A x \in writes' : Writes(x, id) =>
                \E w \in writes : Writes(w, id) /\ w.next = x.next
      PROVE  Goal
  BY <1>0, <1>1
<1>2. ASSUME NEW i \in Ids, PutSpawn(i) PROVE Goal
  <2>1. (\A w \in writes' : w.next > 0 => w \in writes) /\ disk' = disk
    BY <1>2 DEF PutSpawn
  <2> QED BY <1>1, <2>1 DEF Writes
<1>3. ASSUME NEW w \in writes, WriteOpen(w) PROVE Goal
  <2> DEFINE u == [w EXCEPT !.next = 1]
  <2>1. u.id = w.id /\ u.next = 1 /\ w.id \in Ids /\ ~Writes(w, id)
    BY <1>0, <1>3 DEF WriteType, WriteOpen, Writes
  <2>2. /\ writes' \subseteq (writes \ {w}) \cup {u}
        /\ disk' = [disk EXCEPT ![w.id] = [lines |-> <<>>, age |-> 0]]
    BY <1>3 DEF WriteOpen
  <2> HIDE DEF u
  <2>3. CASE w.id # id
    <3>1. disk'[id] = disk[id]
      BY <1>0, <2>2, <2>3
    <3>2. \A x \in writes' : Writes(x, id) => x \in writes
      BY <2>1, <2>2, <2>3 DEF Writes
    <3> QED BY <1>1, <3>1, <3>2
  <2>4. CASE w.id = id
    <3>1. disk'[id].lines = <<>>
      BY <1>0, <2>2, <2>4
    <3>2. ~Unwritten(id)'
      BY <1>0, <2>4
    <3>3. ASSUME Once(id)', NEW x \in writes', Writes(x, id) PROVE x.next = 1
      BY <1>0, <2>1, <2>2, <2>4, <3>3 DEF Alone, Writes
    <3>4. Initial(<<>>)
      BY StoreAssumption DEF Initial
    <3> QED BY <3>1, <3>2, <3>3, <3>4
  <2> QED BY <2>3, <2>4
<1>4. ASSUME NEW w \in writes, WriteLine(w) PROVE Goal
  <2> DEFINE u == [w EXCEPT !.next = @ + 1]
             n == w.next
  <2>1. /\ u.id = w.id /\ u.next = n + 1 /\ u.attached = w.attached /\ w.id \in Ids
        /\ n \in Nat /\ n >= 1 /\ Len(w.messages) \in Nat /\ n <= Len(w.messages)
        /\ w.messages \in Seq(Lines)
    BY <1>0, <1>4 DEF WriteType, WriteLine, HistoryInv, LatestInv, TypeOK
  <2>2. writes' \subseteq (writes \ {w}) \cup {u}
    BY <1>4 DEF WriteLine
  <2> HIDE DEF u
  <2>3. CASE w.id # id \/ ~w.attached
    <3>1. disk'[id] = disk[id]
      BY <1>0, <1>4, <2>1, <2>3 DEF WriteLine
    <3>2. \A x \in writes' : Writes(x, id) => x \in writes
      BY <2>1, <2>2, <2>3 DEF Writes
    <3> QED BY <1>1, <3>1, <3>2
  <2>4. CASE w.id = id /\ w.attached
    <3> SUFFICES ASSUME Once(id)'
                 PROVE  /\ Initial(disk'[id].lines)
                        /\ \A x \in writes' : Writes(x, id) =>
                              x.next <= Len(disk'[id].lines) + 1
      BY <1>0, <2>4
    <3> DEFINE lines == disk[id].lines
               L     == Len(lines)
               line  == w.messages[n]
               new   == LineWritten(lines, n, line)
    <3>1. Writes(w, id) /\ Present(disk[id])
      BY <2>1, <2>4 DEF Writes, HistoryInv, FilesInv, FileInv
    <3>2. lines \in Seq(Lines \cup {Hole}) /\ L \in Nat /\ Initial(lines) /\ n <= L + 1
      BY <1>0, <3>1
    <3>3. Initial(w.messages)
      BY <1>0, <2>4 DEF HistoryInv, WritersAreRecent, WriterInv
    <3>4. line \in Lines /\ line = n /\ n <= MaxPuts + 1
      BY <2>1, <3>3, StoreAssumption DEF Initial
    <3>5. disk'[id].lines = new
      <4>1. disk' = [disk EXCEPT ![w.id] =
                        [lines |-> LineWritten(@.lines, w.next, w.messages[w.next]),
                         age |-> 0]]
        BY <1>4, <2>4 DEF WriteLine
      <4>2. disk'[id] = [lines |-> new, age |-> 0]
        BY <1>0, <2>4, <4>1
      <4> QED BY <4>2
    <3> HIDE DEF lines, line
    <3>6. /\ Len(new) = IF n > L THEN n ELSE L
          /\ \A j \in 1..Len(new) : new[j] = IF j = n THEN line
                                             ELSE IF j <= L THEN lines[j] ELSE Hole
      <4>1. n \in Nat /\ n >= 1
        BY <2>1
      <4> HIDE DEF n, L
      <4>2. L = Len(lines)
        BY DEF L
      <4> QED BY <3>2, <3>4, <4>1, <4>2, LineWrittenIs
    <3> HIDE DEF new
    <3>7. Initial(new)
      <4>1. /\ n \in Nat /\ n >= 1 /\ n <= L + 1 /\ n <= MaxPuts + 1 /\ line = n
            /\ L \in Nat /\ L <= MaxPuts + 1 /\ \A k \in 1..L : lines[k] = k
        BY <2>1, <3>2, <3>4 DEF Initial
      <4> HIDE DEF n, L
      <4>2. Len(new) \in Nat /\ Len(new) <= MaxPuts + 1
        BY <3>6, <4>1
      <4>3. ASSUME NEW k \in 1..Len(new) PROVE new[k] = k
        <5>1. k = n \/ k \in 1..L
          BY <3>6, <4>1, <4>2
        <5> QED BY <3>6, <4>1, <5>1
      <4> QED BY <4>2, <4>3 DEF Initial
    <3>8. ASSUME NEW x \in writes', Writes(x, id) PROVE x.next <= Len(new) + 1
      <4>1. x = u
        BY <1>0, <2>2, <2>4, <3>8 DEF Alone, Writes
      <4> QED BY <2>1, <3>2, <3>6, <4>1
    <3> QED BY <3>5, <3>7, <3>8
  <2> QED BY <2>3, <2>4
<1>5. ASSUME NEW i \in Ids, Unlink(i) PROVE Goal
  <2> DEFINE Cut(w) == IF w.id = i /\ w.next > 0 THEN [w EXCEPT !.attached = FALSE] ELSE w
  <2>1. writes' = {Cut(w) : w \in writes}
    BY <1>5 DEF Unlink
  <2>2. CASE i = id
    <3>1. ~Present(disk'[id])
      BY <1>0, <1>5, <2>2 DEF Unlink, NoFile, Present
    <3> QED BY <3>1
  <2>3. CASE i # id
    <3>1. disk'[id] = disk[id]
      BY <1>0, <1>5, <2>3 DEF Unlink
    <3>2. \A w \in writes : Cut(w).id = w.id /\ (w.id = id => Cut(w) = w)
      BY <1>0, <2>3 DEF WriteType
    <3> HIDE DEF Cut
    <3>3. \A x \in writes' : Writes(x, id) => x \in writes
      BY <2>1, <3>2 DEF Writes
    <3> QED BY <1>1, <3>1, <3>3
  <2> QED BY <2>2, <2>3
<1>6. ASSUME Tick PROVE Goal
  <2> DEFINE Aged(w) == [w EXCEPT !.ticks = @ + 1]
  <2>1. writes' = {Aged(w) : w \in writes}
    BY <1>6 DEF Tick
  <2>2. \A w \in writes : (Writes(Aged(w), id) <=> Writes(w, id)) /\ Aged(w).next = w.next
    BY <1>0 DEF WriteType, Writes
  <2> HIDE DEF Aged
  <2>3. disk'[id].lines = disk[id].lines /\ (Present(disk'[id]) => Present(disk[id]))
    <3>1. disk[id] \in [lines : Seq(Lines \cup {Hole}), age : -1..(TTL + 1)]
      BY <1>0
    <3>2. disk'[id] = [disk[id] EXCEPT !.age = Older(@, TTL)]
      BY <1>6 DEF Tick
    <3>3. disk'[id].lines = disk[id].lines /\ disk'[id].age = Older(disk[id].age, TTL)
      BY <3>1, <3>2
    <3>4. disk[id].age \in Int
      BY <3>1
    <3> QED BY <3>3, <3>4 DEF Older, Present
  <2>4. \A x \in writes' : Writes(x, id) =>
           \E w \in writes : Writes(w, id) /\ w.next = x.next
    BY <2>1, <2>2
  <2> QED BY <1>1, <2>3, <2>4
<1>7. ASSUME writes' \subseteq writes, disk' = disk PROVE Goal
  BY <1>1, <1>7
<1>8. Goal
  BY <1>2, <1>3, <1>4, <1>5, <1>6, <1>7
     DEF Next, PutStep, PutInsert, DiskStep, WriteFails, RemoveFile, history,
         GetStep, GetEvict, GetStat, GetRead, GetInsert, GetLookup, SweepStep,
         SweepCollect, SweepOpenDir, SweepDone, SweepEvict, SweepStat, SweepUnlink, Crash
<1> QED BY <1>8

\* What a step does to what is held for an id and to what a get has found.
LEMMA EntryComes ==
    ASSUME TypeOK, Next, NEW id \in Ids, Present(memory'[id])
    PROVE  \/ Present(memory[id]) /\ memory'[id].messages = memory[id].messages
           \/ PutInsert(id) /\ memory'[id].messages = Messages(id, handler[id].puts + 1)
           \/ \E r \in Readers : /\ reader[r].id = id /\ GetInsert(r)
                                 /\ memory'[id].messages = reader[r].found
<1>0. memory \in [Ids -> EntryType] /\ \A r \in Readers : reader[r].id \in Ids
  BY DEF TypeOK, ReaderType
<1> DEFINE Same == Present(memory[id]) /\ memory'[id].messages = memory[id].messages
<1>1. ASSUME NEW i \in Ids, PutInsert(i)
      PROVE  Same \/ (i = id /\ memory'[id].messages = Messages(id, handler[id].puts + 1))
  BY <1>0, <1>1 DEF PutInsert
<1>2. ASSUME NEW r \in Readers, GetInsert(r)
      PROVE  Same \/ (reader[r].id = id /\ memory'[id].messages = reader[r].found)
  BY <1>0, <1>2 DEF GetInsert
<1>3. ASSUME NEW i \in Ids, memory' = [memory EXCEPT ![i] = NoEntry] PROVE Same
  BY <1>0, <1>3 DEF NoEntry, Present
<1>4. ASSUME NEW r \in Readers, GetEvict(r) PROVE Same
  BY <1>0, <1>3, <1>4 DEF GetEvict
<1>5. ASSUME NEW i \in Ids, SweepEvict(i) PROVE Same
  BY <1>3, <1>5 DEF SweepEvict
<1>6. ASSUME Tick PROVE Same
  <2>1. memory'[id] = [memory[id] EXCEPT !.age = Older(@, TTL)] /\ memory[id] \in EntryType
    BY <1>0, <1>6 DEF Tick
  <2>2. /\ memory'[id].messages = memory[id].messages
        /\ memory'[id].age = Older(memory[id].age, TTL) /\ memory[id].age \in Int
    BY <2>1 DEF EntryType
  <2> QED BY <2>2 DEF Older, Present
<1>7. ASSUME Crash PROVE FALSE
  BY <1>7 DEF Crash, NoEntry, Present
<1>8. ASSUME memory' = memory PROVE Same
  BY <1>8
<1> HIDE DEF Same
<1>9. \/ Same
      \/ \E i \in Ids : PutInsert(i)
      \/ \E r \in Readers : GetInsert(r)
  BY <1>4, <1>5, <1>6, <1>7, <1>8
     DEF Next, PutStep, PutSpawn, DiskStep, WriteOpen, WriteLine, WriteFails, RemoveFile,
         history, GetStep, GetStat, GetRead, GetLookup, SweepStep, SweepCollect,
         SweepOpenDir, SweepDone, SweepStat, SweepUnlink
<1> QED BY <1>1, <1>2, <1>9 DEF Same

LEMMA FoundComes ==
    ASSUME TypeOK, Next, NEW r \in Readers, reader'[r].pc = "insert"
    PROVE  /\ reader'[r].id = reader[r].id /\ reader'[r].puts = reader[r].puts
           /\ \/ reader[r].pc = "insert" /\ reader'[r].found = reader[r].found
              \/ /\ GetRead(r) /\ Present(disk[reader[r].id])
                 /\ reader'[r].found = Parsed(disk[reader[r].id].lines)
<1>0. reader \in [Readers -> ReaderType] /\ reader[r] \in ReaderType
  BY DEF TypeOK
<1> DEFINE Same == /\ reader'[r].id = reader[r].id /\ reader'[r].puts = reader[r].puts
                   /\ reader[r].pc = "insert" /\ reader'[r].found = reader[r].found
<1>1. ASSUME NEW q \in Readers, NEW id, NEW m, NEW overtaken, Answered(q, id, m, overtaken)
      PROVE  Same
  BY <1>0, <1>1, IdleType DEF Answered
<1>2. ASSUME NEW q \in Readers, NEW id \in Ids, GetLookup(q, id) PROVE Same
  <2>1. CASE Answered(q, id, memory[id].messages, FALSE)
    BY <1>1, <2>1
  <2>2. CASE Goes(q, id, "evict") \/ Goes(q, id, "stat")
    <3>1. PICK pc \in {"evict", "stat"} : Goes(q, id, pc)
      BY <2>2
    <3> DEFINE started == [Idle EXCEPT !.pc = pc, !.id = id, !.puts = handler[id].puts]
    <3>2. started.pc # "insert"
      BY IdleType DEF ReaderType
    <3>3. reader' = [reader EXCEPT ![q] = started]
      BY <3>1 DEF Goes
    <3> HIDE DEF started
    <3> QED BY <1>0, <3>2, <3>3
  <2> QED BY <1>2, <2>1, <2>2 DEF GetLookup
<1>3. ASSUME NEW q \in Readers, GetStat(q) PROVE Same
  <2> DEFINE age == IF Present(disk[reader[q].id]) THEN disk[reader[q].id].age ELSE 0
  <2>1. \/ Answered(q, reader[q].id, None, Overtaken(q))
        \/ reader' = [reader EXCEPT ![q].pc = "read", ![q].age = age]
    BY <1>3 DEF GetStat
  <2> HIDE DEF age
  <2>2. CASE reader' = [reader EXCEPT ![q].pc = "read", ![q].age = age]
    BY <1>0, <2>2 DEF ReaderType
  <2> QED BY <1>1, <2>1, <2>2
<1>4. ASSUME NEW q \in Readers, GetRead(q)
      PROVE  \/ Same
             \/ /\ q = r /\ reader'[r].id = reader[r].id /\ reader'[r].puts = reader[r].puts
                /\ Present(disk[reader[r].id])
                /\ reader'[r].found = Parsed(disk[reader[r].id].lines)
  <2> DEFINE found == Parsed(disk[reader[q].id].lines)
  <2>1. \/ Answered(q, reader[q].id, None, Overtaken(q))
        \/ /\ reader' = [reader EXCEPT ![q].pc = "insert", ![q].found = found]
           /\ Present(disk[reader[q].id])
    BY <1>4 DEF GetRead
  <2> HIDE DEF found
  <2>2. CASE /\ reader' = [reader EXCEPT ![q].pc = "insert", ![q].found = found]
             /\ Present(disk[reader[q].id])
    <3>1. q # r => Same
      BY <1>0, <2>2 DEF ReaderType
    <3>2. q = r => /\ reader'[r].id = reader[r].id /\ reader'[r].puts = reader[r].puts
                   /\ reader'[r].found = found
      BY <1>0, <2>2 DEF ReaderType
    <3> QED BY <2>2, <3>1, <3>2 DEF found
  <2> QED BY <1>1, <2>1, <2>2
<1>5. ASSUME NEW q \in Readers, GetEvict(q) \/ GetInsert(q) PROVE Same
  BY <1>1, <1>5 DEF GetEvict, GetInsert
<1>6. ASSUME Tick PROVE Same
  BY <1>0, <1>6 DEF Tick, ReaderType
<1>7. ASSUME Crash PROVE FALSE
  BY <1>7, IdleType DEF Crash
<1>8. ASSUME reader' = reader PROVE Same
  BY <1>8
<1> HIDE DEF Same
<1>9. Same \/ \E q \in Readers : GetRead(q)
  BY <1>2, <1>3, <1>5, <1>6, <1>7, <1>8
     DEF Next, PutStep, PutInsert, PutSpawn, DiskStep, WriteOpen, WriteLine, WriteFails,
         RemoveFile, history, GetStep, SweepStep, SweepCollect,
         SweepOpenDir, SweepDone, SweepEvict, SweepStat, SweepUnlink
<1> QED BY <1>4, <1>9 DEF Same

LEMMA HeldOfFirsts ==
    ASSUME HistoryInv, Next, NEW id \in Ids, Once(id)'
    PROVE  /\ Present(memory'[id]) => Initial(memory'[id].messages)
           /\ \A r \in Readers : reader'[r].pc = "insert" /\ reader'[r].id = id =>
                 Initial(reader'[r].found)
<1>0. FirstInv(id) /\ Once(id) /\ TypeOK
  BY OnceWasOnce DEF HistoryInv, FirstsInv, LatestInv
<1>1. ASSUME Present(memory'[id]) PROVE Initial(memory'[id].messages)
  <2>1. CASE Present(memory[id]) /\ memory'[id].messages = memory[id].messages
    BY <1>0, <2>1 DEF FirstInv
  <2>2. CASE PutInsert(id) /\ memory'[id].messages = Messages(id, handler[id].puts + 1)
    <3>1. /\ handler'[id].puts = handler[id].puts + 1
          /\ handler'[id].alone = handler[id].alone
          /\ handler[id].puts \in 0..MaxPuts /\ handler'[id].puts \in 0..MaxPuts
      BY <1>0, <2>2, PutsGrow
    <3>2. handler'[id].alone \/ handler'[id].puts <= 1
      BY DEF Once, Extending
    <3>3. handler[id].puts + 1 \in 1..MaxPuts
      BY <3>1, StoreAssumption
    <3>4. handler[id].puts + 1 = 1 \/ handler[id].alone
      BY <3>1, <3>2
    <3> QED BY <2>2, <3>3, <3>4, MessagesAre
  <2>3. ASSUME NEW r \in Readers, reader[r].id = id, GetInsert(r),
               memory'[id].messages = reader[r].found
        PROVE  Initial(memory'[id].messages)
    BY <1>0, <2>3 DEF FirstInv, GetInsert
  <2> QED BY <1>0, <1>1, <2>1, <2>2, <2>3, EntryComes
<1>2. ASSUME NEW r \in Readers, reader'[r].pc = "insert", reader'[r].id = id
      PROVE  Initial(reader'[r].found)
  <2>1. CASE reader[r].pc = "insert" /\ reader'[r].found = reader[r].found
    BY <1>0, <1>2, <2>1, FoundComes DEF FirstInv
  <2>2. CASE /\ Present(disk[id])
             /\ reader'[r].found = Parsed(disk[id].lines)
    <3>1. disk[id].lines \in Seq(Lines \cup {Hole}) /\ Initial(disk[id].lines)
      BY <1>0, <2>2 DEF FirstInv, TypeOK
    <3>2. Parsed(disk[id].lines) = disk[id].lines
      BY <3>1, InitialIsRising, ParsedWhole
    <3> QED BY <2>2, <3>1, <3>2
  <2> QED BY <1>0, <1>2, <2>1, <2>2, FoundComes
<1> QED BY <1>1, <1>2

LEMMA FirstsStay ==
    ASSUME HistoryInv, Next
    PROVE  FirstsInv'
<1> SUFFICES ASSUME NEW id \in Ids PROVE FirstInv(id)'
  BY DEF FirstsInv
<1> QED BY WritersOfFirsts, FilesOfFirsts, HeldOfFirsts DEF FirstInv, Alone, Initial

-----------------------------------------------------------------------------
(* What is held and answered                                               *)

\* The file of an id, once nobody writes it and nothing has failed.
LEMMA LeftFileIsWhole ==
    ASSUME HistoryInv, NEW id \in Ids, id \notin spoiled, faults = 0,
           Present(disk[id]), \A w \in writes : w.id # id
    PROVE  disk[id].lines \in Versions(id)
<1>1. disk[id].lines \in Seq(Lines \cup {Hole}) /\ FileInv(id)
  BY DEF HistoryInv, LatestInv, TypeOK, FilesInv
<1>2. \A w \in writes : ~Writes(w, id)
  BY DEF Writes
<1>3. CASE handler[id].alone
  <2>1. InPlace(disk[id].lines) /\ Fillable(id)
    BY <1>1, <1>3 DEF FileInv, Extending
  <2>2. (\A k \in 1..Len(disk[id].lines) : disk[id].lines[k] # Hole) /\ Len(disk[id].lines) >= 2
    BY <1>2, <2>1 DEF Fillable
  <2> QED BY <1>1, <1>3, <2>1, <2>2, FullIsWhole
<1>4. CASE ~handler[id].alone
  BY <1>1, <1>2, <1>4 DEF FileInv, Exact
<1> QED BY <1>3, <1>4

\* A get that no put overtook reads the file of a settled id, which nobody writes.
LEMMA ReadIsFit ==
    ASSUME HistoryInv, NEW r \in Readers, reader[r].pc = "read",
           NEW id \in Ids, reader[r].id = id, Present(disk[id])
    PROVE  Holds(id, Parsed(disk[id].lines), ~Overtaken(r) /\ Clean(id))
<1> DEFINE lines == disk[id].lines
<1>1. lines \in Seq(Lines \cup {Hole}) /\ FileInv(id)
  BY DEF HistoryInv, LatestInv, TypeOK, FilesInv
<1>2. Parsed(lines) \in Seq(Lines)
  BY <1>1, ParsedType
<1>3. ASSUME Extending(id) PROVE Rising(Parsed(lines))
  <2>1. InPlace(lines)
    BY <1>1, <1>3 DEF FileInv
  <2> QED BY <1>1, <2>1, ParsedRises
<1>4. ASSUME ~Overtaken(r), Clean(id) PROVE Fit(id, Parsed(lines))
  <2>1. Settled(id) /\ id \notin spoiled
    BY <1>4 DEF HistoryInv, LatestInv, ReadersAreLate, Clean
  <2>2. \A w \in writes : w.id # id
    BY <2>1, SettledIsQuiet
  <2>3. ASSUME NEW v \in Seq(Lines), Begins(lines, v)
        PROVE  Parsed(lines) = lines
    <3>1. ASSUME NEW k \in 1..Len(lines) PROVE lines[k] # Hole
      <4> HIDE DEF lines
      <4>1. k \in 1..Len(v) /\ lines[k] = v[k]
        BY <1>1, <2>3 DEF Begins
      <4>2. v[k] \in Lines
        BY <4>1
      <4>3. Hole \notin Lines
        BY StoreAssumption DEF Lines, Hole
      <4> QED BY <4>1, <4>2, <4>3
    <3> QED BY <1>1, <3>1, ParsedWhole
  <2>4. \A v \in Versions(id) : v \in Seq(Lines)
    BY MessagesAre DEF Versions
  <2>5. CASE faults = 0
    <3>1. lines \in Versions(id)
      BY <2>1, <2>2, <2>5, LeftFileIsWhole
    <3>2. Begins(lines, lines)
      BY <1>1 DEF Begins
    <3>3. Parsed(lines) = lines
      BY <2>3, <2>4, <3>1, <3>2
    <3> QED BY <2>5, <3>1, <3>3 DEF Fit
  <2>6. CASE faults # 0 /\ handler[id].alone
    <3>1. Rising(Parsed(lines))
      BY <1>3, <2>6 DEF Extending
    <3> HIDE DEF lines
    <3> QED BY <1>2, <2>6, <3>1, RisingIsThinned DEF Fit
  <2>7. CASE faults # 0 /\ ~handler[id].alone
    <3>1. PICK v \in Versions(id) : Begins(lines, v)
      BY <1>1, <2>1, <2>7 DEF FileInv, Exact
    <3>2. Parsed(lines) = lines
      BY <2>3, <2>4, <3>1
    <3>3. Thinned(Parsed(lines), v)
      BY <1>2, <2>4, <3>1, <3>2, BeginsIsThinned
    <3> HIDE DEF lines
    <3> QED BY <2>7, <3>1, <3>3 DEF Fit
  <2> QED BY <2>5, <2>6, <2>7
<1> HIDE DEF lines
<1>5. Holds(id, Parsed(lines), ~Overtaken(r) /\ Clean(id))
  BY <1>2, <1>3, <1>4 DEF Holds
<1> QED BY <1>5 DEF lines

FitNext(id, m) == IF faults' = 0 THEN m \in Versions(id)'
                  ELSE \E v \in Versions(id)' : Thinned(m, v)

\* What fits goes on fitting.
LEMMA HoldsStays ==
    ASSUME HistoryInv, Next, NEW id \in Ids, NEW m, Extending(id) => Rising(m)
    PROVE  /\ Extending(id)' => Rising(m)
           /\ Fit(id, m) => FitNext(id, m)
<1>1. /\ Extending(id)' => Extending(id)
      /\ Versions(id)' = Versions(id)
      /\ faults' = 0 => faults = 0
  BY NothingGoesBack DEF HistoryInv, LatestInv
<1>2. ASSUME Fit(id, m) PROVE FitNext(id, m)
  <2>1. CASE faults = 0
    <3>1. m \in Versions(id)
      BY <1>2, <2>1 DEF Fit
    <3>2. Thinned(m, m)
      BY <3>1, VersionIsThinned
    <3> QED BY <1>1, <3>1, <3>2 DEF FitNext
  <2>2. CASE faults # 0
    <3>1. \E v \in Versions(id) : Thinned(m, v)
      BY <1>2, <2>2 DEF Fit
    <3> QED BY <1>1, <2>2, <3>1 DEF FitNext
  <2> QED BY <2>1, <2>2
<1> QED BY <1>1, <1>2

\* An id is cleared only by a put, or by the death of the process.
LEMMA CleanWasClean ==
    ASSUME HistoryInv, Next, NEW id \in Ids, Clean(id)', ~PutInsert(id), ~Crash
    PROVE  Clean(id)
<1>1. spoiled \subseteq spoiled'
  BY NothingGoesBack DEF HistoryInv, LatestInv
<1> QED BY <1>1, DisplacedStays DEF Clean

LEMMA HeldStaysFit ==
    ASSUME HistoryInv, Next
    PROVE  HeldFit'
<1>0. TypeOK /\ HeldFit
  BY DEF HistoryInv, LatestInv
<1>1. ASSUME NEW id \in Ids, Present(memory'[id])
      PROVE  LET m == memory'[id].messages IN
             /\ m \in Seq(Lines)
             /\ Extending(id)' => Rising(m)
             /\ Clean(id)' => FitNext(id, m)
  <2>0. ~Crash
    BY <1>1 DEF Crash, NoEntry, Present
  <2>1. CASE PutInsert(id)
    <3> DEFINE v == handler[id].puts + 1
    <3>1. /\ handler'[id].puts = v /\ handler'[id].alone = handler[id].alone
          /\ handler[id].puts \in 0..MaxPuts /\ handler'[id].puts \in 0..MaxPuts
      BY <1>0, <2>1, PutsGrow
    <3>2. v \in 1..MaxPuts
      BY <3>1, StoreAssumption
    <3>3. memory'[id].messages = Messages(id, v)
      BY <1>0, <2>1 DEF PutInsert, TypeOK
    <3>4. Extending(id)' => v = 1 \/ handler[id].alone
      BY <3>1, <3>2 DEF Extending
    <3> HIDE DEF v
    <3>5. Messages(id, v) \in Seq(Lines) /\ (Extending(id)' => Rising(Messages(id, v)))
      BY <3>2, <3>4, MessagesAre
    <3>6. FitNext(id, Messages(id, v))
      <4>1. Messages(id, v) \in Versions(id)
        BY <3>2, MessagesAre
      <4>2. Thinned(Messages(id, v), Messages(id, v)) /\ Versions(id)' = Versions(id)
        BY <1>0, <4>1, VersionIsThinned, NothingGoesBack
      <4> QED BY <4>1, <4>2 DEF FitNext
    <3> QED BY <3>3, <3>5, <3>6
  <2>2. CASE /\ ~PutInsert(id)
             /\ Present(memory[id]) /\ memory'[id].messages = memory[id].messages
    <3> DEFINE m == memory[id].messages
    <3>1. Holds(id, m, Clean(id)) /\ (Clean(id)' => Clean(id))
      BY <1>0, <2>0, <2>2, CleanWasClean DEF HeldFit
    <3> HIDE DEF m
    <3>2. m \in Seq(Lines) /\ (Extending(id) => Rising(m)) /\ (Clean(id) => Fit(id, m))
      BY <3>1 DEF Holds
    <3>3. m \in Seq(Lines) /\ (Extending(id)' => Rising(m)) /\ (Clean(id)' => FitNext(id, m))
      BY <3>1, <3>2, HoldsStays
    <3> QED BY <2>2, <3>3 DEF m
  <2>3. ASSUME NEW r \in Readers, reader[r].id = id, GetInsert(r),
               memory'[id].messages = reader[r].found
        PROVE  LET m == memory'[id].messages IN
               /\ m \in Seq(Lines)
               /\ Extending(id)' => Rising(m)
               /\ Clean(id)' => FitNext(id, m)
    <3> DEFINE m == reader[r].found
    <3>1. Holds(id, m, ~Overtaken(r) /\ Clean(id))
      BY <1>0, <2>3 DEF HeldFit, GetInsert
    <3>2. Clean(id)' => ~Overtaken(r) /\ Clean(id)
      BY <2>3 DEF GetInsert, Displaced, Clean
    <3> HIDE DEF m
    <3>3. /\ m \in Seq(Lines) /\ (Extending(id) => Rising(m))
          /\ ~Overtaken(r) /\ Clean(id) => Fit(id, m)
      BY <3>1 DEF Holds
    <3>4. m \in Seq(Lines) /\ (Extending(id)' => Rising(m)) /\ (Clean(id)' => FitNext(id, m))
      BY <3>2, <3>3, HoldsStays
    <3> QED BY <2>3, <3>4 DEF m
  <2> QED BY <1>0, <1>1, <2>1, <2>2, <2>3, EntryComes
<1>2. ASSUME NEW r \in Readers, NEW id \in Ids, reader'[r].id = id, reader'[r].pc = "insert"
      PROVE  LET m == reader'[r].found IN
             /\ m \in Seq(Lines)
             /\ Extending(id)' => Rising(m)
             /\ ~Overtaken(r)' /\ Clean(id)' => FitNext(id, m)
  <2> DEFINE m  == reader'[r].found
  <2>1. /\ reader[r].id = id /\ reader[r].puts \in 0..MaxPuts
        /\ reader'[r].id = id /\ reader'[r].puts = reader[r].puts
    BY <1>0, <1>2, FoundComes DEF TypeOK, ReaderType
  <2>2. reader[r].pc # "idle"
    BY <1>0, <1>2, FoundComes DEF GetRead
  <2>3. ~Crash
    BY <1>2, IdleType DEF Crash
  <2>4. ASSUME ~Overtaken(r)', Clean(id)' PROVE ~Overtaken(r) /\ Clean(id)
    <3>1. reader[r].puts <= handler[id].puts
      BY <2>1, <2>2 DEF HistoryInv, LatestInv, ReadersAreLate
    <3>2. /\ handler[id].puts \in 0..MaxPuts /\ handler'[id].puts \in 0..MaxPuts
          /\ handler'[id].puts >= handler[id].puts
          /\ PutInsert(id) => handler'[id].puts = handler[id].puts + 1
      BY <1>0, <2>1, PutsGrow
    <3>3. ~(handler'[id].puts > reader[r].puts)
      BY <2>1, <2>4 DEF Overtaken
    <3>4. ~PutInsert(id) /\ ~(handler[id].puts > reader[r].puts)
      BY <2>1, <3>1, <3>2, <3>3, StoreAssumption
    <3> QED BY <2>1, <2>3, <2>4, <3>4, CleanWasClean DEF Overtaken
  <2>5. Holds(id, m, ~Overtaken(r) /\ Clean(id))
    <3>1. CASE reader[r].pc = "insert" /\ reader'[r].found = reader[r].found
      BY <1>0, <2>1, <3>1 DEF HeldFit
    <3>2. CASE GetRead(r) /\ Present(disk[id]) /\ m = Parsed(disk[id].lines)
      BY <2>1, <3>2, ReadIsFit DEF GetRead
    <3> QED BY <1>0, <1>2, <3>1, <3>2, FoundComes
  <2> HIDE DEF m
  <2>6. /\ m \in Seq(Lines) /\ (Extending(id) => Rising(m))
        /\ ~Overtaken(r) /\ Clean(id) => Fit(id, m)
    BY <2>5 DEF Holds
  <2>7. /\ m \in Seq(Lines) /\ (Extending(id)' => Rising(m))
        /\ Fit(id, m) => FitNext(id, m)
    BY <2>1, <2>6, HoldsStays
  <2> QED BY <2>1, <2>4, <2>6, <2>7 DEF m
<1>3. ASSUME NEW id \in Ids, Present(memory'[id])
      PROVE  Holds(id, memory[id].messages, Clean(id))'
  BY <1>1, <1>3 DEF Holds, Fit, FitNext, Rising
<1>4. ASSUME NEW r \in Readers, reader'[r].pc = "insert"
      PROVE  Holds(reader[r].id, reader[r].found, ~Overtaken(r) /\ Clean(reader[r].id))'
  <2>1. reader'[r].id \in Ids
    BY <1>0, NextTypeOK DEF TypeOK, ReaderType
  <2>2. PICK id \in Ids : reader'[r].id = id
    BY <2>1
  <2>3. LET m == reader'[r].found IN
        /\ m \in Seq(Lines)
        /\ Extending(id)' => Rising(m)
        /\ ~Overtaken(r)' /\ Clean(id)' => FitNext(id, m)
    BY <1>2, <1>4, <2>2
  <2> QED BY <2>2, <2>3 DEF Holds, Fit, FitNext, Rising, Clean, Extending, Versions, Messages
<1> QED BY <1>3, <1>4 DEF HeldFit

LEMMA AnswerStaysFit ==
    ASSUME HistoryInv, Next
    PROVE  AnswerFits'
<1>0. TypeOK /\ AnswerFits /\ HeldFit
  BY DEF HistoryInv, LatestInv
<1>1. ASSUME answer' = NoAnswer PROVE AnswerFits'
  BY <1>1 DEF AnswerFits, NoAnswer
<1>2. ASSUME NEW id \in Ids, NEW m, m # None, answer'.id = id, answer'.messages = m,
             m \in Seq(Lines), Extending(id) => Rising(m),
             answer'.clean => Fit(id, m)
      PROVE  AnswerFits'
  <2>1. (Extending(id)' => Rising(m)) /\ (answer'.clean => FitNext(id, m))
    BY <1>2, HoldsStays
  <2> QED BY <1>2, <2>1 DEF AnswerFits, Holds, Fit, FitNext, Rising
<1>3. ASSUME answer' = answer PROVE AnswerFits'
  <2>1. CASE answer.messages = None
    BY <1>0, <1>3, <2>1 DEF AnswerFits
  <2>2. CASE answer.messages # None
    <3>1. answer.id \in Ids /\ Holds(answer.id, answer.messages, answer.clean)
      BY <1>0, <2>2 DEF AnswerFits
    <3>2. /\ answer.messages \in Seq(Lines)
          /\ Extending(answer.id) => Rising(answer.messages)
          /\ answer.clean => Fit(answer.id, answer.messages)
      BY <3>1 DEF Holds
    <3> QED BY <1>2, <1>3, <2>2, <3>1, <3>2
  <2> QED BY <2>1, <2>2
<1>4. ASSUME NEW r \in Readers, NEW id \in Ids, NEW m, NEW overtaken,
             Answered(r, id, m, overtaken),
             m # None => /\ m \in Seq(Lines) /\ (Extending(id) => Rising(m))
                         /\ ~overtaken /\ Clean(id) => Fit(id, m)
      PROVE  AnswerFits'
  <2>1. CASE m = None
    BY <1>1, <1>4, <2>1 DEF Answered
  <2>2. CASE m # None
    <3>1. answer' = [id |-> id, messages |-> m, age |-> touched[id],
                     clean |-> ~overtaken /\ id \notin displaced \cup spoiled]
      BY <1>4, <2>2 DEF Answered
    <3>2. answer'.id = id /\ answer'.messages = m
      BY <3>1
    <3>3. answer'.clean => ~overtaken /\ Clean(id)
      BY <3>1, Zenon DEF Clean
    <3> QED BY <1>2, <1>4, <2>2, <3>2, <3>3
  <2> QED BY <2>1, <2>2
<1>5. ASSUME NEW r \in Readers, NEW id \in Ids, GetLookup(r, id) PROVE AnswerFits'
  <2>1. CASE Goes(r, id, "evict") \/ Goes(r, id, "stat")
    BY <1>1, <2>1 DEF Goes
  <2>2. CASE Present(memory[id]) /\ Answered(r, id, memory[id].messages, FALSE)
    <3> DEFINE m == memory[id].messages
    <3>1. Holds(id, m, Clean(id))
      BY <1>0, <2>2 DEF HeldFit
    <3>2. m \in Seq(Lines) /\ (Extending(id) => Rising(m)) /\ (Clean(id) => Fit(id, m))
      BY <3>1 DEF Holds
    <3> QED BY <1>4, <2>2, <3>2
  <2> QED BY <1>5, <2>1, <2>2 DEF GetLookup
<1>6. ASSUME NEW r \in Readers, GetStep(r) PROVE AnswerFits'
  <2> DEFINE id == reader[r].id
  <2>0. id \in Ids
    BY <1>0 DEF TypeOK, ReaderType
  <2>1. ASSUME Answered(r, id, None, Overtaken(r)) PROVE AnswerFits'
    BY <1>1, <2>1 DEF Answered
  <2>2. CASE GetInsert(r)
    <3> DEFINE m == reader[r].found
    <3>1. Holds(id, m, ~Overtaken(r) /\ Clean(id)) /\ Answered(r, id, m, Overtaken(r))
      BY <1>0, <2>2 DEF HeldFit, GetInsert
    <3>2. /\ m \in Seq(Lines) /\ (Extending(id) => Rising(m))
          /\ ~Overtaken(r) /\ Clean(id) => Fit(id, m)
      BY <3>1 DEF Holds
    <3> QED BY <1>4, <2>0, <3>1, <3>2
  <2>3. CASE GetEvict(r)
    BY <2>1, <2>3 DEF GetEvict
  <2>4. CASE GetStat(r)
    BY <1>3, <2>1, <2>4 DEF GetStat
  <2>5. CASE GetRead(r)
    BY <1>3, <2>1, <2>5 DEF GetRead
  <2> QED BY <1>6, <2>2, <2>3, <2>4, <2>5 DEF GetStep
<1>7. CASE Tick
  BY <1>1, <1>7 DEF Tick
<1> QED BY <1>3, <1>5, <1>6, <1>7
        DEF Next, PutStep, PutInsert, PutSpawn, DiskStep, WriteOpen, WriteLine,
            WriteFails, RemoveFile, history, SweepStep, SweepCollect, SweepOpenDir,
            SweepDone, SweepEvict, SweepStat, SweepUnlink, Crash

\* The invariant says what the runs check.
LEMMA HistoryInvSuffices ==
    ASSUME HistoryInv
    PROVE  HistoriesAreWhole
<1>1. ReadsAlone
  <2> SUFFICES ASSUME NEW r \in Readers, reader[r].pc = "read", ~Overtaken(r),
                      reader[r].id \notin displaced
               PROVE  \A w \in writes : w.id # reader[r].id
    BY DEF ReadsAlone
  <2>1. reader[r].id \in Ids
    BY DEF HistoryInv, LatestInv, TypeOK, ReaderType
  <2>2. Settled(reader[r].id)
    BY DEF HistoryInv, LatestInv, ReadersAreLate
  <2> QED BY <2>1, <2>2, SettledIsQuiet
<1>2. answer.clean => Fit(answer.id, answer.messages)
  BY DEF HistoryInv, AnswerFits, Holds
<1>3. AnswersAreWhole
  BY <1>1, <1>2 DEF AnswersAreWhole, Fit
<1>4. AnswersAreOrdered
  <2> SUFFICES ASSUME answer.messages # None, Extending(answer.id)
               PROVE  \A i, j \in DOMAIN answer.messages :
                         i < j => answer.messages[i] < answer.messages[j]
    BY DEF AnswersAreOrdered
  <2>1. answer.messages \in Seq(Lines) /\ Rising(answer.messages)
    BY DEF HistoryInv, AnswerFits, Holds
  <2> QED BY <2>1 DEF Rising
<1>5. FilesSettleWhole
  BY LeftFileIsWhole DEF FilesSettleWhole
<1> QED BY <1>3, <1>4, <1>5 DEF HistoriesAreWhole

\* Without crashes and failed writes a get answers one whole version of a history,
\* from memory or from the disk, and the file of an id that nobody writes any more
\* holds one; after one, messages may be missing but none is answered twice or out
\* of order.  So it is although the writes that store.rs spawns for one id are not
\* ordered among each other, whether or not the second put begins with the first.
\* What it leaves out is named: a get that a put has overtaken, an id from which one
\* that looked before the put took it (displaced), and a file two writers mixed
\* (spoiled); of a get that was overtaken it still says that nothing is answered twice
\* or out of order, where the puts begin with one another.
THEOREM HistoriesStayWhole == Spec => []HistoriesAreWhole
<1>1. Init => HistoryInv
  <2> SUFFICES ASSUME Init PROVE HistoryInv
    OBVIOUS
  <2>1. /\ writes = {} /\ \A id \in Ids : handler[id].pc = "running"
        /\ \A id \in Ids : ~Present(memory[id]) /\ ~Present(disk[id])
        /\ \A r \in Readers : reader[r].pc = "idle"
        /\ answer = NoAnswer
    BY IdleType DEF Init, NoEntry, NoFile, Present
  <2>2. PutsAreOwed /\ WritersAreRecent /\ FilesInv /\ HeldFit
    BY <2>1 DEF PutsAreOwed, WritersAreRecent, FilesInv, FileInv, HeldFit
  <2>3. FirstsInv
    BY <2>1 DEF FirstsInv, FirstInv
  <2>4. AnswerFits
    BY <2>1 DEF AnswerFits, NoAnswer
  <2> QED BY <2>2, <2>3, <2>4, LatestInit DEF HistoryInv
<1>2. HistoryInv /\ [Next]_vars => HistoryInv'
  <2>1. ASSUME HistoryInv, UNCHANGED vars PROVE HistoryInv'
    <3>1. LatestInv'
      BY <2>1, LatestNext DEF HistoryInv
    <3>2. UNCHANGED <<memory, disk, writes, handler, reader, faults, owed, putAge,
                      answer, displaced, spoiled>>
      BY <2>1 DEF vars, taken
    <3>3. PutsAreOwed' /\ WritersAreRecent'
      BY <2>1, <3>2 DEF HistoryInv, PutsAreOwed, WritersAreRecent, WriterInv, Extending,
                        Messages
    <3>4. FilesInv'
      BY <2>1, <3>2 DEF HistoryInv, FilesInv, FileInv, Fillable, Exact, OneWrites, Present,
                        Extending, Versions, Messages
    <3>5. FirstsInv'
      BY <2>1, <3>2 DEF HistoryInv, FirstsInv, FirstInv, Once, Unwritten, Present, Extending
    <3>6. HeldFit' /\ AnswerFits'
      BY <2>1, <3>2 DEF HistoryInv, HeldFit, AnswerFits, Holds, Fit, Present, Extending,
                        Versions, Messages, Clean, Overtaken
    <3> QED BY <3>1, <3>3, <3>4, <3>5, <3>6 DEF HistoryInv
  <2>2. ASSUME HistoryInv, Next PROVE HistoryInv'
    <3>1. LatestInv'
      BY <2>2, LatestNext DEF HistoryInv
    <3> QED BY <2>2, <3>1, PutsStayOwed, WritersStayRecent, FilesStayInv, FirstsStay,
               HeldStaysFit, AnswerStaysFit
            DEF HistoryInv
  <2> QED BY <2>1, <2>2
<1>3. HistoryInv => HistoriesAreWhole
  BY HistoryInvSuffices
<1> QED BY <1>1, <1>2, <1>3, PTL DEF Spec
=============================================================================
