-------------------------------- MODULE Store --------------------------------
(***************************************************************************)
(* The conversation store of src/store.rs: a memory map with a TTL in      *)
(* front of one JSONL file per response id.  put() answers once the map is *)
(* written; files are written and removed by spawned tasks that nothing    *)
(* orders.  get() falls back to the file, a sweeper removes what expired,  *)
(* and a crash leaves only the files.                                      *)
(*                                                                         *)
(* Every await point is a step boundary.  Time is kept as ages that stop   *)
(* at the first value past the TTL, so the clock itself is unbounded.      *)
(***************************************************************************)
EXTENDS Integers, Sequences, FiniteSets

CONSTANTS
    Ids,              \* response ids
    Readers,          \* requests that resolve a previous_response_id
    TTL,              \* DEFAULT_TTL, in ticks
    MaxPuts,          \* puts of one id: 2 in the background path, else 1
    MaxWriteTicks,    \* ticks a spawned file write may take
    MaxReadTicks,     \* ticks a get may take
    MaxPending,       \* bound on the pending removals of one file
    MaxFaults         \* bound on crashes and failed writes

ASSUME StoreAssumption ==
    /\ Ids # {}
    /\ TTL \in Nat /\ MaxPuts \in 1..2
    /\ MaxWriteTicks \in 0..TTL /\ MaxReadTicks \in Nat
    /\ MaxPending \in Nat \ {0} /\ MaxFaults \in Nat

VARIABLES
    memory,    \* inner: id -> entry
    disk,      \* messages/{id}.jsonl
    writes,    \* spawned write_messages tasks
    removals,  \* spawned remove_file tasks, counted per id
    handler,   \* the request that puts id: its puts, and where it is
    reader,    \* the requests that get
    sweeper,   \* the sweep task
    faults,    \* crashes and failed writes so far
    (* History: what the store owes its callers. *)
    owed,      \* id -> the last version put since the process started, or 0
    putAge,    \* id -> ticks since that put
    touched,   \* id -> ticks since id was last put, or its file written
    answer,    \* the answer of the last get, until a tick or another get
    displaced, \* ids whose entry a get or a sweep that looked before its put took
    spoiled    \* ids whose file is no longer the work of one writer at a time

vars == <<memory, disk, writes, removals, handler, reader, sweeper, faults,
          owed, putAge, touched, answer, displaced, spoiled>>

taken == <<displaced, spoiled>>

history == <<owed, putAge, touched, answer, taken>>

-----------------------------------------------------------------------------
NoEntry == [messages |-> <<>>, age |-> -1]
NoFile  == [lines |-> <<>>, age |-> -1]
None    == <<-1>>            \* Option::None, where an answer is expected
Hole    == 0                 \* the bytes a write past the end of file skips

Present(x) == x.age >= 0

\* A message of the conversation before this turn: its instructions, its history.
Earlier == MaxPuts + 2

\* The messages of the v-th put of an id.  The background path puts the input
\* of the turn first.  What it puts second is all that was sent upstream, and the
\* reply: it begins with the input only if that came alone, without instructions
\* or a history before it.
Messages(id, v) ==
    LET turn == [k \in 1..(v + 1) |-> k]
    IN  IF v > 1 /\ ~handler[id].alone THEN <<Earlier>> \o turn ELSE turn

Older(age, limit) == IF age < 0 \/ age > limit THEN age ELSE age + 1

\* Mutant: an entry expires one tick early.
Expired_AtTTL(x) == x.age >= TTL

\* elapsed() > ttl.
Expired(x) == x.age > TTL

AtMost(n, limit) == IF n > limit THEN limit ELSE n

Idle == [pc |-> "idle", id |-> CHOOSE id \in Ids : TRUE, puts |-> 0, age |-> 0,
         ticks |-> 0, found |-> <<>>]

NoAnswer == [id |-> CHOOSE id \in Ids : TRUE, messages |-> None, age |-> 0,
             clean |-> FALSE]

NoSweep == [pc |-> "idle", todo |-> {}, files |-> {}, seen |-> [id \in Ids |-> 0]]

Spawned(id) == [removals EXCEPT ![id] = AtMost(@ + 1, MaxPending)]

Init ==
    /\ memory = [id \in Ids |-> NoEntry]
    /\ disk = [id \in Ids |-> NoFile]
    /\ writes = {}
    /\ removals = [id \in Ids |-> 0]
    /\ handler \in [Ids -> [puts : {0}, pc : {"running"}, alone : BOOLEAN]]
    /\ reader = [r \in Readers |-> Idle]
    /\ sweeper = NoSweep
    /\ faults = 0
    /\ owed = [id \in Ids |-> 0]
    /\ putAge = [id \in Ids |-> 0]
    /\ touched = [id \in Ids |-> 0]
    /\ answer = NoAnswer
    /\ displaced = {}
    /\ spoiled = {}

-----------------------------------------------------------------------------
(* put                                                                     *)

\* The handler inserts the messages under the write lock.
PutInsert(id) ==
    LET v == handler[id].puts + 1 IN
    /\ handler[id].pc = "running"
    /\ v <= MaxPuts
    /\ memory' = [memory EXCEPT ![id] = [messages |-> Messages(id, v), age |-> 0]]
    /\ handler' = [handler EXCEPT ![id].puts = v, ![id].pc = "inserted"]
    /\ owed' = [owed EXCEPT ![id] = v]
    /\ putAge' = [putAge EXCEPT ![id] = 0]
    /\ touched' = [touched EXCEPT ![id] = 0]
    /\ displaced' = displaced \ {id}
    /\ UNCHANGED <<disk, writes, removals, reader, sweeper, faults, answer, spoiled>>

\* It reads the entry back under the read lock and spawns the file write.
PutSpawn(id) ==
    /\ handler[id].pc = "inserted"
    /\ handler' = [handler EXCEPT ![id].pc = "running"]
    /\ writes' = IF Present(memory[id])
                 THEN writes \cup {[id |-> id, put |-> handler[id].puts,
                                    messages |-> memory[id].messages,
                                    next |-> 0, attached |-> TRUE, ticks |-> 0]}
                 ELSE writes
    /\ spoiled' = spoiled \cup ({id} \cap displaced)
    /\ UNCHANGED <<memory, disk, removals, reader, sweeper, faults, owed, putAge,
                   touched, answer, displaced>>

\* The writers that have the file of id open.
Writing(id) == {w \in writes : w.id = id /\ w.next > 0 /\ w.attached}

\* write_messages: File::create truncates, or makes a new file.
WriteOpen(w) ==
    /\ w.next = 0
    /\ disk' = [disk EXCEPT ![w.id] = [lines |-> <<>>, age |-> 0]]
    /\ writes' = (writes \ {w}) \cup
                 (IF w.messages = <<>> THEN {} ELSE {[w EXCEPT !.next = 1]})
    /\ touched' = [touched EXCEPT ![w.id] = 0]
    /\ spoiled' = IF Writing(w.id) # {} /\ ~handler[w.id].alone
                  THEN spoiled \cup {w.id} ELSE spoiled
    /\ UNCHANGED <<memory, removals, handler, reader, sweeper, faults, owed,
                   putAge, answer, displaced>>

\* Mutant: lines are appended wherever the file ends by now.
LineWritten_Append(lines, k, line) == Append(lines, line)

\* A writer writes at its own offset, whatever another has done to the file; as
\* if all lines were equally long.
LineWritten(lines, k, line) ==
    [j \in 1..(IF k > Len(lines) THEN k ELSE Len(lines)) |->
        IF j = k THEN line ELSE IF j <= Len(lines) THEN lines[j] ELSE Hole]

\* Mutant: the loop stops one line early.
WriteLine_Short(w) ==
    LET last == w.next + 1 >= Len(w.messages) IN
    /\ w.next > 0
    /\ disk' = IF w.attached
               THEN [disk EXCEPT ![w.id] =
                        [lines |-> LineWritten(@.lines, w.next, w.messages[w.next]),
                         age |-> 0]]
               ELSE disk
    /\ touched' = IF w.attached THEN [touched EXCEPT ![w.id] = 0] ELSE touched
    /\ writes' = (writes \ {w}) \cup
                 (IF last THEN {} ELSE {[w EXCEPT !.next = @ + 1]})
    /\ UNCHANGED <<memory, removals, handler, reader, sweeper, faults, owed,
                   putAge, answer, taken>>

\* One line.  A writer whose file was removed goes on writing to nothing.
WriteLine(w) ==
    LET last == w.next >= Len(w.messages) IN
    /\ w.next > 0
    /\ disk' = IF w.attached
               THEN [disk EXCEPT ![w.id] =
                        [lines |-> LineWritten(@.lines, w.next, w.messages[w.next]),
                         age |-> 0]]
               ELSE disk
    /\ touched' = IF w.attached THEN [touched EXCEPT ![w.id] = 0] ELSE touched
    /\ writes' = (writes \ {w}) \cup
                 (IF last THEN {} ELSE {[w EXCEPT !.next = @ + 1]})
    /\ UNCHANGED <<memory, removals, handler, reader, sweeper, faults, owed,
                   putAge, answer, taken>>

\* An I/O error ends the write; it is logged and nothing else.
WriteFails(w) ==
    /\ faults < MaxFaults
    /\ writes' = writes \ {w}
    /\ faults' = faults + 1
    /\ UNCHANGED <<memory, disk, removals, handler, reader, sweeper, history>>

\* Removing a file leaves the writers that have it open without a name.
Unlink(id) ==
    /\ disk' = [disk EXCEPT ![id] = NoFile]
    /\ writes' = {IF w.id = id /\ w.next > 0 THEN [w EXCEPT !.attached = FALSE]
                  ELSE w : w \in writes}

\* delete_messages_file's task.
RemoveFile(id) ==
    /\ removals[id] > 0
    /\ Unlink(id)
    /\ removals' = [removals EXCEPT ![id] = @ - 1]
    /\ UNCHANGED <<memory, handler, reader, sweeper, faults, history>>

-----------------------------------------------------------------------------
(* get                                                                     *)

\* A put of the id came after this get had looked.
Overtaken(r) == handler[reader[r].id].puts > reader[r].puts

Displaced(id, overtaken) == IF overtaken THEN displaced \cup {id} ELSE displaced

Answered(r, id, messages, overtaken) ==
    /\ reader' = [reader EXCEPT ![r] = Idle]
    /\ answer' = IF messages = None THEN NoAnswer
                 ELSE [id |-> id, messages |-> messages, age |-> touched[id],
                       clean |-> ~overtaken /\ id \notin displaced \cup spoiled]

Goes(r, id, pc) ==
    /\ reader' = [reader EXCEPT ![r] = [Idle EXCEPT !.pc = pc, !.id = id,
                                                    !.puts = handler[id].puts]]
    /\ answer' = NoAnswer

\* The lookup under the read lock: a fresh entry answers, an expired one is to
\* be evicted, and a miss goes to the disk.  A client may ask at any time: where
\* the answer is streamed it has the id before anything is put.
GetLookup(r, id) ==
    /\ reader[r].pc = "idle"
    /\ \/ Present(memory[id]) /\ ~Expired(memory[id])
             /\ Answered(r, id, memory[id].messages, FALSE)
       \/ Present(memory[id]) /\ Expired(memory[id]) /\ Goes(r, id, "evict")
       \/ ~Present(memory[id]) /\ Goes(r, id, "stat")
    /\ UNCHANGED <<memory, disk, writes, removals, handler, sweeper, faults,
                   owed, putAge, touched, taken>>

\* The lock was released in between: whatever entry is there now goes.
GetEvict(r) ==
    LET id == reader[r].id IN
    /\ reader[r].pc = "evict"
    /\ memory' = [memory EXCEPT ![id] = NoEntry]
    /\ removals' = Spawned(id)
    /\ Answered(r, id, None, Overtaken(r))
    /\ displaced' = Displaced(id, Overtaken(r))
    /\ UNCHANGED <<disk, writes, handler, sweeper, faults, owed, putAge, touched,
                   spoiled>>

\* load_messages_from_disk: the age of the file, 0 when it has no metadata.
GetStat(r) ==
    LET id  == reader[r].id
        age == IF Present(disk[id]) THEN disk[id].age ELSE 0
    IN
    /\ reader[r].pc = "stat"
    /\ \/ /\ age > TTL
          /\ removals' = Spawned(id)
          /\ Answered(r, id, None, Overtaken(r))
       \/ /\ age <= TTL
          /\ reader' = [reader EXCEPT ![r].pc = "read", ![r].age = age]
          /\ UNCHANGED <<removals, answer>>
    /\ UNCHANGED <<memory, disk, writes, handler, sweeper, faults, owed, putAge,
                   touched, taken>>

\* Mutant: what does not parse is kept.
Parsed_KeepsHoles(lines) == lines

\* read_messages skips what does not parse: a hole, with the line it runs into.
Parsed(lines) ==
    LET Whole(k) == lines[k] # Hole /\ (k = 1 \/ lines[k - 1] # Hole)
        good == {k \in DOMAIN lines : Whole(k)}
    IN  [j \in 1..Cardinality(good) |->
            lines[CHOOSE k \in good : Cardinality({i \in good : i <= k}) = j]]

GetRead(r) ==
    LET id == reader[r].id IN
    /\ reader[r].pc = "read"
    /\ \/ ~Present(disk[id]) /\ Answered(r, id, None, Overtaken(r))
       \/ /\ Present(disk[id])
          /\ reader' = [reader EXCEPT ![r].pc = "insert",
                                      ![r].found = Parsed(disk[id].lines)]
          /\ UNCHANGED answer
    /\ UNCHANGED <<memory, disk, writes, removals, handler, sweeper, faults,
                   owed, putAge, touched, taken>>

\* Mutant: loading from the disk starts a fresh lifetime.
GetInsert_Renewed(r) ==
    LET id == reader[r].id IN
    /\ reader[r].pc = "insert"
    /\ memory' = [memory EXCEPT ![id] = [messages |-> reader[r].found, age |-> 0]]
    /\ Answered(r, id, reader[r].found, Overtaken(r))
    /\ displaced' = Displaced(id, Overtaken(r))
    /\ UNCHANGED <<disk, writes, removals, handler, sweeper, faults, owed,
                   putAge, touched, spoiled>>

\* The entry keeps the age the file had, and replaces whatever is there by now.
GetInsert(r) ==
    LET id == reader[r].id IN
    /\ reader[r].pc = "insert"
    /\ memory' = [memory EXCEPT ![id] = [messages |-> reader[r].found,
                                         age |-> reader[r].age]]
    /\ Answered(r, id, reader[r].found, Overtaken(r))
    /\ displaced' = Displaced(id, Overtaken(r))
    /\ UNCHANGED <<disk, writes, removals, handler, sweeper, faults, owed,
                   putAge, touched, spoiled>>

-----------------------------------------------------------------------------
(* sweep_expired                                                           *)

\* The expired keys, collected under the read lock.
SweepCollect ==
    /\ sweeper.pc = "idle"
    /\ LET old == {id \in Ids : Present(memory[id]) /\ Expired(memory[id])} IN
       sweeper' = [pc |-> "memory", files |-> {}, todo |-> old,
                   seen |-> [id \in Ids |-> IF id \in old THEN handler[id].puts
                                                         ELSE 0]]
    /\ UNCHANGED <<memory, disk, writes, removals, handler, reader, faults, history>>

\* Each is removed under a write lock of its own, without a second look.
SweepEvict(id) ==
    /\ sweeper.pc = "memory"
    /\ id \in sweeper.todo
    /\ memory' = [memory EXCEPT ![id] = NoEntry]
    /\ removals' = Spawned(id)
    /\ sweeper' = [sweeper EXCEPT !.todo = @ \ {id}, !.seen[id] = 0]
    /\ displaced' = Displaced(id, handler[id].puts > sweeper.seen[id])
    /\ UNCHANGED <<disk, writes, handler, reader, faults, owed, putAge, touched,
                   answer, spoiled>>

\* Mutant: the sweep covers the memory map only.
SweepOpenDir_MemoryOnly ==
    /\ sweeper.pc = "memory"
    /\ sweeper.todo = {}
    /\ sweeper' = [NoSweep EXCEPT !.pc = "files"]
    /\ UNCHANGED <<memory, disk, writes, removals, handler, reader, faults, history>>

\* Then sweep_stale_files walks the directory.
SweepOpenDir ==
    /\ sweeper.pc = "memory"
    /\ sweeper.todo = {}
    /\ sweeper' = [NoSweep EXCEPT !.pc = "files",
                                  !.files = {id \in Ids : Present(disk[id])}]
    /\ UNCHANGED <<memory, disk, writes, removals, handler, reader, faults, history>>

\* It looks at the age of one file ...
SweepStat(id) ==
    /\ sweeper.pc = "files"
    /\ id \in sweeper.files
    /\ sweeper' = IF Expired(disk[id])
                  THEN [sweeper EXCEPT !.pc = "unlink", !.todo = {id},
                                       !.files = @ \ {id}]
                  ELSE [sweeper EXCEPT !.files = @ \ {id}]
    /\ UNCHANGED <<memory, disk, writes, removals, handler, reader, faults, history>>

\* ... and then removes it.
SweepUnlink(id) ==
    /\ sweeper.pc = "unlink"
    /\ id \in sweeper.todo
    /\ Unlink(id)
    /\ sweeper' = [sweeper EXCEPT !.pc = "files", !.todo = {}]
    /\ UNCHANGED <<memory, removals, handler, reader, faults, history>>

SweepDone ==
    /\ sweeper.pc = "files"
    /\ sweeper.files = {}
    /\ sweeper' = NoSweep
    /\ UNCHANGED <<memory, disk, writes, removals, handler, reader, faults, history>>

-----------------------------------------------------------------------------
(* Time and crashes                                                        *)

\* Files and gets are quick against the TTL: see MaxWriteTicks, MaxReadTicks.
Tick ==
    /\ \A w \in writes : w.ticks < MaxWriteTicks
    /\ \A id \in Ids : handler[id].pc # "inserted"
    /\ \A r \in Readers : reader[r].pc # "idle" => reader[r].ticks < MaxReadTicks
    /\ memory' = [id \in Ids |-> [memory[id] EXCEPT !.age = Older(@, TTL)]]
    /\ disk' = [id \in Ids |-> [disk[id] EXCEPT !.age = Older(@, TTL)]]
    /\ writes' = {[w EXCEPT !.ticks = @ + 1] : w \in writes}
    /\ reader' = [r \in Readers |->
                     IF reader[r].pc = "idle" THEN reader[r]
                     ELSE [reader[r] EXCEPT !.ticks = @ + 1]]
    /\ putAge' = [id \in Ids |-> Older(putAge[id], TTL)]
    /\ touched' = [id \in Ids |-> Older(touched[id], TTL + MaxReadTicks)]
    /\ answer' = NoAnswer
    /\ UNCHANGED <<removals, handler, sweeper, faults, owed, taken>>

\* The process dies and starts again: the files are all that is left.
Crash ==
    /\ faults < MaxFaults
    /\ faults' = faults + 1
    /\ memory' = [id \in Ids |-> NoEntry]
    /\ writes' = {}
    /\ removals' = [id \in Ids |-> 0]
    /\ handler' = [id \in Ids |-> IF handler[id].puts > 0
                                  THEN [handler[id] EXCEPT !.pc = "gone"]
                                  ELSE handler[id]]
    /\ reader' = [r \in Readers |-> Idle]
    /\ sweeper' = NoSweep
    /\ owed' = [id \in Ids |-> 0]
    /\ displaced' = {}
    /\ UNCHANGED <<disk, putAge, touched, answer, spoiled>>

PutStep   == \E id \in Ids : PutInsert(id) \/ PutSpawn(id)
DiskStep  == \/ \E w \in writes : WriteOpen(w) \/ WriteLine(w)
             \/ \E id \in Ids : RemoveFile(id)
GetStep(r) == GetEvict(r) \/ GetStat(r) \/ GetRead(r) \/ GetInsert(r)
SweepStep == \/ SweepCollect \/ SweepOpenDir \/ SweepDone
             \/ \E id \in Ids : SweepEvict(id) \/ SweepStat(id) \/ SweepUnlink(id)

Next ==
    \/ PutStep
    \/ DiskStep
    \/ \E w \in writes : WriteFails(w)
    \/ \E r \in Readers : GetStep(r) \/ \E id \in Ids : GetLookup(r, id)
    \/ SweepStep
    \/ Tick
    \/ Crash

Spec == Init /\ [][Next]_vars

\* Spawned tasks, gets that were started, and the sweep task (an endless loop
\* over an interval timer) all run; time passes.
Fairness ==
    /\ WF_vars(Tick)
    /\ WF_vars(\E w \in writes : WriteOpen(w) \/ WriteLine(w))
    /\ \A id \in Ids : WF_vars(RemoveFile(id))
    /\ WF_vars(SweepStep)
    /\ WF_vars(\E id \in Ids : PutSpawn(id))
    /\ \A r \in Readers : WF_vars(GetStep(r))

FairSpec == Spec /\ Fairness

-----------------------------------------------------------------------------
(* Properties                                                              *)

Lines == 1..(MaxPuts + 2)

EntryType == [messages : Seq(Lines), age : -1..(TTL + 1)]

WriteType == [id : Ids, put : 0..MaxPuts, messages : Seq(Lines),
              next : Nat, attached : BOOLEAN, ticks : 0..MaxWriteTicks]

HandlerType == [puts : 0..MaxPuts, pc : {"running", "inserted", "gone"},
                alone : BOOLEAN]

ReaderType == [pc : {"idle", "evict", "stat", "read", "insert"}, id : Ids,
               puts : 0..MaxPuts, age : 0..TTL, ticks : 0..MaxReadTicks,
               found : Seq(Lines)]

SweeperType == [pc : {"idle", "memory", "files", "unlink"}, todo : SUBSET Ids,
                files : SUBSET Ids, seen : [Ids -> 0..MaxPuts]]

\* The shape of the state.
TypeOK ==
    /\ memory \in [Ids -> EntryType]
    /\ disk \in [Ids -> [lines : Seq(Lines \cup {Hole}), age : -1..(TTL + 1)]]
    /\ writes \in SUBSET WriteType
    /\ \A w \in writes : w.next <= Len(w.messages)
    /\ removals \in [Ids -> 0..MaxPending]
    /\ handler \in [Ids -> HandlerType]
    /\ reader \in [Readers -> ReaderType]
    /\ sweeper \in SweeperType
    /\ faults \in 0..MaxFaults
    /\ owed \in [Ids -> 0..MaxPuts]
    /\ putAge \in [Ids -> 0..(TTL + 1)]
    /\ touched \in [Ids -> 0..(TTL + MaxReadTicks + 1)]
    /\ displaced \in SUBSET Ids
    /\ spoiled \in SUBSET Ids

\* Until it expires or the process dies, the map holds the last version put of
\* every id, and its age is that of the put.  Only a get or a sweep that had
\* looked at the map before that put, and acts after it, takes it away; a get
\* that looks later and finds it old, or misses it, never does.
MemoryHoldsLatest ==
    \A id \in Ids \ displaced :
        owed[id] > 0 /\ putAge[id] <= TTL =>
            memory[id] = [messages |-> Messages(id, owed[id]), age |-> putAge[id]]

\* The disk does not give history a second life: what a get answers was put or
\* written no longer ago than the TTL and the time of the get itself.
NoStaleAnswer == answer.messages # None => answer.age <= TTL + MaxReadTicks

Versions(id) == {Messages(id, v) : v \in 1..MaxPuts}

\* m is what is left of v when some of its messages are gone.
Thinned(m, v) ==
    \E at \in [DOMAIN m -> DOMAIN v] :
        \A i, j \in DOMAIN m : m[i] = v[at[i]] /\ (i < j => at[i] < at[j])

\* A get that no put overtook reads a file while nobody writes it, so that reading
\* it line by line, as the code does, answers nothing that GetRead does not.
ReadsAlone ==
    \A r \in Readers :
        reader[r].pc = "read" /\ ~Overtaken(r) /\ reader[r].id \notin displaced =>
            \A w \in writes : w.id # reader[r].id

\* A get that no put overtook, of an id from which no get or sweep took a put
\* and whose file no two writers mixed, answers one whole version of the history,
\* from memory or from the disk, or nothing.  After a crash or a failed write
\* messages may be missing, but none is answered twice or out of order.
AnswersAreWhole ==
    /\ ReadsAlone
    /\ LET versions == Versions(answer.id) IN
       answer.clean => IF faults = 0 THEN answer.messages \in versions
                       ELSE \E v \in versions : Thinned(answer.messages, v)

\* The puts of id so far begin with one another.
Extending(id) == handler[id].alone \/ handler[id].puts <= 1

\* Whoever was overtaken, and whatever failed: as long as the puts of an id begin
\* with one another, no message of it is answered twice or out of order.
AnswersAreOrdered ==
    LET m == answer.messages IN
    m # None /\ Extending(answer.id) => \A i, j \in DOMAIN m : i < j => m[i] < m[j]

\* Whatever the order in which the spawned writes of one id ran, the file they
\* leave is one whole version: as store.rs:3 says, "each entry is persisted as a
\* JSONL file".  It may be a mixture of two only where the second put does not
\* begin with the first, and its write began before the other had ended, or the
\* put was displaced before put() had read it back.
FilesSettleWhole ==
    faults = 0 =>
        \A id \in Ids \ spoiled :
            Present(disk[id]) /\ (\A w \in writes : w.id # id) =>
                disk[id].lines \in Versions(id)

\* What was put is answered, and left on the disk, whole.
HistoriesAreWhole == AnswersAreWhole /\ AnswersAreOrdered /\ FilesSettleWhole

\* Everything is forgotten in the end: no entry and no file outlives its puts
\* for ever, not even one that is never read.
Forgotten ==
    \A id \in Ids : <>[](~Present(memory[id]) /\ ~Present(disk[id]))

\* tests/store_files_integration.rs:146 "A genuine cache miss must be None, not
\* Some(vec![])": no get answers an empty history, as none is ever put.
MissIsNone == answer.messages # <<>>

\* store.rs:3 "Each entry is persisted as a JSONL file": the file that the writes
\* of an id leave is one of the versions put.
FilesAreWhole ==
    \A id \in Ids :
        Present(disk[id]) /\ (\A w \in writes : w.id # id) =>
            disk[id].lines \in Versions(id)

\* store.rs:155 "Returns None if not found or expired": what was put and has not
\* expired is there to be answered.
PutsAreHeld ==
    \A id \in Ids :
        owed[id] > 0 /\ putAge[id] <= TTL =>
            memory[id].messages = Messages(id, owed[id])
=============================================================================
