---------------------------- MODULE PriorityBuffer ----------------------------
(***************************************************************************)
(* The offline buffer of the agent (agent/internal/buffer/buffer.go): a    *)
(* bounded queue in memory, written whole to a file on every change, with   *)
(* the previous generation kept as a backup.                               *)
(*                                                                         *)
(* Every operation holds the mutex, so in memory it is one step; on disk it *)
(* is a sequence of renames that an error or the end of the process can     *)
(* interrupt.  Items are never reordered, so the queue is a set ordered by  *)
(* id, which is also the order of CreatedAt.                               *)
(***************************************************************************)
EXTENDS Integers, FiniteSets, FiniteSetsExt

CONSTANTS
  Priority,     \* the priorities in use, 1 (security) to 6 (inventory)
  Size,         \* sizes of payloads
  MaxBytes,     \* capacity
  MaxItems,     \* bound: items ever offered to the queue
  MaxCrashes,   \* bound: ends of the process
  MaxErrors     \* bound: errors of the file system

ASSUME PriorityAssumption == Priority \subseteq 1..6
ASSUME SizeAssumption == Size \subseteq Nat /\ MaxBytes \in Nat
ASSUME BufferBoundsAssumption == MaxItems \in Nat /\ MaxCrashes \in Nat /\ MaxErrors \in Nat

PriorityCriticalEvent == 2
PriorityMetrics       == 5

Id   == 1..MaxItems
Item == [id : Id, pri : Priority, size : Size]

\* A file: missing, torn by an interrupted write, or holding a queue.
File    == [state : {"missing", "torn", "ok"}, queue : SUBSET Item]
Missing == [state |-> "missing", queue |-> {}]
Torn    == [state |-> "torn", queue |-> {}]
Holding(S)  == [state |-> "ok", queue |-> S]
Readable(f) == f.state = "ok"

VARIABLES
  up,                \* the agent is running
  items,             \* the queue in memory
  primary, backup,   \* the two files
  next,              \* id of the next item
  accepted,          \* ids whose Enqueue returned nil
  removed,           \* ids whose Remove returned nil
  evicted,           \* ids given up for another item
  faults             \* faults so far, for the bounds; was a repair interrupted?

disk  == <<primary, backup>>
ghost == <<accepted, removed, evicted>>
vars  == <<up, items, disk, next, ghost, faults>>

Ids(S)   == {x.id : x \in S}
SizeOf(x) == x.size
Total(S) == MapThenSumSet(SizeOf, S)

Init ==
  /\ up = TRUE
  /\ items = {} /\ primary = Missing /\ backup = Missing
  /\ next = 1
  /\ accepted = {} /\ removed = {} /\ evicted = {}
  /\ faults = [crashes |-> 0, errors |-> 0, double |-> FALSE]

-----------------------------------------------------------------------------
(* Faults                                                                   *)

Crash == faults.crashes < MaxCrashes /\ faults' = [faults EXCEPT !.crashes = @ + 1]
Error == faults.errors < MaxErrors /\ faults' = [faults EXCEPT !.errors = @ + 1]

\* An error that strikes the repair of an earlier fault.
SecondError ==
  /\ faults.errors < MaxErrors
  /\ faults' = [faults EXCEPT !.errors = @ + 1, !.double = TRUE]

-----------------------------------------------------------------------------
(* saveToDisk: write the temporary file, drop the backup, rename the file to *)
(* the backup and the temporary file to the file.                           *)

Saved(new) == primary' = Holding(new) /\ backup' = primary

\* Mutant: the old file is deleted, not renamed to the backup.
UnsavedNoBackup == UNCHANGED disk \/ (primary' = Missing /\ backup' = Missing)

\* Where an interrupted save can stop, short of its last rename.
Unsaved ==
  \/ UNCHANGED disk
  \/ primary' = primary /\ backup' = Missing
  \/ primary' = Missing /\ backup' = primary

\* An error: nothing was renamed, or the first rename is taken back, unless that
\* fails too.
SaveFails ==
  \/ Error /\ UNCHANGED disk
  \/ Error /\ primary' = primary /\ backup' = Missing
  \/ SecondError /\ primary' = Missing /\ backup' = primary

-----------------------------------------------------------------------------
(* Enqueue                                                                  *)

\* Mutant: eviction by age only.
WorseByAge(x, y) == x.id < y.id

\* x is evicted before y: it is less important, or as important and older.
Worse(x, y) == x.pri > y.pri \/ (x.pri = y.pri /\ x.id < y.id)

\* Mutant: the size of the new item is forgotten.
FitsWithout(S, x) == Total(S) <= MaxBytes

\* The loop ends: x fits, there is nothing left, or x is to be dropped.
Fits(S, x)   == Total(S) + x.size <= MaxBytes
Drops(S, x)  == ~Fits(S, x) /\ S # {} /\ x.pri >= PriorityMetrics /\ \A y \in S : y.pri <= x.pri
Enough(S, x) == Fits(S, x) \/ S = {} \/ Drops(S, x)

\* What the loop leaves of S for x.  Both of its branches evict the first item
\* of the lowest importance present: evictOneLowerPriority when that is below
\* the importance of x, evictLowestAvailable when it is not.
Tails(S) == {T \in SUBSET S : \A y \in S \ T, z \in T : Worse(y, z)}
Kept(S, x) == {T \in Tails(S) : /\ Enough(T, x)
                                /\ \A U \in Tails(S) : Enough(U, x) => U \subseteq T}

Offered(p, z) == [id |-> next, pri |-> p, size |-> z]

\* "buffer full, dropped": what was evicted on the way stays evicted, in memory.
EnqueueDropped(p, z) ==
  LET x == Offered(p, z) IN
  /\ up /\ next \in Id
  /\ next' = next + 1
  /\ \E T \in Kept(items, x) :
       /\ Drops(T, x)
       /\ items' = T
       /\ evicted' = evicted \cup Ids(items \ T)
  /\ UNCHANGED <<up, disk, accepted, removed, faults>>

Enqueue(p, z) ==
  LET x == Offered(p, z) IN
  /\ up /\ next \in Id
  /\ next' = next + 1
  /\ \E T \in Kept(items, x) :
       /\ ~Drops(T, x)
       /\ items' = T \cup {x}
       /\ Saved(T \cup {x})
       /\ evicted' = evicted \cup Ids(items \ T)
  /\ accepted' = accepted \cup {next}
  /\ UNCHANGED <<up, removed, faults>>

\* The save failed: the queue is put back as it was.
EnqueueFails(p, z) ==
  LET x == Offered(p, z) IN
  /\ up /\ next \in Id
  /\ next' = next + 1
  /\ \E T \in Kept(items, x) : ~Drops(T, x)
  /\ SaveFails
  /\ UNCHANGED <<up, items, ghost>>

\* The process ends in the middle of the save, or before Enqueue returned.
EnqueueCrashes(p, z) ==
  LET x == Offered(p, z) IN
  /\ up /\ next \in Id
  /\ next' = next + 1
  /\ Crash /\ up' = FALSE /\ items' = {}
  /\ \E T \in Kept(items, x) :
       /\ ~Drops(T, x)
       /\ \/ Unsaved /\ UNCHANGED evicted
          \/ Saved(T \cup {x}) /\ evicted' = evicted \cup Ids(items \ T)
  /\ UNCHANGED <<accepted, removed>>

-----------------------------------------------------------------------------
(* Remove, called by the flush when an item was delivered or refused        *)

Remove(x) ==
  /\ up /\ x \in items
  /\ items' = items \ {x}
  /\ Saved(items \ {x})
  /\ removed' = removed \cup {x.id}
  /\ UNCHANGED <<up, next, accepted, evicted, faults>>

RemoveFails(x) ==
  /\ up /\ x \in items
  /\ SaveFails
  /\ UNCHANGED <<up, items, next, ghost>>

RemoveCrashes(x) ==
  /\ up /\ x \in items
  /\ Crash /\ up' = FALSE /\ items' = {}
  /\ \/ Unsaved /\ UNCHANGED removed
     \/ Saved(items \ {x}) /\ removed' = removed \cup {x.id}
  /\ UNCHANGED <<next, accepted, evicted>>

-----------------------------------------------------------------------------
(* NewPriorityBuffer and loadFromDisk                                       *)

Stop ==
  /\ up
  /\ Crash /\ up' = FALSE /\ items' = {}
  /\ UNCHANGED <<disk, next, ghost>>

\* Mutant: the backup is preferred to the file.
LoadBackup ==
  /\ ~up /\ Readable(backup)
  /\ up' = TRUE /\ items' = backup.queue
  /\ UNCHANGED <<disk, next, ghost, faults>>

Load ==
  /\ ~up /\ Readable(primary)
  /\ up' = TRUE /\ items' = primary.queue
  /\ UNCHANGED <<disk, next, ghost, faults>>

\* A primary that is missing or unreadable is rewritten from the backup.
Recover ==
  /\ ~up /\ ~Readable(primary) /\ Readable(backup)
  /\ up' = TRUE /\ items' = backup.queue /\ primary' = backup
  /\ UNCHANGED <<backup, next, ghost, faults>>

\* The rewriting fails: what was loaded is forgotten, the primary put aside.
RecoverFails ==
  /\ ~up /\ ~Readable(primary) /\ Readable(backup)
  /\ SecondError
  /\ up' = TRUE /\ items' = {} /\ primary' = Missing
  /\ UNCHANGED <<backup, next, ghost>>

RecoverCrashes ==
  /\ ~up /\ ~Readable(primary) /\ Readable(backup)
  /\ Crash /\ primary' = Torn
  /\ UNCHANGED <<up, items, backup, next, ghost>>

LoadNothing ==
  /\ ~up /\ ~Readable(primary) /\ ~Readable(backup)
  /\ up' = TRUE /\ items' = {}
  /\ primary' = IF backup = Torn THEN Missing ELSE primary
  /\ UNCHANGED <<backup, next, ghost, faults>>

Offer(p, z) == EnqueueDropped(p, z) \/ Enqueue(p, z) \/ EnqueueFails(p, z) \/ EnqueueCrashes(p, z)
Start == Load \/ Recover \/ RecoverFails \/ RecoverCrashes \/ LoadNothing

Next ==
  \/ \E p \in Priority, z \in Size : Offer(p, z)
  \/ \E x \in items : Remove(x) \/ RemoveFails(x) \/ RemoveCrashes(x)
  \/ Stop \/ Start

Spec == Init /\ [][Next]_vars

-----------------------------------------------------------------------------
(* Properties                                                               *)

\* The values of the queue, of its files and of the history.
TypeOK ==
  /\ up \in BOOLEAN
  /\ items \subseteq Item
  /\ primary \in File /\ backup \in File
  /\ next \in 1..(MaxItems + 1)
  /\ accepted \subseteq Id /\ removed \subseteq Id /\ evicted \subseteq Id
  /\ faults \in [crashes : Nat, errors : Nat, double : BOOLEAN]

\* What the buffer answers for.
Owed == accepted \ (removed \cup evicted)

\* What the next start of the agent would load.
OnDisk == IF Readable(primary) THEN primary.queue
          ELSE IF Readable(backup) THEN backup.queue ELSE {}

\* An item whose Enqueue returned nil is in the file or its backup, and in the
\* queue while the agent runs, until it is removed or evicted: whatever save
\* fails and wherever the process ends, in the recovery itself included.  Only
\* an error that strikes the repair of an earlier fault can lose it.
Durable == ~faults.double =>
  /\ Owed \subseteq Ids(OnDisk)
  /\ up => Owed \subseteq Ids(items)

\* An item whose removal returned nil never comes back from an old generation
\* of the file, so that a delivered item is not delivered again after a restart.
RemovedStaysRemoved == removed \cap (Ids(items) \cup Ids(OnDisk)) = {}

\* The queue never outgrows its capacity, whatever is evicted, put back after a
\* failed save or loaded from a backup.
WithinCapacity ==
  (\A z \in Size : z <= MaxBytes) => Total(items) <= MaxBytes /\ Total(OnDisk) <= MaxBytes

\* A step gives up no security or critical event while metrics or inventories stay
\* in the queue.
SparesCritical ==
  \A x \in items :
    x.id \in evicted' \ evicted /\ x.pri <= PriorityCriticalEvent =>
      \A y \in items' : y.pri < PriorityMetrics

\* The buffer is a durable queue: whatever its files go through, what the agent
\* sees is one of the few steps of DurableQueue.
Queue == INSTANCE DurableQueue WITH live <- items, stored <- OnDisk, lost <- faults.double
ImplementsDurableQueue == Queue!Spec

-----------------------------------------------------------------------------
(***************************************************************************)
(* The inductive invariant.  A set is sound when it could be the queue: it *)
(* holds nothing that was removed and one item per id handed out.  It is   *)
(* complete when it holds what is owed.                                    *)
(***************************************************************************)
Sound(S) ==
  /\ removed \cap Ids(S) = {}
  /\ \A x, y \in S : x.id = y.id => x = y
  /\ \A x \in S : x.id < next

Complete(S) == faults.double \/ Owed \subseteq Ids(S)

FilesInv ==
  /\ primary # Torn => Readable(primary) \/ primary = Missing
  /\ Readable(backup) \/ backup = Missing
  /\ primary = Torn => ~up /\ Readable(backup)
  /\ up /\ primary = Missing => faults.double \/ backup = Missing

IInv ==
  /\ TypeOK /\ FilesInv
  /\ Sound(OnDisk) /\ Complete(OnDisk)
  /\ up => Sound(items) /\ Complete(items)
  /\ ~up => items = {}
  /\ \A i \in removed : i < next
=============================================================================
