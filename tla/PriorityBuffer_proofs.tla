------------------------- MODULE PriorityBuffer_proofs -------------------------
(***************************************************************************)
(* What is proved of the offline buffer, for every capacity, every number  *)
(* of items and every number of faults: an accepted item survives them, a  *)
(* removed item does not come back, and the queue stays within capacity.   *)
(***************************************************************************)
EXTENDS PriorityBuffer, TLAPS, FiniteSetTheorems, WellFoundedInduction

\* Kept leaves a part of the queue.
LEMMA KeptIsPart ==
  ASSUME NEW S, NEW x, NEW T \in Kept(S, x)
  PROVE  T \subseteq S
BY DEF Kept, Tails

\* The item offered is an item, and new.
LEMMA OfferedType ==
  ASSUME next \in Id, NEW p \in Priority, NEW z \in Size
  PROVE  Offered(p, z) \in Item /\ Offered(p, z).id = next
BY DEF Offered, Item

-----------------------------------------------------------------------------
(* Sound and complete sets, with the history they refer to as parameters    *)

SoundFor(S, rem, n) ==
  /\ rem \cap Ids(S) = {}
  /\ \A x, y \in S : x.id = y.id => x = y
  /\ \A x \in S : x.id < n

CompleteFor(S, acc, rem, ev) == acc \ (rem \cup ev) \subseteq Ids(S)

\* A part of a sound set is sound, later too.
LEMMA SoundPart ==
  ASSUME NEW S \in SUBSET Item, NEW T \in SUBSET S, NEW rem, NEW n \in Nat, NEW m \in {n, n + 1},
         SoundFor(S, rem, n)
  PROVE  SoundFor(T, rem, m)
<1>1. ASSUME NEW x \in T PROVE x.id \in Int BY DEF Item, Id
<1> QED BY <1>1 DEF SoundFor, Ids

\* So is what remains of it when an item is removed.
LEMMA SoundRemoved ==
  ASSUME NEW S \in SUBSET Item, NEW x \in S, NEW rem, NEW n, SoundFor(S, rem, n)
  PROVE  SoundFor(S \ {x}, rem \cup {x.id}, n)
BY DEF SoundFor, Ids

\* And a part of it with a new item.
LEMMA SoundAdded ==
  ASSUME NEW S \in SUBSET Item, NEW T \in SUBSET S, NEW rem, NEW n \in Nat,
         SoundFor(S, rem, n), NEW x, x.id = n, \A i \in rem : i < n, rem \subseteq Nat
  PROVE  SoundFor(T \cup {x}, rem, n + 1)
<1>1. ASSUME NEW y \in T PROVE y.id \in Int /\ y.id < n BY DEF Item, Id, SoundFor
<1>2. n \notin rem BY SMT
<1> QED BY <1>1, <1>2 DEF SoundFor, Ids

\* What is evicted is no longer owed.
LEMMA CompletePart ==
  ASSUME NEW S, NEW T, NEW acc, NEW rem, NEW ev, CompleteFor(S, acc, rem, ev)
  PROVE  CompleteFor(T, acc, rem, ev \cup Ids(S \ T))
BY DEF CompleteFor, Ids

\* Nor is what is removed.
LEMMA CompleteRemoved ==
  ASSUME NEW S, NEW x \in S, NEW acc, NEW rem, NEW ev, CompleteFor(S, acc, rem, ev)
  PROVE  CompleteFor(S \ {x}, acc, rem \cup {x.id}, ev)
BY DEF CompleteFor, Ids

\* A new item is owed, and there.
LEMMA CompleteAdded ==
  ASSUME NEW S, NEW T, NEW acc, NEW rem, NEW ev, CompleteFor(S, acc, rem, ev), NEW x
  PROVE  /\ CompleteFor(T \cup {x}, acc \cup {x.id}, rem, ev \cup Ids(S \ T))
         /\ CompleteFor(T \cup {x}, acc, rem, ev \cup Ids(S \ T))
BY DEF CompleteFor, Ids

\* The invariant says as much of the queue and of the files.
LEMMA Both ==
  /\ Sound(items)' <=> SoundFor(items', removed', next')
  /\ Sound(OnDisk)' <=> SoundFor(OnDisk', removed', next')
  /\ Complete(items)' <=> (faults'.double \/ CompleteFor(items', accepted', removed', evicted'))
  /\ Complete(OnDisk)' <=> (faults'.double \/ CompleteFor(OnDisk', accepted', removed', evicted'))
  /\ Sound(items) <=> SoundFor(items, removed, next)
  /\ Sound(OnDisk) <=> SoundFor(OnDisk, removed, next)
  /\ Complete(items) <=> (faults.double \/ CompleteFor(items, accepted, removed, evicted))
  /\ Complete(OnDisk) <=> (faults.double \/ CompleteFor(OnDisk, accepted, removed, evicted))
BY DEF Sound, Complete, SoundFor, CompleteFor, Owed, Ids

-----------------------------------------------------------------------------
(* The files                                                                *)

\* What is on disk is a set of items.
LEMMA OnDiskType == TypeOK => OnDisk \subseteq Item
BY DEF TypeOK, OnDisk, File

\* A complete save.
LEMMA SavedFiles ==
  ASSUME IInv, up, NEW new \in SUBSET Item, Saved(new)
  PROVE  /\ primary' \in File /\ backup' \in File
         /\ OnDisk' = new /\ FilesInv'
BY DEF IInv, TypeOK, FilesInv, Saved, OnDisk, Readable, Missing, Torn, File, Holding

\* An interrupted save leaves the queue loadable as it was, unless an earlier
\* repair had failed.
LEMMA UnsavedFiles ==
  ASSUME IInv, up, Unsaved, up' = FALSE
  PROVE  /\ primary' \in File /\ backup' \in File /\ FilesInv'
         /\ OnDisk' = OnDisk \/ (faults.double /\ OnDisk' = {})
BY DEF IInv, TypeOK, FilesInv, Unsaved, OnDisk, Readable, Missing, Torn, File, disk

\* An error during a repair is remembered.
LEMMA SecondErrorType ==
  ASSUME TypeOK, SecondError
  PROVE  faults'.double = TRUE /\ faults' \in [crashes : Nat, errors : Nat, double : BOOLEAN]
<1>1. faults \in [crashes : Nat, errors : Nat, double : BOOLEAN] BY DEF TypeOK
<1>2. PICK f : f = [faults EXCEPT !.errors = @ + 1] OBVIOUS
<1>3. f \in [crashes : Nat, errors : Nat, double : BOOLEAN] BY <1>1, <1>2
<1>4. faults' = [f EXCEPT !.double = TRUE] BY <1>2 DEF SecondError
<1> QED BY <1>3, <1>4

\* A failed save, its own rollback included.
LEMMA FailedFiles ==
  ASSUME IInv, up, SaveFails, up' = up
  PROVE  /\ primary' \in File /\ backup' \in File /\ FilesInv'
         /\ faults' \in [crashes : Nat, errors : Nat, double : BOOLEAN]
         /\ faults.double => faults'.double
         /\ OnDisk' = OnDisk \/ (faults'.double /\ OnDisk' = {})
<1> USE DEF IInv, TypeOK, FilesInv, OnDisk, Readable, Missing, Torn, File, disk
<1>1. CASE Error /\ UNCHANGED disk BY <1>1 DEF Error
<1>2. CASE Error /\ primary' = primary /\ backup' = Missing BY <1>2 DEF Error
<1>3. CASE SecondError /\ primary' = Missing /\ backup' = primary
  <2>1. faults'.double = TRUE /\ faults' \in [crashes : Nat, errors : Nat, double : BOOLEAN]
    BY <1>3, SecondErrorType
  <2>2. primary' \in File /\ backup' \in File BY <1>3
  <2>3. FilesInv' BY <1>3, <2>1
  <2>4. OnDisk' = OnDisk \/ OnDisk' = {} BY <1>3
  <2> QED BY <2>1, <2>2, <2>3, <2>4
<1> QED BY <1>1, <1>2, <1>3 DEF SaveFails

\* The empty set is sound.
LEMMA SoundEmpty == ASSUME NEW rem, NEW n PROVE SoundFor({}, rem, n)
BY DEF SoundFor, Ids

-----------------------------------------------------------------------------
(* Steps                                                                    *)

\* The end of the process: nothing is left in memory.
LEMMA DownStep ==
  ASSUME IInv, up' = FALSE, items' = {}, TypeOK', FilesInv',
         Sound(OnDisk)', Complete(OnDisk)', \A i \in removed' : i < next'
  PROVE  IInv'
BY DEF IInv

\* Offering an item.
LEMMA OfferStep ==
  ASSUME IInv, NEW p \in Priority, NEW z \in Size, Offer(p, z)
  PROVE  IInv'
<1> DEFINE x == Offered(p, z)
<1>0. /\ up /\ next \in Id /\ next' = next + 1 /\ removed' = removed
      BY DEF Offer, EnqueueDropped, Enqueue, EnqueueFails, EnqueueCrashes, ghost
<1>1. next \in Nat /\ next' \in 1..(MaxItems + 1) /\ next' \in {next, next + 1}
  BY <1>0, BufferBoundsAssumption DEF Id
<1>2. x \in Item /\ x.id = next BY <1>0, OfferedType
<1>3. /\ \A i \in removed : i < next
      /\ \A i \in removed' : i < next'
  BY <1>0, <1>1 DEF IInv, TypeOK, Id
<1>4. /\ items \in SUBSET Item /\ OnDisk \in SUBSET Item /\ removed \subseteq Nat
      /\ accepted \subseteq Id /\ evicted \subseteq Id
  BY OnDiskType DEF IInv, TypeOK, Id
<1>5. /\ SoundFor(items, removed, next) /\ SoundFor(OnDisk, removed, next)
      /\ faults.double \/ CompleteFor(items, accepted, removed, evicted)
      /\ faults.double \/ CompleteFor(OnDisk, accepted, removed, evicted)
  BY <1>0, Both DEF IInv
<1> HIDE DEF x
<1>6. ASSUME NEW T \in Kept(items, x)
      PROVE  /\ T \subseteq items /\ T \cup {x} \in SUBSET Item
             /\ Ids(items \ T) \subseteq Id
             /\ SoundFor(T, removed, next') /\ SoundFor(T \cup {x}, removed, next')
  <2>1. T \subseteq items BY <1>6, KeptIsPart
  <2>2. T \cup {x} \in SUBSET Item BY <1>2, <1>4, <2>1
  <2>3. Ids(items \ T) \subseteq Id BY <1>4 DEF Ids, Item
  <2>4. SoundFor(T, removed, next') BY <1>1, <1>4, <1>5, <2>1, SoundPart
  <2>5. SoundFor(T \cup {x}, removed, next + 1) BY <1>1, <1>2, <1>3, <1>4, <1>5, <2>1, SoundAdded
  <2> QED BY <1>0, <2>1, <2>2, <2>3, <2>4, <2>5
<1>7. SoundFor(OnDisk, removed, next') /\ SoundFor(items, removed, next')
  BY <1>1, <1>4, <1>5, SoundPart
<1>8. CASE EnqueueDropped(p, z)
  <2>1. PICK T \in Kept(items, x) : items' = T /\ evicted' = evicted \cup Ids(items \ T)
    BY <1>8 DEF EnqueueDropped, x
  <2>2. UNCHANGED <<up, disk, accepted, faults>> BY <1>8 DEF EnqueueDropped
  <2>3. OnDisk' = OnDisk BY <2>2 DEF OnDisk, disk
  <2>4. TypeOK' BY <1>0, <1>1, <1>4, <1>6, <2>1, <2>2 DEF IInv, TypeOK, disk
  <2>5. FilesInv' BY <2>2 DEF IInv, FilesInv, disk
  <2>6. Sound(items)' /\ Sound(OnDisk)' BY <1>0, <1>6, <1>7, <2>1, <2>3, Both
  <2>7. Complete(items)' BY <1>0, <1>5, <2>1, <2>2, CompletePart, Both
  <2>8. Complete(OnDisk)'
    BY <1>0, <1>5, <2>1, <2>2, <2>3, Both DEF CompleteFor
  <2> QED BY <1>0, <1>3, <2>2, <2>4, <2>5, <2>6, <2>7, <2>8 DEF IInv
<1>9. CASE Enqueue(p, z)
  <2>1. PICK T \in Kept(items, x) : /\ items' = T \cup {x} /\ Saved(T \cup {x})
                                    /\ evicted' = evicted \cup Ids(items \ T)
    BY <1>9 DEF Enqueue, x
  <2>2. accepted' = accepted \cup {x.id} /\ UNCHANGED <<up, faults>> BY <1>2, <1>9 DEF Enqueue
  <2>3. primary' \in File /\ backup' \in File /\ OnDisk' = items' /\ FilesInv'
    BY <1>0, <1>6, <2>1, SavedFiles
  <2>4. TypeOK' BY <1>0, <1>1, <1>2, <1>4, <1>6, <2>1, <2>2, <2>3 DEF IInv, TypeOK
  <2>5. Sound(items)' /\ Sound(OnDisk)' BY <1>0, <1>6, <2>1, <2>3, Both
  <2>6. Complete(items)' /\ Complete(OnDisk)'
    BY <1>0, <1>5, <2>1, <2>2, <2>3, CompleteAdded, Both
  <2> QED BY <1>0, <1>3, <2>2, <2>3, <2>4, <2>5, <2>6 DEF IInv
<1>10. CASE EnqueueFails(p, z)
  <2>1. SaveFails /\ UNCHANGED <<up, items, ghost>> BY <1>10 DEF EnqueueFails
  <2>2. /\ primary' \in File /\ backup' \in File /\ FilesInv'
        /\ faults' \in [crashes : Nat, errors : Nat, double : BOOLEAN]
        /\ faults.double => faults'.double
        /\ OnDisk' = OnDisk \/ (faults'.double /\ OnDisk' = {})
    BY <1>0, <2>1, FailedFiles
  <2>3. TypeOK' BY <1>1, <1>4, <2>1, <2>2 DEF IInv, TypeOK, ghost
  <2>4. Sound(items)' /\ Sound(OnDisk)' BY <1>7, <2>1, <2>2, SoundEmpty, Both DEF ghost
  <2>5. Complete(items)' /\ Complete(OnDisk)' BY <1>5, <2>1, <2>2, Both DEF ghost
  <2> QED BY <1>0, <1>3, <2>1, <2>2, <2>3, <2>4, <2>5 DEF IInv
<1>11. CASE EnqueueCrashes(p, z)
  <2>1. /\ Crash /\ up' = FALSE /\ items' = {} /\ accepted' = accepted
        /\ \/ Unsaved /\ UNCHANGED evicted
           \/ \E T \in Kept(items, x) :
                Saved(T \cup {x}) /\ evicted' = evicted \cup Ids(items \ T)
    BY <1>11 DEF EnqueueCrashes, x
  <2>2. faults' \in [crashes : Nat, errors : Nat, double : BOOLEAN] /\ faults'.double = faults.double
    BY <2>1 DEF Crash, IInv, TypeOK
  <2>3. CASE Unsaved /\ UNCHANGED evicted
    <3>1. /\ primary' \in File /\ backup' \in File /\ FilesInv'
          /\ OnDisk' = OnDisk \/ (faults.double /\ OnDisk' = {})
      BY <1>0, <2>1, <2>3, UnsavedFiles
    <3>2. TypeOK' BY <1>0, <1>1, <1>4, <2>1, <2>2, <2>3, <3>1 DEF IInv, TypeOK
    <3>3. Sound(OnDisk)' BY <1>0, <1>7, <3>1, SoundEmpty, Both
    <3>4. Complete(OnDisk)' BY <1>0, <1>5, <2>1, <2>2, <2>3, <3>1, Both
    <3> QED BY <1>3, <2>1, <3>1, <3>2, <3>3, <3>4, DownStep
  <2>4. CASE \E T \in Kept(items, x) :
               Saved(T \cup {x}) /\ evicted' = evicted \cup Ids(items \ T)
    <3>1. PICK T \in Kept(items, x) :
            Saved(T \cup {x}) /\ evicted' = evicted \cup Ids(items \ T)
      BY <2>4
    <3>2. primary' \in File /\ backup' \in File /\ OnDisk' = T \cup {x} /\ FilesInv'
      BY <1>0, <1>6, <3>1, SavedFiles
    <3>3. TypeOK' BY <1>0, <1>1, <1>4, <1>6, <2>1, <2>2, <3>1, <3>2 DEF IInv, TypeOK
    <3>4. Sound(OnDisk)' BY <1>0, <1>6, <3>1, <3>2, Both
    <3>5. Complete(OnDisk)' BY <1>0, <1>5, <2>1, <2>2, <3>1, <3>2, CompleteAdded, Both
    <3> QED BY <1>3, <2>1, <3>2, <3>3, <3>4, <3>5, DownStep
  <2> QED BY <2>1, <2>3, <2>4
<1> QED BY <1>8, <1>9, <1>10, <1>11 DEF Offer

\* Removing an item.
LEMMA RemoveStep ==
  ASSUME IInv, NEW x \in items, Remove(x) \/ RemoveFails(x) \/ RemoveCrashes(x)
  PROVE  IInv'
<1>0. up /\ UNCHANGED <<next, accepted, evicted>> BY DEF Remove, RemoveFails, RemoveCrashes, ghost
<1>1. /\ next \in 1..(MaxItems + 1) /\ next \in Nat
      /\ items \in SUBSET Item /\ OnDisk \in SUBSET Item
      /\ accepted \subseteq Id /\ removed \subseteq Id /\ evicted \subseteq Id
      /\ x.id \in Id /\ x.id < next
  BY <1>0, OnDiskType, BufferBoundsAssumption DEF IInv, TypeOK, Item, Sound
<1>2. /\ SoundFor(items, removed, next) /\ SoundFor(OnDisk, removed, next)
      /\ faults.double \/ CompleteFor(items, accepted, removed, evicted)
      /\ faults.double \/ CompleteFor(OnDisk, accepted, removed, evicted)
      /\ \A i \in removed : i < next
  BY <1>0, Both DEF IInv
<1>3. /\ items \ {x} \in SUBSET Item
      /\ SoundFor(items \ {x}, removed \cup {x.id}, next)
      /\ faults.double \/ CompleteFor(items \ {x}, accepted, removed \cup {x.id}, evicted)
  BY <1>1, <1>2, SoundRemoved, CompleteRemoved
<1>4. CASE Remove(x)
  <2>1. /\ items' = items \ {x} /\ Saved(items \ {x}) /\ removed' = removed \cup {x.id}
        /\ UNCHANGED <<up, faults>>
    BY <1>4 DEF Remove
  <2>2. primary' \in File /\ backup' \in File /\ OnDisk' = items' /\ FilesInv'
    BY <1>0, <1>3, <2>1, SavedFiles
  <2>3. TypeOK' BY <1>0, <1>1, <2>1, <2>2 DEF IInv, TypeOK
  <2>4. Sound(items)' /\ Sound(OnDisk)' /\ Complete(items)' /\ Complete(OnDisk)'
    BY <1>0, <1>3, <2>1, <2>2, Both
  <2>5. \A i \in removed' : i < next' BY <1>0, <1>1, <1>2, <2>1
  <2> QED BY <1>0, <2>1, <2>2, <2>3, <2>4, <2>5 DEF IInv
<1>5. CASE RemoveFails(x)
  <2>1. SaveFails /\ UNCHANGED <<up, items, next, ghost>> BY <1>5 DEF RemoveFails
  <2>2. /\ primary' \in File /\ backup' \in File /\ FilesInv'
        /\ faults' \in [crashes : Nat, errors : Nat, double : BOOLEAN]
        /\ faults.double => faults'.double
        /\ OnDisk' = OnDisk \/ (faults'.double /\ OnDisk' = {})
    BY <1>0, <2>1, FailedFiles
  <2>3. TypeOK' BY <1>1, <2>1, <2>2 DEF IInv, TypeOK, ghost
  <2>4. Sound(items)' /\ Sound(OnDisk)' BY <1>2, <2>1, <2>2, SoundEmpty, Both DEF ghost
  <2>5. Complete(items)' /\ Complete(OnDisk)' BY <1>2, <2>1, <2>2, Both DEF ghost
  <2>6. \A i \in removed' : i < next' BY <1>2, <2>1 DEF ghost
  <2> QED BY <1>0, <2>1, <2>2, <2>3, <2>4, <2>5, <2>6 DEF IInv
<1>6. CASE RemoveCrashes(x)
  <2>1. /\ Crash /\ up' = FALSE /\ items' = {}
        /\ \/ Unsaved /\ UNCHANGED removed
           \/ Saved(items \ {x}) /\ removed' = removed \cup {x.id}
    BY <1>6 DEF RemoveCrashes
  <2>2. faults' \in [crashes : Nat, errors : Nat, double : BOOLEAN] /\ faults'.double = faults.double
    BY <2>1 DEF Crash, IInv, TypeOK
  <2>3. CASE Unsaved /\ UNCHANGED removed
    <3>1. /\ primary' \in File /\ backup' \in File /\ FilesInv'
          /\ OnDisk' = OnDisk \/ (faults.double /\ OnDisk' = {})
      BY <1>0, <2>1, <2>3, UnsavedFiles
    <3>2. TypeOK' BY <1>0, <1>1, <2>1, <2>2, <2>3, <3>1 DEF IInv, TypeOK
    <3>3. Sound(OnDisk)' BY <1>0, <1>2, <2>3, <3>1, SoundEmpty, Both
    <3>4. Complete(OnDisk)' BY <1>0, <1>2, <2>2, <2>3, <3>1, Both
    <3> QED BY <1>0, <1>2, <2>1, <2>3, <3>1, <3>2, <3>3, <3>4, DownStep
  <2>4. CASE Saved(items \ {x}) /\ removed' = removed \cup {x.id}
    <3>1. primary' \in File /\ backup' \in File /\ OnDisk' = items \ {x} /\ FilesInv'
      BY <1>0, <1>3, <2>4, SavedFiles
    <3>2. TypeOK' BY <1>0, <1>1, <2>1, <2>2, <2>4, <3>1 DEF IInv, TypeOK
    <3>3. Sound(OnDisk)' BY <1>0, <1>3, <2>4, <3>1, Both
    <3>4. Complete(OnDisk)' BY <1>0, <1>3, <2>2, <2>4, <3>1, Both
    <3>5. \A i \in removed' : i < next' BY <1>0, <1>1, <1>2, <2>4
    <3> QED BY <2>1, <3>1, <3>2, <3>3, <3>4, <3>5, DownStep
  <2> QED BY <2>1, <2>3, <2>4
<1> QED BY <1>4, <1>5, <1>6

\* Stopping and starting again.
LEMMA StartStep ==
  ASSUME IInv, Stop \/ Start
  PROVE  IInv'
<1>0. UNCHANGED <<next, ghost>>
  BY DEF Stop, Start, Load, Recover, RecoverFails, RecoverCrashes, LoadNothing
<1>1. /\ OnDisk \subseteq Item /\ \A i \in removed' : i < next'
      /\ SoundFor(OnDisk, removed, next)
      /\ faults.double \/ CompleteFor(OnDisk, accepted, removed, evicted)
  BY <1>0, OnDiskType, Both DEF IInv, ghost
<1>2. UNCHANGED <<accepted, removed, evicted>> BY <1>0 DEF ghost
<1>3. CASE Stop
  <2>1. Crash /\ up' = FALSE /\ items' = {} /\ UNCHANGED disk BY <1>3 DEF Stop
  <2>2. faults' \in [crashes : Nat, errors : Nat, double : BOOLEAN] /\ faults'.double = faults.double
    BY <2>1 DEF Crash, IInv, TypeOK
  <2>3. TypeOK' BY <1>0, <2>1, <2>2 DEF IInv, TypeOK, disk, ghost
  <2>4. FilesInv' BY <2>1 DEF IInv, FilesInv, disk, Readable
  <2>5. OnDisk' = OnDisk BY <2>1 DEF OnDisk, disk
  <2> QED BY <1>0, <1>1, <1>2, <2>1, <2>2, <2>3, <2>4, <2>5, Both, DownStep
<1>4. CASE Load \/ Recover \/ LoadNothing
  <2>1. up' = TRUE /\ items' = OnDisk /\ UNCHANGED faults
    BY <1>4 DEF Load, Recover, LoadNothing, OnDisk
  <2>2. primary' \in File /\ backup' \in File /\ OnDisk' = OnDisk /\ FilesInv'
    BY <1>4, <2>1 DEF Load, Recover, LoadNothing, OnDisk, IInv, TypeOK, FilesInv, File,
                      Readable, Missing, Torn, disk
  <2>3. TypeOK' BY <1>0, <1>1, <2>1, <2>2 DEF IInv, TypeOK, ghost
  <2>4. Sound(items)' /\ Sound(OnDisk)' /\ Complete(items)' /\ Complete(OnDisk)'
    BY <1>0, <1>1, <1>2, <2>1, <2>2, Both
  <2> QED BY <1>1, <2>1, <2>2, <2>3, <2>4 DEF IInv
<1>5. CASE RecoverFails
  <2>1. /\ up' = TRUE /\ items' = {} /\ primary' = Missing /\ backup' = backup
        /\ SecondError /\ ~Readable(primary)
    BY <1>5 DEF RecoverFails
  <2>2. faults'.double = TRUE /\ faults' \in [crashes : Nat, errors : Nat, double : BOOLEAN]
    BY <2>1, SecondErrorType DEF IInv
  <2>3. primary' \in File /\ OnDisk' = OnDisk
    BY <2>1 DEF File, Missing, OnDisk, Readable
  <2>4. FilesInv' BY <2>1, <2>2 DEF IInv, FilesInv, Missing, Torn, Readable
  <2>5. TypeOK' BY <1>0, <2>1, <2>2, <2>3 DEF IInv, TypeOK, ghost
  <2>6. Sound(items)' /\ Sound(OnDisk)' /\ Complete(items)' /\ Complete(OnDisk)'
    BY <1>0, <1>1, <1>2, <2>1, <2>2, <2>3, SoundEmpty, Both
  <2> QED BY <1>1, <2>1, <2>4, <2>5, <2>6 DEF IInv
<1>6. CASE RecoverCrashes
  <2>1. /\ Crash /\ up' = FALSE /\ items' = {} /\ primary' = Torn /\ backup' = backup
        /\ ~Readable(primary) /\ Readable(backup)
    BY <1>6 DEF RecoverCrashes, IInv, TypeOK
  <2>2. faults' \in [crashes : Nat, errors : Nat, double : BOOLEAN] /\ faults'.double = faults.double
    BY <2>1 DEF Crash, IInv, TypeOK
  <2>3. primary' \in File /\ OnDisk' = OnDisk BY <2>1 DEF File, Torn, OnDisk, Readable
  <2>4. FilesInv' BY <2>1 DEF IInv, FilesInv, Missing, Torn, Readable
  <2>5. TypeOK' BY <1>0, <2>1, <2>2, <2>3 DEF IInv, TypeOK, ghost
  <2>6. Sound(OnDisk)' /\ Complete(OnDisk)' BY <1>0, <1>1, <1>2, <2>2, <2>3, Both
  <2> QED BY <1>1, <2>1, <2>4, <2>5, <2>6 DEF IInv
<1> QED BY <1>3, <1>4, <1>5, <1>6 DEF Start

-----------------------------------------------------------------------------
(* The theorems                                                             *)

\* The inductive invariant holds in every reachable state.
THEOREM BufferInvariance == Spec => []IInv
<1>1. Init => IInv
  <2> SUFFICES ASSUME Init PROVE IInv OBVIOUS
  <2>1. TypeOK BY BufferBoundsAssumption DEF Init, TypeOK, File, Missing, Id
  <2>2. FilesInv BY DEF Init, FilesInv, Missing, Torn, Readable
  <2>3. OnDisk = {} BY DEF Init, OnDisk, Readable, Missing
  <2>4. SoundFor({}, removed, next) BY SoundEmpty
  <2>5. CompleteFor({}, accepted, removed, evicted) BY DEF Init, CompleteFor
  <2> QED BY <2>1, <2>2, <2>3, <2>4, <2>5, Both DEF Init, IInv
<1>2. IInv /\ [Next]_vars => IInv'
  <2> SUFFICES ASSUME IInv, [Next]_vars PROVE IInv' OBVIOUS
  <2>1. CASE UNCHANGED vars
    <3>1. /\ UNCHANGED <<up, items, primary, backup, next, accepted, removed, evicted, faults>>
          /\ OnDisk' = OnDisk
      BY <2>1 DEF vars, disk, ghost, OnDisk
    <3>2. TypeOK' /\ FilesInv' BY <3>1 DEF IInv, TypeOK, FilesInv
    <3> QED BY <3>1, <3>2, Both DEF IInv
  <2> QED BY <2>1, OfferStep, RemoveStep, StartStep DEF Next
<1> QED BY <1>1, <1>2, PTL DEF Spec

\* The queue, its files and its history keep their types.
THEOREM BufferTypes == Spec => []TypeOK
<1>1. IInv => TypeOK BY DEF IInv
<1> QED BY <1>1, BufferInvariance, PTL

\* An accepted item is never lost to the end of the process or to an error.
THEOREM BufferDurable == Spec => []Durable
<1>1. IInv => Durable BY DEF IInv, Durable, Complete
<1> QED BY <1>1, BufferInvariance, PTL

\* A removed item is never loaded again.
THEOREM BufferRemoved == Spec => []RemovedStaysRemoved
<1>1. IInv => RemovedStaysRemoved
  <2> SUFFICES ASSUME IInv PROVE RemovedStaysRemoved OBVIOUS
  <2>1. removed \cap Ids(OnDisk) = {} BY DEF IInv, Sound
  <2>2. removed \cap Ids(items) = {} BY DEF IInv, Sound, Ids
  <2> QED BY <2>1, <2>2 DEF RemovedStaysRemoved
<1> QED BY <1>1, BufferInvariance, PTL

-----------------------------------------------------------------------------
(* The buffer implements the durable queue                                  *)

\* What each operation of the abstract queue is, in the terms of the buffer.
LEMMA AbstractSteps ==
  /\ \A x \in Item, E \in SUBSET items :
       /\ up /\ x \notin items /\ items' = (items \ E) \cup {x} /\ OnDisk' = items'
          /\ UNCHANGED <<up, faults>> => Queue!Next
       /\ up /\ items' = items \ E /\ UNCHANGED <<up, faults>> /\ OnDisk' = OnDisk => Queue!Next
       /\ up /\ up' = FALSE /\ items' = {} /\ OnDisk' = (items \ E) \cup {x}
          /\ faults'.double = faults.double => Queue!Next
  /\ \A x \in items :
       /\ up /\ items' = items \ {x} /\ OnDisk' = items' /\ UNCHANGED <<up, faults>> => Queue!Next
       /\ up /\ up' = FALSE /\ items' = {} /\ OnDisk' = items \ {x}
          /\ faults'.double = faults.double => Queue!Next
  /\ up /\ up' = FALSE /\ items' = {} /\ OnDisk' = OnDisk
     /\ faults'.double = faults.double => Queue!Next
  /\ ~up /\ up' = TRUE /\ items' = OnDisk /\ OnDisk' = OnDisk
     /\ faults'.double = faults.double => Queue!Next
  /\ faults'.double = TRUE /\ OnDisk' \in {OnDisk, {}} /\ items' \in {items, {}}
     /\ up' \in BOOLEAN => Queue!Next
BY DEF Queue!Next, Queue!Put, Queue!Drop, Queue!Take, Queue!Crash, Queue!Start, Queue!Lose

\* Files that an interrupted save or a failed one leaves as they were.
LEMMA AbstractFailure ==
  ASSUME IInv, up, SaveFails, UNCHANGED <<up, items>>
  PROVE  [Queue!Next]_(Queue!queueVars)
<1>1. /\ faults' \in [crashes : Nat, errors : Nat, double : BOOLEAN]
      /\ faults.double => faults'.double
      /\ OnDisk' = OnDisk \/ (faults'.double /\ OnDisk' = {})
  BY FailedFiles
<1>2. faults.double \in BOOLEAN /\ up \in BOOLEAN /\ faults'.double \in BOOLEAN
  BY <1>1 DEF IInv, TypeOK
<1>3. CASE faults'.double BY <1>1, <1>2, <1>3, AbstractSteps
<1>4. CASE ~faults'.double BY <1>1, <1>2, <1>4 DEF Queue!queueVars
<1> QED BY <1>3, <1>4

\* The end of the process in the middle of a save.
LEMMA AbstractCrash ==
  ASSUME IInv, up, Unsaved, Crash, up' = FALSE, items' = {}
  PROVE  Queue!Next
<1>1. OnDisk' = OnDisk \/ (faults.double /\ OnDisk' = {}) BY UnsavedFiles
<1>2. faults'.double = faults.double /\ faults.double \in BOOLEAN
  BY DEF Crash, IInv, TypeOK
<1> QED BY <1>1, <1>2, AbstractSteps

\* Offering an item is a step of the queue.
LEMMA AbstractOffer ==
  ASSUME IInv, NEW p \in Priority, NEW z \in Size, Offer(p, z)
  PROVE  [Queue!Next]_(Queue!queueVars)
<1> DEFINE x == Offered(p, z)
<1>0. up /\ next \in Id BY DEF Offer, EnqueueDropped, Enqueue, EnqueueFails, EnqueueCrashes
<1>1. x \in Item /\ x.id = next BY <1>0, OfferedType
<1>2. next \in Nat /\ items \subseteq Item /\ Sound(items)
  BY <1>0, BufferBoundsAssumption DEF IInv, TypeOK, Id
<1>3. x \notin items BY <1>1, <1>2 DEF Sound
<1> HIDE DEF x
<1>4. ASSUME NEW T \in Kept(items, x)
      PROVE  /\ T \subseteq items /\ T = items \ (items \ T)
             /\ T \cup {x} \in SUBSET Item
  BY <1>1, <1>2, <1>4, KeptIsPart
<1>5. CASE EnqueueDropped(p, z)
  <2>1. PICK T \in Kept(items, x) : items' = T BY <1>5 DEF EnqueueDropped, x
  <2>2. UNCHANGED <<up, faults>> /\ OnDisk' = OnDisk BY <1>5 DEF EnqueueDropped, OnDisk, disk
  <2> QED BY <1>0, <1>1, <1>4, <2>1, <2>2, AbstractSteps
<1>6. CASE Enqueue(p, z)
  <2>1. PICK T \in Kept(items, x) : items' = T \cup {x} /\ Saved(T \cup {x})
    BY <1>6 DEF Enqueue, x
  <2>2. UNCHANGED <<up, faults>> BY <1>6 DEF Enqueue
  <2>3. OnDisk' = items' BY <1>0, <1>4, <2>1, SavedFiles
  <2> QED BY <1>0, <1>1, <1>3, <1>4, <2>1, <2>2, <2>3, AbstractSteps
<1>7. CASE EnqueueFails(p, z) BY <1>0, <1>7, AbstractFailure DEF EnqueueFails
<1>8. CASE EnqueueCrashes(p, z)
  <2>1. /\ Crash /\ up' = FALSE /\ items' = {}
        /\ Unsaved \/ \E T \in Kept(items, x) : Saved(T \cup {x})
    BY <1>8 DEF EnqueueCrashes, x
  <2>2. faults'.double = faults.double BY <2>1 DEF Crash, IInv, TypeOK
  <2>3. ASSUME NEW T \in Kept(items, x), Saved(T \cup {x}) PROVE Queue!Next
    <3>1. OnDisk' = T \cup {x} BY <1>0, <1>4, <2>3, SavedFiles
    <3> QED BY <1>0, <1>1, <1>4, <2>1, <2>2, <3>1, AbstractSteps
  <2> QED BY <1>0, <2>1, <2>3, AbstractCrash
<1> QED BY <1>5, <1>6, <1>7, <1>8 DEF Offer

\* So is removing one.
LEMMA AbstractRemove ==
  ASSUME IInv, NEW x \in items, Remove(x) \/ RemoveFails(x) \/ RemoveCrashes(x)
  PROVE  [Queue!Next]_(Queue!queueVars)
<1>0. up /\ items \ {x} \in SUBSET Item
  BY DEF IInv, TypeOK, Remove, RemoveFails, RemoveCrashes
<1>1. CASE Remove(x)
  <2>1. items' = items \ {x} /\ Saved(items \ {x}) /\ UNCHANGED <<up, faults>>
    BY <1>1 DEF Remove
  <2>2. OnDisk' = items' BY <1>0, <2>1, SavedFiles
  <2> QED BY <1>0, <2>1, <2>2, AbstractSteps
<1>2. CASE RemoveFails(x) BY <1>0, <1>2, AbstractFailure DEF RemoveFails
<1>3. CASE RemoveCrashes(x)
  <2>1. Crash /\ up' = FALSE /\ items' = {} /\ (Unsaved \/ Saved(items \ {x}))
    BY <1>3 DEF RemoveCrashes
  <2>2. faults'.double = faults.double BY <2>1 DEF Crash, IInv, TypeOK
  <2>3. Saved(items \ {x}) => Queue!Next
    BY <1>0, <2>1, <2>2, SavedFiles, AbstractSteps
  <2> QED BY <1>0, <2>1, <2>3, AbstractCrash
<1> QED BY <1>1, <1>2, <1>3

\* So are stopping and starting, and what recovery does on the way.
LEMMA AbstractStart ==
  ASSUME IInv, Stop \/ Start
  PROVE  [Queue!Next]_(Queue!queueVars)
<1>1. CASE Stop
  <2>1. up /\ up' = FALSE /\ items' = {} /\ faults'.double = faults.double /\ OnDisk' = OnDisk
    BY <1>1 DEF Stop, Crash, IInv, TypeOK, OnDisk, disk
  <2> QED BY <2>1, AbstractSteps
<1>2. CASE Load \/ Recover \/ LoadNothing
  <2>1. ~up /\ up' = TRUE /\ items' = OnDisk /\ UNCHANGED faults
    BY <1>2 DEF Load, Recover, LoadNothing, OnDisk
  <2>2. OnDisk' = OnDisk
    BY <1>2 DEF Load, Recover, LoadNothing, OnDisk, Readable, Missing, Torn, disk
  <2> QED BY <2>1, <2>2, AbstractSteps
<1>3. CASE RecoverFails
  <2>1. up' = TRUE /\ items' = {} /\ faults'.double = TRUE
    BY <1>3, SecondErrorType DEF RecoverFails, IInv
  <2>2. OnDisk' = OnDisk BY <1>3 DEF RecoverFails, OnDisk, Readable, Missing
  <2> QED BY <2>1, <2>2, AbstractSteps
<1>4. CASE RecoverCrashes
  <2>1. UNCHANGED <<up, items>> /\ faults'.double = faults.double /\ OnDisk' = OnDisk
    BY <1>4 DEF RecoverCrashes, Crash, IInv, TypeOK, OnDisk, Readable, Torn
  <2> QED BY <2>1 DEF Queue!queueVars
<1> QED BY <1>1, <1>2, <1>3, <1>4 DEF Start

\* The buffer implements the durable queue: memory and files, evictions, failed
\* saves and recoveries are together a step of DurableQueue or none.
THEOREM BufferImplementsQueue == Spec => ImplementsDurableQueue
<1>1. Init => Queue!Init
  BY DEF Init, Queue!Init, OnDisk, Readable, Missing
<1>2. IInv /\ [Next]_vars => [Queue!Next]_(Queue!queueVars)
  <2> SUFFICES ASSUME IInv, [Next]_vars PROVE [Queue!Next]_(Queue!queueVars) OBVIOUS
  <2>1. CASE UNCHANGED vars
    BY <2>1 DEF vars, disk, ghost, OnDisk, Queue!queueVars
  <2> QED BY <2>1, AbstractOffer, AbstractRemove, AbstractStart DEF Next
<1> QED BY <1>1, <1>2, BufferInvariance, PTL DEF Spec, ImplementsDurableQueue, Queue!Spec

-----------------------------------------------------------------------------
(* Sums over finite sets                                                    *)

\* Among parts of a finite set one has no part among them.
LEMMA SmallestPart ==
  ASSUME NEW S, IsFiniteSet(S), NEW Family \in SUBSET SUBSET S, Family # {}
  PROVE  \E U \in Family : \A V \in Family : V \subseteq U => V = U
<1> DEFINE N == {n \in Nat : \E U \in Family : n = Cardinality(U)}
           R == OpToRel(<, Nat)
<1>1. \A U \in Family : IsFiniteSet(U) /\ Cardinality(U) \in Nat BY FS_Subset, FS_CardinalityType
<1>2. N \subseteq Nat /\ N # {} BY <1>1
<1>3. IsWellFoundedOn(R, Nat) BY NatLessThanWellFounded
<1>4. PICK n \in N : \A k \in N : ~(<<k, n>> \in R)
  <2> HIDE DEF N, R
  <2> QED BY <1>2, <1>3, WFMin, Zenon
<1>5. \A k \in N : ~(k < n)
  <2>1. \A k \in N : k < n => <<k, n>> \in R BY <1>2 DEF OpToRel
  <2> QED BY <1>4, <2>1, Zenon
<1> HIDE DEF R
<1>6. PICK U \in Family : n = Cardinality(U) OBVIOUS
<1>7. ASSUME NEW V \in Family, V \subseteq U, V # U PROVE FALSE
  <2>1. Cardinality(V) < Cardinality(U) BY <1>1, <1>7, FS_Subset
  <2>2. Cardinality(V) \in N BY <1>1
  <2> QED BY <1>5, <1>6, <2>1, <2>2
<1> QED BY <1>7

\* The term a sum takes first.
Some(T) == CHOOSE x \in T : TRUE

\* f has the sum of the weights of each part of S.
Adds(f, S, w) ==
  f = [T \in SUBSET S |-> IF T = {} THEN 0 ELSE w[Some(T)] + f[T \ {Some(T)}]]
Summed(S, w) == CHOOSE f : Adds(f, S, w)
SumOf(S, w) == Summed(S, w)[S]

LEMMA SomeIs == ASSUME NEW T, T # {} PROVE Some(T) \in T
BY DEF Some

\* There is but one such function.
LEMMA SumsAgree ==
  ASSUME NEW S, IsFiniteSet(S), NEW w, NEW f, Adds(f, S, w), NEW T \in SUBSET S, NEW g, Adds(g, T, w)
  PROVE  f[T] = g[T]
<1> DEFINE Bad == {U \in SUBSET T : f[U] # g[U]}
<1>1. ASSUME Bad # {} PROVE FALSE
  <2>1. IsFiniteSet(T) BY FS_Subset
  <2>2. PICK U \in Bad : \A V \in Bad : V \subseteq U => V = U
    <3>1. Bad \in SUBSET SUBSET T OBVIOUS
    <3> HIDE DEF Bad
    <3> QED BY <1>1, <2>1, <3>1, SmallestPart
  <2>3. U \in SUBSET T /\ U \in SUBSET S /\ f[U] # g[U] BY <2>2
  <2>4. CASE U = {} BY <2>3, <2>4 DEF Adds
  <2>5. CASE U # {}
    <3>1. Some(U) \in U BY <2>5, SomeIs
    <3>2. U \ {Some(U)} \in SUBSET T /\ U \ {Some(U)} \notin Bad BY <2>2, <2>3, <3>1
    <3>3. f[U \ {Some(U)}] = g[U \ {Some(U)}] BY <3>2
    <3>4. f[U] = w[Some(U)] + f[U \ {Some(U)}] BY <2>3, <2>5 DEF Adds
    <3>5. g[U] = w[Some(U)] + g[U \ {Some(U)}] BY <2>3, <2>5 DEF Adds
    <3> QED BY <2>3, <3>3, <3>4, <3>5
  <2> QED BY <2>4, <2>5
<1> QED BY <1>1

\* The equation of the sum, when its parts have one.
LEMMA SumStepIf ==
  ASSUME NEW S, IsFiniteSet(S), NEW w,
         \E f : Adds(f, S, w), \A x \in S : \E f : Adds(f, S \ {x}, w)
  PROVE  SumOf(S, w) = IF S = {} THEN 0 ELSE w[Some(S)] + SumOf(S \ {Some(S)}, w)
<1>1. Adds(Summed(S, w), S, w) BY Zenon DEF Summed
<1>2. CASE S = {} BY <1>1, <1>2 DEF Adds, SumOf
<1>3. CASE S # {}
  <2> DEFINE T == S \ {Some(S)}
  <2>1. Some(S) \in S BY <1>3, SomeIs
  <2>2. Adds(Summed(T, w), T, w) BY <2>1, Zenon DEF Summed
  <2>3. Summed(S, w)[T] = Summed(T, w)[T] BY <1>1, <2>2, SumsAgree
  <2>4. Summed(S, w)[S] = w[Some(S)] + Summed(S, w)[T] BY <1>1, <1>3 DEF Adds
  <2> QED BY <1>3, <2>3, <2>4 DEF SumOf
<1> QED BY <1>2, <1>3

\* Every finite set has a sum.
LEMMA SumExists ==
  ASSUME NEW S, IsFiniteSet(S), NEW w
  PROVE  \E f : Adds(f, S, w)
<1> DEFINE Bad == {U \in SUBSET S : ~ \E f : Adds(f, U, w)}
<1>1. ASSUME Bad # {} PROVE FALSE
  <2>1. PICK U \in Bad : \A V \in Bad : V \subseteq U => V = U
    <3>1. Bad \in SUBSET SUBSET S OBVIOUS
    <3> HIDE DEF Bad
    <3> QED BY <1>1, <3>1, SmallestPart
  <2>2. U \in SUBSET S /\ IsFiniteSet(U) BY FS_Subset
  <2>3. ASSUME NEW V \in SUBSET U, V # U PROVE \E f : Adds(f, V, w) BY <2>1, <2>2, <2>3
  <2> DEFINE h == [T \in SUBSET U |-> IF T = {} THEN 0 ELSE w[Some(T)] + SumOf(T \ {Some(T)}, w)]
  <2>4. ASSUME NEW T \in SUBSET U, T # {} PROVE h[T \ {Some(T)}] = SumOf(T \ {Some(T)}, w)
    <3> DEFINE V == T \ {Some(T)}
    <3>1. V \in SUBSET U /\ V # U BY <2>4, SomeIs
    <3>2. IsFiniteSet(V) BY <2>2, <3>1, FS_Subset
    <3>3. \A x \in V : V \ {x} \in SUBSET U /\ V \ {x} # U BY <3>1
    <3>4. SumOf(V, w) = IF V = {} THEN 0 ELSE w[Some(V)] + SumOf(V \ {Some(V)}, w)
      BY <2>3, <3>1, <3>2, <3>3, SumStepIf
    <3> QED BY <3>1, <3>4
  <2>5. Adds(h, U, w)
    <3>1. \A T \in SUBSET U : h[T] = IF T = {} THEN 0 ELSE w[Some(T)] + h[T \ {Some(T)}]
      BY <2>4
    <3>2. h = [T \in SUBSET U |-> h[T]] OBVIOUS
    <3> HIDE DEF h
    <3> QED BY <3>1, <3>2 DEF Adds
  <2> QED BY <2>1, <2>5
<1> QED BY <1>1

\* Every finite set satisfies the equation of the sum.
LEMMA SumStep ==
  ASSUME NEW S, IsFiniteSet(S), NEW w
  PROVE  SumOf(S, w) = IF S = {} THEN 0 ELSE w[Some(S)] + SumOf(S \ {Some(S)}, w)
<1>1. \A x \in S : IsFiniteSet(S \ {x}) BY FS_Subset
<1> QED BY <1>1, SumExists, SumStepIf

\* Sums of natural numbers are natural numbers.
LEMMA SumType ==
  ASSUME NEW S, IsFiniteSet(S), NEW w, \A x \in S : w[x] \in Nat
  PROVE  SumOf(S, w) \in Nat
<1> DEFINE Bad == {U \in SUBSET S : SumOf(U, w) \notin Nat}
<1>1. ASSUME Bad # {} PROVE FALSE
  <2>1. PICK U \in Bad : \A V \in Bad : V \subseteq U => V = U
    <3>1. Bad \in SUBSET SUBSET S OBVIOUS
    <3> HIDE DEF Bad
    <3> QED BY <1>1, <3>1, SmallestPart
  <2>2. IsFiniteSet(U) BY FS_Subset
  <2>3. U # {} => Some(U) \in U /\ U \ {Some(U)} \notin Bad BY <2>1, SomeIs
  <2>4. U # {} => w[Some(U)] \in Nat /\ SumOf(U \ {Some(U)}, w) \in Nat BY <2>1, <2>3
  <2>5. SumOf(U, w) = IF U = {} THEN 0 ELSE w[Some(U)] + SumOf(U \ {Some(U)}, w) BY <2>2, SumStep
  <2> QED BY <2>1, <2>4, <2>5
<1> QED BY <1>1

\* It does not matter which term is taken first.
LEMMA SumWithout ==
  ASSUME NEW S, IsFiniteSet(S), NEW w, \A x \in S : w[x] \in Nat, NEW x \in S
  PROVE  SumOf(S, w) = w[x] + SumOf(S \ {x}, w)
<1> DEFINE Bad == {U \in SUBSET S : \E y \in U : SumOf(U, w) # w[y] + SumOf(U \ {y}, w)}
<1>1. ASSUME Bad # {} PROVE FALSE
  <2>1. PICK U \in Bad : \A V \in Bad : V \subseteq U => V = U
    <3>1. Bad \in SUBSET SUBSET S OBVIOUS
    <3> HIDE DEF Bad
    <3> QED BY <1>1, <3>1, SmallestPart
  <2>2. PICK y \in U : SumOf(U, w) # w[y] + SumOf(U \ {y}, w) BY <2>1
  <2>3. \A V \in SUBSET U : IsFiniteSet(V) /\ SumOf(V, w) \in Nat BY FS_Subset, SumType
  <2> DEFINE z == Some(U)
  <2>4. z \in U /\ SumOf(U, w) = w[z] + SumOf(U \ {z}, w) BY <2>3, SomeIs, SumStep
  <2> HIDE DEF z
  <2>5. y # z BY <2>2, <2>4
  <2>6. U \ {z} \notin Bad /\ U \ {y} \notin Bad BY <2>1, <2>4
  <2>7. SumOf(U \ {z}, w) = w[y] + SumOf((U \ {z}) \ {y}, w) BY <2>5, <2>6
  <2>8. SumOf(U \ {y}, w) = w[z] + SumOf((U \ {y}) \ {z}, w) BY <2>4, <2>5, <2>6
  <2>9. (U \ {z}) \ {y} = (U \ {y}) \ {z} OBVIOUS
  <2>10. w[y] \in Nat /\ w[z] \in Nat /\ SumOf((U \ {y}) \ {z}, w) \in Nat BY <2>3, <2>4
  <2> QED BY <2>2, <2>4, <2>7, <2>8, <2>9, <2>10
<1> QED BY <1>1

\* A part adds up to less.
LEMMA SumPart ==
  ASSUME NEW S, IsFiniteSet(S), NEW w, \A x \in S : w[x] \in Nat, NEW T \in SUBSET S
  PROVE  SumOf(T, w) <= SumOf(S, w)
<1> DEFINE Bad == {U \in SUBSET S : T \subseteq U /\ ~(SumOf(T, w) <= SumOf(U, w))}
<1>1. ASSUME Bad # {} PROVE FALSE
  <2>1. PICK U \in Bad : \A V \in Bad : V \subseteq U => V = U
    <3>1. Bad \in SUBSET SUBSET S OBVIOUS
    <3> HIDE DEF Bad
    <3> QED BY <1>1, <3>1, SmallestPart
  <2>2. \A V \in SUBSET U : IsFiniteSet(V) /\ SumOf(V, w) \in Nat BY FS_Subset, SumType
  <2>3. PICK x \in U : x \notin T
    <3>1. SumOf(T, w) \in Nat /\ T \subseteq U BY <2>1, <2>2
    <3>2. U # T BY <2>1, <3>1
    <3> QED BY <3>1, <3>2
  <2>4. SumOf(T, w) <= SumOf(U \ {x}, w) BY <2>1, <2>3
  <2>5. SumOf(U, w) = w[x] + SumOf(U \ {x}, w) BY <2>2, SumWithout
  <2> QED BY <2>1, <2>2, <2>4, <2>5
<1> QED BY <1>1

-----------------------------------------------------------------------------
(* Totals of items                                                          *)

Weight == [x \in Item |-> x.size]

\* The total of items is their sum.
LEMMA TotalIsSum ==
  ASSUME NEW S \in SUBSET Item
  PROVE  Total(S) = SumOf(S, Weight)
<1> DEFINE Sums(f) == f = [T \in SUBSET S |-> IF T = {} THEN 0
                             ELSE SizeOf(CHOOSE x \in T : TRUE) + f[T \ {CHOOSE x \in T : TRUE}]]
<1>1. Total(S) = (CHOOSE f : Sums(f))[S] BY Zenon DEF Total, MapThenSumSet, MapThenFoldSet
<1>2. ASSUME NEW T \in SUBSET S, T # {} PROVE Weight[Some(T)] = SizeOf(CHOOSE x \in T : TRUE)
  <2>1. Some(T) \in Item BY <1>2, SomeIs
  <2> QED BY <2>1 DEF Weight, SizeOf, Some
<1>3. ASSUME NEW f PROVE Sums(f) <=> Adds(f, S, Weight)
  <2>1. [T \in SUBSET S |-> IF T = {} THEN 0
           ELSE SizeOf(CHOOSE x \in T : TRUE) + f[T \ {CHOOSE x \in T : TRUE}]]
        = [T \in SUBSET S |-> IF T = {} THEN 0 ELSE Weight[Some(T)] + f[T \ {Some(T)}]]
    <3>1. ASSUME NEW T \in SUBSET S
          PROVE  (IF T = {} THEN 0
                  ELSE SizeOf(CHOOSE x \in T : TRUE) + f[T \ {CHOOSE x \in T : TRUE}])
                 = (IF T = {} THEN 0 ELSE Weight[Some(T)] + f[T \ {Some(T)}])
      <4>1. Some(T) = CHOOSE x \in T : TRUE BY DEF Some
      <4> QED BY <1>2, <4>1
    <3> QED BY <3>1
  <2> QED BY <2>1 DEF Adds
<1> HIDE DEF Sums
<1>4. (CHOOSE f : Sums(f)) = (CHOOSE f : Adds(f, S, Weight)) BY <1>3, Zenon
<1> QED BY <1>1, <1>4 DEF SumOf, Summed

\* If every item fits there are finitely many.
LEMMA ItemsFinite ==
  ASSUME \A z \in Size : z <= MaxBytes
  PROVE  IsFiniteSet(Item)
<1>1. IsFiniteSet(Id) BY FS_Interval, BufferBoundsAssumption DEF Id
<1>2. IsFiniteSet(Priority)
  <2>1. Priority \in SUBSET Nat /\ 6 \in Nat /\ \A p \in Priority : p <= 6
    BY PriorityAssumption
  <2> QED BY <2>1, FS_BoundedSetOfNaturals
<1>3. IsFiniteSet(Size) BY FS_BoundedSetOfNaturals, SizeAssumption
<1>4. IsFiniteSet((Id \X Priority) \X Size) BY <1>1, <1>2, <1>3, FS_Product
<1> DEFINE f == [a \in (Id \X Priority) \X Size |-> [id |-> a[1][1], pri |-> a[1][2], size |-> a[2]]]
<1>5. \A a \in (Id \X Priority) \X Size : f[a] \in Item BY DEF Item
<1>6. ASSUME NEW x \in Item PROVE \E a \in (Id \X Priority) \X Size : f[a] = x
  <2> DEFINE a == <<<<x.id, x.pri>>, x.size>>
  <2>1. a \in (Id \X Priority) \X Size BY DEF Item
  <2>2. f[a] = [id |-> x.id, pri |-> x.pri, size |-> x.size] BY <2>1
  <2>3. x = [id |-> x.id, pri |-> x.pri, size |-> x.size] BY DEF Item
  <2> QED BY <2>1, <2>2, <2>3
<1>7. f \in [(Id \X Priority) \X Size -> Item] BY <1>5
<1> HIDE DEF f
<1>8. f \in Surjection((Id \X Priority) \X Size, Item) BY <1>6, <1>7 DEF Surjection
<1> QED BY <1>4, <1>8, FS_Surjection

\* What the totals of items do.
LEMMA Totals ==
  ASSUME \A z \in Size : z <= MaxBytes, NEW S \in SUBSET Item
  PROVE  /\ Total(S) \in Nat /\ Total({}) = 0
         /\ \A T \in SUBSET S : Total(T) <= Total(S)
         /\ \A x \in Item : x.size \in Nat /\ Total(S \cup {x}) <= Total(S) + x.size
<1>1. IsFiniteSet(Item) BY ItemsFinite
<1>2. \A T \in SUBSET Item : IsFiniteSet(T) /\ Total(T) = SumOf(T, Weight)
  BY <1>1, FS_Subset, TotalIsSum
<1>3. \A x \in Item : Weight[x] = x.size /\ x.size \in Nat BY SizeAssumption DEF Weight, Item
<1>4. \A T \in SUBSET Item : SumOf(T, Weight) \in Nat BY <1>2, <1>3, SumType
<1>5. SumOf({}, Weight) = 0 BY <1>2, SumStep
<1>6. ASSUME NEW T \in SUBSET S PROVE Total(T) <= Total(S)
  <2>1. SumOf(T, Weight) <= SumOf(S, Weight) BY <1>2, <1>3, SumPart
  <2> QED BY <1>2, <2>1
<1>7. ASSUME NEW x \in Item PROVE Total(S \cup {x}) <= Total(S) + x.size
  <2> DEFINE U == S \cup {x}
  <2>1. U \in SUBSET Item /\ x \in U OBVIOUS
  <2> HIDE DEF U
  <2>2. SumOf(U, Weight) = Weight[x] + SumOf(U \ {x}, Weight) BY <1>2, <1>3, <2>1, SumWithout
  <2>3. U \ {x} \subseteq S BY DEF U
  <2>4. SumOf(U \ {x}, Weight) <= SumOf(S, Weight) BY <1>2, <1>3, <2>3, SumPart
  <2>5. Total(U) = SumOf(U, Weight) /\ SumOf(U \ {x}, Weight) \in Nat BY <1>2, <1>4, <2>1
  <2>6. Total(U) <= Total(S) + x.size BY <1>2, <1>3, <1>4, <2>2, <2>4, <2>5
  <2> QED BY <2>6 DEF U
<1> QED BY <1>2, <1>3, <1>4, <1>5, <1>6, <1>7

-----------------------------------------------------------------------------
(* Capacity                                                                 *)

Small(S) == S \in SUBSET Item /\ Total(S) <= MaxBytes

\* The queue, and the queues of both files, are within the capacity.
CapacityInv ==
  (\A z \in Size : z <= MaxBytes) => Small(items) /\ Small(primary.queue) /\ Small(backup.queue)

\* Evicting and removing keep within the capacity.
LEMMA SmallPart ==
  ASSUME \A z \in Size : z <= MaxBytes, NEW S, Small(S), NEW T \in SUBSET S
  PROVE  Small(T)
<1>1. S \in SUBSET Item /\ T \in SUBSET Item /\ Total(S) <= MaxBytes BY DEF Small
<1>2. Total(S) \in Nat /\ Total(T) \in Nat /\ Total(T) <= Total(S) BY <1>1, Totals
<1> QED BY <1>1, <1>2, SizeAssumption DEF Small

\* Where the eviction loop ends with room for x, x fits.
LEMMA SmallOffered ==
  ASSUME \A z \in Size : z <= MaxBytes, NEW S, Small(S), NEW x \in Item, NEW T \in Kept(S, x),
         ~Drops(T, x)
  PROVE  Small(T \cup {x})
<1>1. T \subseteq S /\ Enough(T, x) BY DEF Kept, Tails
<1>2. T \in SUBSET Item BY <1>1 DEF Small
<1>3. /\ Total(T) \in Nat /\ Total({}) = 0 /\ x.size \in Nat
      /\ Total(T \cup {x}) <= Total(T) + x.size /\ Total(T \cup {x}) \in Nat
  BY <1>2, Totals
<1>4. x.size <= MaxBytes BY DEF Item
<1>5. Total(T) + x.size <= MaxBytes BY <1>1, <1>3, <1>4 DEF Enough, Fits
<1> QED BY <1>2, <1>3, <1>5, SizeAssumption DEF Small

\* So does every step.
LEMMA CapacityKept ==
  ASSUME TypeOK, CapacityInv, [Next]_vars
  PROVE  CapacityInv'
<1> SUFFICES ASSUME \A z \in Size : z <= MaxBytes
             PROVE  Small(items') /\ Small(primary'.queue) /\ Small(backup'.queue)
  BY DEF CapacityInv, Small, Total
<1>1. Small(items) /\ Small(primary.queue) /\ Small(backup.queue) BY DEF CapacityInv
<1>2. Small({}) BY <1>1, SmallPart
<1>3. /\ Missing.queue = {} /\ Torn.queue = {} /\ \A S : Holding(S).queue = S
  BY DEF Missing, Torn, Holding
<1>4. ASSUME Unsaved \/ SaveFails PROVE Small(primary'.queue) /\ Small(backup'.queue)
  BY <1>1, <1>2, <1>3, <1>4 DEF Unsaved, SaveFails, disk
<1>5. ASSUME NEW S, Saved(S), Small(S) PROVE Small(primary'.queue) /\ Small(backup'.queue)
  BY <1>1, <1>3, <1>5 DEF Saved
<1>6. ASSUME NEW p \in Priority, NEW z \in Size, Offer(p, z)
      PROVE  Small(items') /\ Small(primary'.queue) /\ Small(backup'.queue)
  <2> DEFINE x == Offered(p, z)
  <2>1. x \in Item
    BY <1>6, OfferedType DEF Offer, EnqueueDropped, Enqueue, EnqueueFails, EnqueueCrashes
  <2>2. \A T \in Kept(items, x) : Small(T) BY <1>1, KeptIsPart, SmallPart
  <2>3. \A T \in Kept(items, x) : ~Drops(T, x) => Small(T \cup {x}) BY <1>1, <2>1, SmallOffered
  <2>4. CASE EnqueueDropped(p, z)
    <3>1. PICK T \in Kept(items, x) : items' = T BY <2>4 DEF EnqueueDropped, x
    <3> QED BY <1>1, <2>2, <2>4, <3>1 DEF EnqueueDropped, disk
  <2>5. CASE Enqueue(p, z)
    <3>1. PICK T \in Kept(items, x) : ~Drops(T, x) /\ items' = T \cup {x} /\ Saved(T \cup {x})
      BY <2>5 DEF Enqueue, x
    <3> QED BY <1>5, <2>3, <3>1
  <2>6. CASE EnqueueFails(p, z) BY <1>1, <1>4, <2>6 DEF EnqueueFails
  <2>7. CASE EnqueueCrashes(p, z)
    <3>1. PICK T \in Kept(items, x) : ~Drops(T, x) /\ (Unsaved \/ Saved(T \cup {x}))
      BY <2>7 DEF EnqueueCrashes, x
    <3>2. items' = {} BY <2>7 DEF EnqueueCrashes
    <3> QED BY <1>2, <1>4, <1>5, <2>3, <3>1, <3>2
  <2> QED BY <1>6, <2>4, <2>5, <2>6, <2>7 DEF Offer
<1>7. ASSUME NEW x \in items, Remove(x) \/ RemoveFails(x) \/ RemoveCrashes(x)
      PROVE  Small(items') /\ Small(primary'.queue) /\ Small(backup'.queue)
  <2>1. Small(items \ {x}) BY <1>1, SmallPart
  <2>2. CASE Remove(x) BY <1>5, <2>1, <2>2 DEF Remove
  <2>3. CASE RemoveFails(x) BY <1>1, <1>4, <2>3 DEF RemoveFails
  <2>4. CASE RemoveCrashes(x) BY <1>2, <1>4, <1>5, <2>1, <2>4 DEF RemoveCrashes
  <2> QED BY <1>7, <2>2, <2>3, <2>4
<1>8. CASE Stop BY <1>1, <1>2, <1>8 DEF Stop, disk
<1>9. CASE Start
  BY <1>1, <1>2, <1>3, <1>9 DEF Start, Load, Recover, RecoverFails, RecoverCrashes, LoadNothing, disk
<1>10. CASE UNCHANGED vars BY <1>1, <1>10 DEF vars, disk
<1> QED BY <1>6, <1>7, <1>8, <1>9, <1>10 DEF Next

\* Neither the queue nor what a restart would load outgrows the capacity.
THEOREM BufferWithinCapacity == Spec => []WithinCapacity
<1>1. Init => CapacityInv
  <2> SUFFICES ASSUME Init, \A z \in Size : z <= MaxBytes
               PROVE  Small(items) /\ Small(primary.queue) /\ Small(backup.queue)
    BY DEF CapacityInv
  <2>1. Small({}) BY Totals, SizeAssumption DEF Small
  <2> QED BY <2>1 DEF Init, Missing
<1>2. TypeOK /\ CapacityInv /\ [Next]_vars => CapacityInv' BY CapacityKept
<1>3. TypeOK /\ CapacityInv => WithinCapacity
  <2> SUFFICES ASSUME CapacityInv, \A z \in Size : z <= MaxBytes
               PROVE  Total(items) <= MaxBytes /\ Total(OnDisk) <= MaxBytes
    BY DEF WithinCapacity
  <2>1. Total({}) <= MaxBytes BY Totals, SizeAssumption
  <2> QED BY <2>1 DEF CapacityInv, Small, OnDisk
<1> QED BY <1>1, <1>2, <1>3, BufferTypes, PTL DEF Spec

=============================================================================
