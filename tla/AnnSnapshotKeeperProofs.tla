--------------------- MODULE AnnSnapshotKeeperProofs ----------------------
(***************************************************************************)
(* Proofs about the snapshot keeper of AnnSnapshotKeeper, for every set of *)
(* names and every finite set of readers.                                  *)
(*                                                                         *)
(* The invariants checked by TLC are not inductive as they stand: the type *)
(* of the deque after PushBack needs wname to be a name, the hot swap      *)
(* needs the deque to be non-empty, freshness needs the new name to exceed *)
(* the back of the deque, and folder ownership and monotonic reads need    *)
(* the live snapshots to be exactly those the deque holds.  TypeInv,       *)
(* KeeperInv, AliveInv, DirInv and MonoInv add these facts, one level on  *)
(* top of the other.                                                       *)
(***************************************************************************)
EXTENDS AnnSnapshotKeeper, FiniteSetTheorems, TLAPS

\* the snapshots the deque holds
Kept == {deque[i] : i \in DOMAIN deque}

TypeInv ==
    /\ TypeOK
    /\ wpc = "PushBack" => wname \in Names
    /\ wpc = "SetActual" => deque # <<>>

KeeperInv ==
    /\ TypeInv
    /\ KeeperConsistent
    /\ wpc = "PushBack" /\ deque # <<>> => wname > deque[Len(deque)]

-----------------------------------------------------------------------------
(* The use count is a natural number.                                      *)
LEMMA UseCountNat ==
    ASSUME NEW s
    PROVE  UseCount(s) \in Nat
<1>1. IsFiniteSet({r \in Readers : ReaderHolds(r, s)})
  BY ReadersAssumption, FS_Subset
<1>2. Cardinality({r \in Readers : ReaderHolds(r, s)}) \in Nat
  BY <1>1, FS_CardinalityType
<1>. QED
  BY <1>2 DEF UseCount

(* A snapshot in the deque whose use count is one is held by nothing else: *)
(* it is not the active snapshot and no lookup holds it.  This is what the *)
(* unique() test of TryRemoveUnusedANNSnapshots relies on.                 *)
LEMMA UniqueMeansUnheld ==
    ASSUME NEW s, InDeque(s), UseCount(s) = 1
    PROVE  /\ actual # s
           /\ \A r \in Readers : ~ReaderHolds(r, s)
<1>. DEFINE H == {r \in Readers : ReaderHolds(r, s)}
<1>1. IsFiniteSet(H) /\ Cardinality(H) \in Nat
  BY ReadersAssumption, FS_Subset, FS_CardinalityType
<1>2. (IF actual = s THEN 1 ELSE 0) + Cardinality(H) = 0
  BY <1>1 DEF UseCount
<1>3. actual # s /\ Cardinality(H) = 0
  BY <1>1, <1>2
<1>4. H = {}
  BY <1>1, <1>3, FS_EmptySet
<1>. QED
  BY <1>3, <1>4

(* remove_all never creates a folder, and a failed ingestion leaves at     *)
(* most the root and the snapshot's own folder behind.                     *)
LEMMA RemoveAllSubset ==
    ASSUME NEW d, NEW f
    PROVE  RemoveAll(d, f) \subseteq d
  BY DEF RemoveAll

LEMMA FoldersAfterFailureSubset ==
    ASSUME NEW d, NEW n, NEW o \in Outcomes \ {"Loaded"}
    PROVE  FoldersAfterFailure(d, n, o) \subseteq d \cup {Root, FolderOf(n)}
<1>1. CASE o = "LoadError"
  BY <1>1, RemoveAllSubset DEF FoldersAfterFailure
<1>2. CASE o # "LoadError"
  BY <1>2 DEF FoldersAfterFailure, Outcomes
<1>. QED
  BY <1>1, <1>2

-----------------------------------------------------------------------------
(* Type correctness: every reachable state has the types of TypeOK, and a  *)
(* lookup past the HasANNSnapshots check never holds a null pointer.       *)
LEMMA TypeInvInit == Init => TypeInv
  BY DEF Init, TypeInv, TypeOK, None, NoResult

LEMMA TypeInvStep == TypeInv /\ [Next]_vars => TypeInv'
  <2> SUFFICES ASSUME TypeInv, [Next]_vars PROVE TypeInv'
    OBVIOUS
  <2>. USE DEF TypeInv, TypeOK
  <2>1. ASSUME NEW n \in Names, TryAddNotFresh(n) PROVE TypeInv'
    BY <2>1 DEF TryAddNotFresh
  <2>2. ASSUME NEW n \in Names, NEW o \in Outcomes, TryAddFailed(n, o)
        PROVE TypeInv'
    <3>1. o \in Outcomes \ {"Loaded"} /\ FolderOf(n) \in Names \cup {Root}
      BY <2>2 DEF TryAddFailed, FolderOf
    <3>2. disk' \subseteq Names \cup {Root}
      BY <2>2, <3>1, FoldersAfterFailureSubset DEF TryAddFailed
    <3>. QED
      BY <2>2, <3>2 DEF TryAddFailed
  <2>3. ASSUME NEW n \in Names, TryAddLoaded(n) PROVE TypeInv'
    BY <2>3, NamesAssumption DEF TryAddLoaded, FolderOf, EmptyName, Root
  <2>4. CASE PushBack
    BY <2>4 DEF PushBack
  <2>5. CASE SetActual
    BY <2>5 DEF SetActual
  <2>6. CASE RemoveUnusedPop
    <3>1. Head(deque) \in Names /\ Tail(deque) \in Seq(Names)
      BY <2>6 DEF RemoveUnusedPop
    <3>2. disk' \subseteq Names \cup {Root}
      BY <2>6, <3>1, RemoveAllSubset DEF RemoveUnusedPop
    <3>. QED
      BY <2>6, <3>1, <3>2 DEF RemoveUnusedPop
  <2>7. CASE RemoveUnusedStop
    BY <2>7 DEF RemoveUnusedStop, None
  <2>8. ASSUME NEW r \in Readers, GetKeyValueSetNone(r) PROVE TypeInv'
    BY <2>8 DEF GetKeyValueSetNone, NoResult
  <2>9. ASSUME NEW r \in Readers, GetActualANNSnapshot(r) PROVE TypeInv'
    BY <2>9 DEF GetActualANNSnapshot, HasANNSnapshots
  <2>10. ASSUME NEW r \in Readers, CopyIncrement(r) PROVE TypeInv'
    BY <2>10 DEF CopyIncrement
  <2>11. ASSUME NEW r \in Readers, SearchAndRelease(r) PROVE TypeInv'
    BY <2>11 DEF SearchAndRelease, None
  <2>12. CASE UNCHANGED vars
    BY <2>12 DEF vars
  <2>. QED
    BY <2>1, <2>2, <2>3, <2>4, <2>5, <2>6, <2>7, <2>8, <2>9, <2>10, <2>11,
       <2>12 DEF Next, Writer, Reader

THEOREM TypeCorrect == Spec => []TypeOK
<1>1. TypeInv => TypeOK
  BY DEF TypeInv
<1>. QED
  BY TypeInvInit, TypeInvStep, <1>1, PTL DEF Spec

-----------------------------------------------------------------------------
(* Popping the front of a strictly increasing deque removes exactly the    *)
(* front's name: the names behind it are all larger (no duplicates).       *)
LEMMA TailElements ==
    ASSUME NEW q \in Seq(Names), q # <<>>,
           \A k, m \in DOMAIN q : k < m => q[k] < q[m]
    PROVE  {Tail(q)[i] : i \in DOMAIN Tail(q)} = {q[i] : i \in DOMAIN q} \ {q[1]}
<1>. USE NamesAssumption
<1>1. ASSUME NEW i \in DOMAIN Tail(q)
      PROVE  Tail(q)[i] = q[i + 1] /\ i + 1 \in DOMAIN q /\ 1 < i + 1
  OBVIOUS
<1>2. ASSUME NEW i \in DOMAIN q PROVE q[i] \in Nat
  <2>1. q[i] \in Names
    OBVIOUS
  <2>. QED
    BY <2>1
<1>3. ASSUME NEW i \in DOMAIN Tail(q) PROVE Tail(q)[i] # q[1]
  <2>1. 1 \in DOMAIN q
    OBVIOUS
  <2>. QED
    BY <1>1, <1>2, <2>1
<1>4. ASSUME NEW j \in DOMAIN q, q[j] # q[1]
      PROVE  j - 1 \in DOMAIN Tail(q) /\ Tail(q)[j - 1] = q[j]
  <2>1. j # 1 /\ j \in 2..Len(q)
    BY <1>4
  <2>. QED
    BY <2>1
<1>5. \A x \in {Tail(q)[i] : i \in DOMAIN Tail(q)} : x \in {q[i] : i \in DOMAIN q} \ {q[1]}
  BY <1>1, <1>3
<1>6. \A x \in {q[i] : i \in DOMAIN q} \ {q[1]} : x \in {Tail(q)[i] : i \in DOMAIN Tail(q)}
  BY <1>4
<1>. QED
  BY <1>5, <1>6

(* push_back adds exactly the new name to the deque's names.               *)
LEMMA AppendElements ==
    ASSUME NEW q \in Seq(Names), NEW w \in Names
    PROVE  {Append(q, w)[i] : i \in DOMAIN Append(q, w)}
             = {q[i] : i \in DOMAIN q} \cup {w}
<1>1. ASSUME NEW i \in DOMAIN Append(q, w)
      PROVE  Append(q, w)[i] \in {q[k] : k \in DOMAIN q} \cup {w}
  <2>1. CASE i = Len(q) + 1
    BY <2>1
  <2>2. CASE i \in 1..Len(q)
    BY <2>2
  <2>. QED
    BY <2>1, <2>2
<1>2. ASSUME NEW k \in DOMAIN q
      PROVE  k \in DOMAIN Append(q, w) /\ Append(q, w)[k] = q[k]
  OBVIOUS
<1>3. Len(q) + 1 \in DOMAIN Append(q, w) /\ Append(q, w)[Len(q) + 1] = w
  OBVIOUS
<1>. QED
  BY <1>1, <1>2, <1>3

-----------------------------------------------------------------------------
(* The keeper's structure (KeeperConsistent) is preserved by every step.   *)
LEMMA KeeperInvStep == KeeperInv /\ [Next]_vars => KeeperInv'
<1> SUFFICES ASSUME KeeperInv, [Next]_vars PROVE KeeperInv'
  OBVIOUS
<1>. DEFINE Sorted(q) == \A k, m \in DOMAIN q : k < m => q[k] < q[m]
<1>0. TypeInv' /\ TypeOK /\ Sorted(deque)
  BY TypeInvStep DEF KeeperInv, TypeInv, KeeperConsistent
<1>. USE NamesAssumption
<1>1. ASSUME NEW n \in Names, TryAddNotFresh(n) PROVE KeeperInv'
  BY <1>0, <1>1 DEF TryAddNotFresh, KeeperInv, KeeperConsistent, InDeque
<1>2. ASSUME NEW n \in Names, NEW o \in Outcomes, TryAddFailed(n, o)
      PROVE KeeperInv'
  BY <1>0, <1>2 DEF TryAddFailed, KeeperInv, KeeperConsistent, InDeque
<1>3. ASSUME NEW n \in Names, TryAddLoaded(n) PROVE KeeperInv'
  <2>1. deque # <<>> => n > deque[Len(deque)]
    BY <1>3 DEF TryAddLoaded, CheckNewSnapshotIsFresh, KeeperInv, KeeperConsistent
  <2>. QED
    BY <1>0, <1>3, <2>1 DEF TryAddLoaded, KeeperInv, KeeperConsistent, InDeque
<1>4. CASE PushBack
  <2>1. wname \in Names /\ deque \in Seq(Names)
    BY <1>4 DEF PushBack, KeeperInv, TypeInv, TypeOK
  <2>2. \A i \in DOMAIN deque : deque[i] < wname
    <3>1. deque # <<>> => wname > deque[Len(deque)]
      BY <1>4 DEF PushBack, KeeperInv
    <3>. SUFFICES ASSUME NEW i \in DOMAIN deque PROVE deque[i] < wname
      OBVIOUS
    <3>a. DOMAIN deque = 1..Len(deque)
      BY <2>1
    <3>b. Len(deque) \in DOMAIN deque /\ (i < Len(deque) \/ i = Len(deque))
      BY <2>1, <3>a
    <3>c0. deque[i] \in Names /\ deque[Len(deque)] \in Names
      BY <2>1, <3>b
    <3>c. deque[i] \in Nat /\ deque[Len(deque)] \in Nat /\ wname \in Nat
      BY <2>1, <3>c0, NamesAssumption
    <3>2. /\ Len(deque) \in DOMAIN deque
          /\ i < Len(deque) \/ i = Len(deque)
          /\ deque[i] \in Nat /\ deque[Len(deque)] \in Nat /\ wname \in Nat
      BY <3>b, <3>c
    <3>3. i < Len(deque) => deque[i] < deque[Len(deque)]
      BY <1>0, <3>2 DEF Sorted
    <3>. QED
      BY <3>1, <3>2, <3>3
  <2>3. Sorted(deque')
    BY <1>0, <1>4, <2>1, <2>2 DEF PushBack, Sorted
  <2>4. actual # None => InDeque(actual)'
    BY <1>4, <2>1 DEF PushBack, KeeperInv, KeeperConsistent, InDeque
  <2>. QED
    BY <1>0, <1>4, <2>3, <2>4 DEF PushBack, KeeperInv, KeeperConsistent, Sorted
<1>5. CASE SetActual
  <2>1. deque # <<>> /\ deque \in Seq(Names)
    BY <1>0, <1>5 DEF SetActual, KeeperInv, TypeInv, TypeOK
  <2>2. actual' \in Names /\ Len(deque) \in DOMAIN deque
    BY <1>5, <2>1 DEF SetActual
  <2>3. actual' # None
    BY <2>2, NamesAssumption DEF None
  <2>4. InDeque(actual)'
    BY <1>5, <2>2 DEF SetActual, InDeque
  <2>5. Sorted(deque')
    BY <1>0, <1>5 DEF SetActual
  <2>. QED
    BY <1>0, <1>5, <2>1, <2>3, <2>4, <2>5 DEF SetActual, KeeperInv, KeeperConsistent, Sorted
<1>6. CASE RemoveUnusedPop
  <2>1. deque # <<>> /\ deque \in Seq(Names)
    BY <1>0, <1>6 DEF RemoveUnusedPop, TypeOK
  <2>2. InDeque(Head(deque)) /\ UseCount(Head(deque)) = 1
    BY <1>6, <2>1 DEF RemoveUnusedPop, InDeque
  <2>3. actual # Head(deque)
    BY <2>2, UniqueMeansUnheld
  <2>4. actual # None /\ InDeque(actual) /\ actual = deque[Len(deque)]
    BY <1>6, <2>1 DEF RemoveUnusedPop, KeeperInv, KeeperConsistent
  <2>5. Len(deque) > 1
    BY <2>1, <2>3, <2>4
  <2>6. Sorted(Tail(deque))
    BY <1>0, <2>1 DEF Sorted
  <2>7. Tail(deque) # <<>> /\ actual = Tail(deque)[Len(Tail(deque))]
    BY <2>1, <2>4, <2>5
  <2>8. \E i \in DOMAIN Tail(deque) : Tail(deque)[i] = actual
    BY <2>1, <2>5, <2>7
  <2>. QED
    BY <1>6, <2>6, <2>7, <2>8, <1>0
    DEF RemoveUnusedPop, KeeperInv, KeeperConsistent, InDeque, Sorted
<1>7. CASE RemoveUnusedStop
  BY <1>0, <1>7 DEF RemoveUnusedStop, KeeperInv, KeeperConsistent, InDeque
<1>8. ASSUME NEW r \in Readers, Reader(r) PROVE KeeperInv'
  <2>. UNCHANGED <<deque, actual, wpc, wname>>
    BY <1>8 DEF Reader, GetKeyValueSetNone, GetActualANNSnapshot,
                CopyIncrement, SearchAndRelease
  <2>. QED
    BY <1>0 DEF KeeperInv, KeeperConsistent, InDeque
<1>9. CASE UNCHANGED vars
  BY <1>0, <1>9 DEF vars, KeeperInv, KeeperConsistent, InDeque
<1>. QED
  BY <1>1, <1>2, <1>3, <1>4, <1>5, <1>6, <1>7, <1>8, <1>9 DEF Next, Writer

(* The keeper's collection stays ordered by freshness with the active      *)
(* snapshot at its back (KeeperConsistent), whatever the names, the number *)
(* of readers and whether the pointer copy is atomic.                      *)
THEOREM KeeperCorrect == Spec => []KeeperConsistent
<1>1. Init => KeeperInv
  BY TypeInvInit DEF Init, KeeperInv, KeeperConsistent, None
<1>2. KeeperInv => KeeperConsistent
  BY DEF KeeperInv
<1>. QED
  BY <1>1, KeeperInvStep, <1>2, PTL DEF Spec

-----------------------------------------------------------------------------
(* The step CountedReferencesKept allows: no snapshot that the active     *)
(* pointer or a lookup's completed copy refers to is destroyed.            *)
SparesCounted ==
    \A s \in alive :
        (s = actual \/ \E r \in Readers : ReaderHolds(r, s)) => s \in alive'

(* Only the reclamation pass destroys a snapshot, and the one it pops has  *)
(* use count one, so neither the active pointer nor a completed copy      *)
(* refers to it (UniqueMeansUnheld).  Nothing here depends on whether the *)
(* copy is atomic.                                                         *)
LEMMA SparesCountedStep == TypeInv /\ [Next]_vars => [SparesCounted]_vars
<1> SUFFICES ASSUME TypeInv, [Next]_vars PROVE [SparesCounted]_vars
  OBVIOUS
<1>1. CASE RemoveUnusedPop
  <2>1. deque \in Seq(Names) /\ deque # <<>>
    BY <1>1 DEF RemoveUnusedPop, TypeInv, TypeOK
  <2>2. InDeque(Head(deque)) /\ UseCount(Head(deque)) = 1
    BY <1>1, <2>1 DEF RemoveUnusedPop, InDeque
  <2>3. actual # Head(deque) /\ \A r \in Readers : ~ReaderHolds(r, Head(deque))
    BY <2>2, UniqueMeansUnheld
  <2>4. alive' = alive \ {Head(deque)}
    BY <1>1 DEF RemoveUnusedPop
  <2>. QED
    BY <2>3, <2>4 DEF SparesCounted
<1>2. CASE Next /\ ~RemoveUnusedPop
  <2>1. alive \subseteq alive'
    BY <1>2 DEF Next, Writer, Reader, TryAddNotFresh, TryAddFailed, TryAddLoaded,
                PushBack, SetActual, RemoveUnusedStop, GetKeyValueSetNone,
                GetActualANNSnapshot, CopyIncrement, SearchAndRelease
  <2>. QED
    BY <2>1 DEF SparesCounted
<1>3. CASE UNCHANGED vars
  BY <1>3 DEF vars
<1>. QED
  BY <1>1, <1>2, <1>3

(* Whether or not the copy of actual_ann_snapshot_ is atomic, the          *)
(* reclamation pass never destroys the active snapshot nor one that a     *)
(* lookup holds after its copy's increment (CountedReferencesKept), for   *)
(* any names and any number of readers.  The use-after-free of            *)
(* keeper_race is therefore confined to a copy that has loaded the        *)
(* pointer and not yet incremented the count.                              *)
THEOREM EvictionSparesCounted == Spec => CountedReferencesKept
<1>. QED
  BY TypeInvInit, TypeInvStep, SparesCountedStep, PTL
  DEF Spec, CountedReferencesKept, SparesCounted

-----------------------------------------------------------------------------
(* The live snapshots are the deque's plus the one being pushed, whether   *)
(* or not the pointer copy is atomic.                                      *)
AliveInv ==
    /\ KeeperInv
    /\ alive = Kept \cup (IF wpc = "PushBack" THEN {wname} ELSE {})

(* Every folder is owned: DirectoryOwnership, on top of AliveInv.          *)
DirInv ==
    /\ AliveInv
    /\ DirectoryOwnership

(* No lookup is ahead of the active snapshot: a lookup in progress has     *)
(* read a snapshot no newer than the active one, and its last answer is    *)
(* no newer either and no newer than the snapshot it is now reading.       *)
MonoInv ==
    /\ KeeperInv
    /\ \A r \in Readers : rpc[r] # "idle" =>
          actual \in Names /\ rsnap[r] <= actual
    /\ \A r \in Readers : rresult[r] \in Names =>
          /\ actual \in Names
          /\ rresult[r] <= actual
          /\ rpc[r] # "idle" => rsnap[r] >= rresult[r]

(* Every name of a sorted deque is at most its back.                        *)
LEMMA BelowBack ==
    ASSUME NEW q \in Seq(Names), q # <<>>,
           \A k, m \in DOMAIN q : k < m => q[k] < q[m],
           NEW i \in DOMAIN q
    PROVE  q[i] <= q[Len(q)]
<1>1. Len(q) \in DOMAIN q /\ (i < Len(q) \/ i = Len(q))
  OBVIOUS
<1>2. q[i] \in Nat /\ q[Len(q)] \in Nat
  <2>1. q[i] \in Names /\ q[Len(q)] \in Names
    BY <1>1
  <2>. QED
    BY <2>1, NamesAssumption
<1>. QED
  BY <1>1, <1>2

(* A fresh name is not live while the writer is idle: it is newer than the *)
(* back of the deque, which holds every live snapshot.                     *)
LEMMA FreshNotAlive ==
    ASSUME AliveInv, wpc = "Idle", NEW n \in Names, CheckNewSnapshotIsFresh(n)
    PROVE  n \notin alive
<1>. DEFINE Sorted(q) == \A k, m \in DOMAIN q : k < m => q[k] < q[m]
<1>1. alive = Kept /\ deque \in Seq(Names) /\ Sorted(deque)
  BY DEF AliveInv, KeeperInv, TypeInv, TypeOK, KeeperConsistent
<1>2. CASE deque = <<>>
  BY <1>1, <1>2 DEF Kept
<1>3. CASE deque # <<>>
  <2>1. actual = deque[Len(deque)] /\ n > actual
    BY <1>3 DEF AliveInv, KeeperInv, KeeperConsistent, CheckNewSnapshotIsFresh
  <2>2. ASSUME NEW i \in DOMAIN deque PROVE deque[i] # n
    <3>1. deque[i] <= deque[Len(deque)]
      BY <1>1, <1>3, BelowBack
    <3>a. deque[i] \in Names /\ deque[Len(deque)] \in Names
      BY <1>1, <1>3
    <3>2. deque[i] \in Nat /\ n \in Nat /\ deque[Len(deque)] \in Nat
      BY <3>a, NamesAssumption
    <3>. QED
      BY <2>1, <3>1, <3>2
  <2>. QED
    BY <1>1, <2>2 DEF Kept
<1>. QED
  BY <1>2, <1>3

(* The live snapshots are the deque's (plus the one being pushed), for     *)
(* either kind of pointer copy.                                            *)
LEMMA AliveInvStep == AliveInv /\ [Next]_vars => AliveInv'
<1> SUFFICES ASSUME AliveInv, [Next]_vars PROVE AliveInv'
  OBVIOUS
<1>0. KeeperInv' /\ TypeOK /\ KeeperConsistent
      /\ alive = Kept \cup (IF wpc = "PushBack" THEN {wname} ELSE {})
  BY KeeperInvStep DEF AliveInv, KeeperInv, TypeInv
<1>1. ASSUME NEW n \in Names, TryAddNotFresh(n) PROVE AliveInv'
  BY <1>0, <1>1 DEF TryAddNotFresh, AliveInv, Kept
<1>2. ASSUME NEW n \in Names, NEW o \in Outcomes, TryAddFailed(n, o)
      PROVE AliveInv'
  BY <1>0, <1>2 DEF TryAddFailed, AliveInv, Kept
<1>3. ASSUME NEW n \in Names, TryAddLoaded(n) PROVE AliveInv'
  BY <1>0, <1>3 DEF TryAddLoaded, AliveInv, Kept
<1>4. CASE PushBack
  <2>1. deque \in Seq(Names) /\ wname \in Names
    BY <1>4 DEF AliveInv, KeeperInv, TypeInv, TypeOK, PushBack
  <2>2. Kept' = Kept \cup {wname}
    BY <1>4, <2>1, AppendElements DEF PushBack, Kept
  <2>. QED
    BY <1>0, <1>4, <2>2 DEF PushBack, AliveInv
<1>5. CASE SetActual
  BY <1>0, <1>5 DEF SetActual, AliveInv, Kept
<1>6. CASE RemoveUnusedPop
  <2>1. deque \in Seq(Names) /\ deque # <<>>
        /\ \A k, m \in DOMAIN deque : k < m => deque[k] < deque[m]
    BY <1>0, <1>6 DEF RemoveUnusedPop, TypeOK, KeeperConsistent
  <2>2. Kept' = Kept \ {Head(deque)}
    <3>1. deque' = Tail(deque) /\ Head(deque) = deque[1]
      BY <1>6, <2>1 DEF RemoveUnusedPop
    <3>2. {Tail(deque)[i] : i \in DOMAIN Tail(deque)}
            = {deque[i] : i \in DOMAIN deque} \ {deque[1]}
      BY <2>1, TailElements
    <3>. QED
      BY <3>1, <3>2 DEF Kept
  <2>. QED
    BY <1>0, <1>6, <2>2 DEF RemoveUnusedPop, AliveInv
<1>7. CASE RemoveUnusedStop
  BY <1>0, <1>7 DEF RemoveUnusedStop, AliveInv, Kept
<1>8. ASSUME NEW r \in Readers, Reader(r) PROVE AliveInv'
  <2>. UNCHANGED <<deque, actual, alive, wpc, wname>>
    BY <1>8 DEF Reader, GetKeyValueSetNone, GetActualANNSnapshot,
                CopyIncrement, SearchAndRelease
  <2>. QED
    BY <1>0 DEF AliveInv, Kept
<1>9. CASE UNCHANGED vars
  BY <1>0, <1>9 DEF vars, AliveInv, Kept
<1>. QED
  BY <1>1, <1>2, <1>3, <1>4, <1>5, <1>6, <1>7, <1>8, <1>9 DEF Next, Writer

(* A non-empty name's folder is root / name, which is not the root.        *)
LEMMA FolderOfName ==
    ASSUME EmptyName \notin Names, NEW n \in Names
    PROVE  FolderOf(n) = n /\ n # Root
  BY NamesAssumption DEF FolderOf, Root

(* Folders stay owned: each step keeps every live snapshot's folder and    *)
(* removes or leaves only folders of snapshots it destroys or never made.  *)
LEMMA DirInvStep ==
    ASSUME EmptyName \notin Names
    PROVE  DirInv /\ [Next]_vars => DirInv'
<1> SUFFICES ASSUME DirInv, [Next]_vars PROVE DirInv'
  OBVIOUS
<1>0. AliveInv' /\ AliveInv /\ DirectoryOwnership /\ alive \subseteq Names
  BY AliveInvStep DEF DirInv, AliveInv, KeeperInv, TypeInv, TypeOK
<1>f. \A s \in alive : FolderOf(s) = s /\ s # Root
  BY <1>0, FolderOfName
<1>u. ASSUME UNCHANGED <<alive, disk>> PROVE DirInv'
  BY <1>0, <1>u DEF DirInv, DirectoryOwnership
<1>1. ASSUME NEW n \in Names, TryAddNotFresh(n) PROVE DirInv'
  BY <1>1, <1>u DEF TryAddNotFresh
<1>2. ASSUME NEW n \in Names, NEW o \in Outcomes, TryAddFailed(n, o)
      PROVE DirInv'
  <2>1. n \notin alive
    BY <1>0, <1>2, FreshNotAlive DEF TryAddFailed
  <2>2. FolderOf(n) = n /\ n # Root
    BY FolderOfName
  <2>3. alive' = alive
    BY <1>2 DEF TryAddFailed
  <2>4. disk' \subseteq disk \cup {Root} /\ disk \ {n} \subseteq disk'
    <3>1. CASE o = "RootFolderError"
      BY <1>2, <3>1 DEF TryAddFailed, FoldersAfterFailure
    <3>2. CASE o = "SnapshotFolderError"
      BY <1>2, <3>2 DEF TryAddFailed, FoldersAfterFailure
    <3>3. CASE o = "LoadError"
      BY <1>2, <2>2, <3>3 DEF TryAddFailed, FoldersAfterFailure, RemoveAll
    <3>. QED
      BY <1>2, <3>1, <3>2, <3>3 DEF TryAddFailed, Outcomes
  <2>5. ASSUME NEW f \in disk', f # Root PROVE f \in disk /\ f # n
    <3>1. CASE o = "LoadError"
      BY <1>2, <2>2, <2>5, <3>1 DEF TryAddFailed, FoldersAfterFailure, RemoveAll
    <3>2. CASE o # "LoadError"
      <4>1. disk' \subseteq disk \cup {Root}
        BY <1>2, <3>2 DEF TryAddFailed, FoldersAfterFailure, Outcomes
      <4>2. f \in disk
        BY <2>5, <4>1
      <4>3. PICK s \in alive : FolderOf(s) = f
        BY <1>0, <2>5, <4>2 DEF DirectoryOwnership
      <4>. QED
        BY <1>f, <2>1, <4>2, <4>3
    <3>. QED
      BY <3>1, <3>2
  <2>. QED
    BY <1>0, <1>f, <2>1, <2>3, <2>4, <2>5 DEF DirInv, DirectoryOwnership
<1>3. ASSUME NEW n \in Names, TryAddLoaded(n) PROVE DirInv'
  <2>1. FolderOf(n) = n
    BY FolderOfName
  <2>. QED
    BY <1>0, <1>3, <2>1 DEF TryAddLoaded, DirInv, DirectoryOwnership
<1>4. CASE PushBack
  BY <1>4, <1>u DEF PushBack
<1>5. CASE SetActual
  BY <1>5, <1>u DEF SetActual
<1>6. CASE RemoveUnusedPop
  <2>. DEFINE h == Head(deque)
  <2>0. deque \in Seq(Names) /\ deque # <<>>
    BY <1>0, <1>6 DEF RemoveUnusedPop, AliveInv, KeeperInv, TypeInv, TypeOK
  <2>1. h \in Names
    BY <2>0
  <2>2. FolderOf(h) = h /\ h # Root
    BY <2>1, FolderOfName
  <2>3. alive' = alive \ {h} /\ disk' = disk \ {h}
    BY <1>6, <2>2 DEF RemoveUnusedPop, RemoveAll
  <2>. QED
    BY <1>0, <1>f, <2>3 DEF DirInv, DirectoryOwnership
<1>7. CASE RemoveUnusedStop
  BY <1>7, <1>u DEF RemoveUnusedStop
<1>8. ASSUME NEW r \in Readers, Reader(r) PROVE DirInv'
  BY <1>8, <1>u DEF Reader, GetKeyValueSetNone, GetActualANNSnapshot,
                    CopyIncrement, SearchAndRelease
<1>9. CASE UNCHANGED vars
  BY <1>9, <1>u DEF vars
<1>. QED
  BY <1>1, <1>2, <1>3, <1>4, <1>5, <1>6, <1>7, <1>8, <1>9 DEF Next, Writer

(* For snapshot names that are not empty, every live snapshot's folder     *)
(* exists and every folder below the root belongs to a live snapshot: the  *)
(* failure paths of HandleIncomingSnapshot and of loading, the Config's    *)
(* remove_all on destruction and the reclamation loop never delete a live *)
(* snapshot's folder and never leak one, whatever the readers do and       *)
(* whether the pointer copy is atomic.  (With "" the root is a snapshot    *)
(* folder, and the keeper_emptyname run shows the property failing.)       *)
THEOREM FoldersOwned ==
    ASSUME EmptyName \notin Names
    PROVE  Spec => []DirectoryOwnership
<1>1. Init => DirInv
  BY TypeInvInit DEF Init, DirInv, AliveInv, KeeperInv, KeeperConsistent,
                     None, Kept, DirectoryOwnership
<1>2. DirInv => DirectoryOwnership
  BY DEF DirInv
<1>. QED
  BY <1>1, DirInvStep, <1>2, PTL DEF Spec

-----------------------------------------------------------------------------
(* The active snapshot only moves forward: once set it stays a name, and   *)
(* the hot swap installs the back of the deque, which is at least as new.  *)
LEMMA ActualGrows ==
    ASSUME KeeperInv, [Next]_vars, actual \in Names
    PROVE  actual' \in Names /\ actual' >= actual
<1>1. CASE SetActual
  <2>1. deque \in Seq(Names) /\ deque # <<>>
        /\ \A k, m \in DOMAIN deque : k < m => deque[k] < deque[m]
    BY <1>1 DEF SetActual, KeeperInv, TypeInv, TypeOK, KeeperConsistent
  <2>2. PICK i \in DOMAIN deque : deque[i] = actual
    BY NamesAssumption DEF KeeperInv, KeeperConsistent, InDeque, None
  <2>3. actual <= deque[Len(deque)]
    BY <2>1, <2>2, BelowBack
  <2>4. actual' = deque[Len(deque)] /\ deque[Len(deque)] \in Names
    BY <1>1, <2>1 DEF SetActual
  <2>5. actual \in Nat /\ actual' \in Nat
    BY <2>4, NamesAssumption
  <2>. QED
    BY <2>3, <2>4, <2>5
<1>2. CASE ~SetActual
  <2>1. actual' = actual
    BY <1>2 DEF Next, Writer, Reader, vars, TryAddNotFresh, TryAddFailed,
                TryAddLoaded, PushBack, RemoveUnusedPop, RemoveUnusedStop,
                GetKeyValueSetNone, GetActualANNSnapshot, CopyIncrement,
                SearchAndRelease
  <2>. QED
    BY <2>1, NamesAssumption
<1>. QED
  BY <1>1, <1>2

(* MonoInv is preserved: every lookup's snapshot and last answer stay at   *)
(* or behind the active snapshot, which only moves forward.                *)
LEMMA MonoInvStep == MonoInv /\ [Next]_vars => MonoInv'
<1> SUFFICES ASSUME MonoInv, [Next]_vars PROVE MonoInv'
  OBVIOUS
<1>. DEFINE Conj(t) ==
        /\ rpc[t] # "idle" => actual \in Names /\ rsnap[t] <= actual
        /\ rresult[t] \in Names =>
              /\ actual \in Names
              /\ rresult[t] <= actual
              /\ rpc[t] # "idle" => rsnap[t] >= rresult[t]
<1>0. /\ KeeperInv' /\ KeeperInv /\ TypeOK /\ KeeperConsistent
      /\ \A t \in Readers : Conj(t)
  BY KeeperInvStep DEF MonoInv, KeeperInv, TypeInv
<1>g. actual \in Names => actual' \in Names /\ actual' >= actual
  BY <1>0, ActualGrows
<1>N. Names \subseteq Nat /\ NoResult \notin Names /\ None \notin Names
  BY NamesAssumption DEF NoResult, None
<1>1. ASSUME NEW t \in Readers,
             rpc'[t] = rpc[t], rsnap'[t] = rsnap[t], rresult'[t] = rresult[t]
      PROVE  Conj(t)'
  <2>1. Conj(t)
    BY <1>0
  <2>2. rpc[t] # "idle" => rsnap[t] \in Names
    BY <1>0 DEF TypeOK
  <2>3. rresult[t] \in Names \/ rresult[t] = NoResult
    BY <1>0 DEF TypeOK
  <2>4. actual \in Names => actual \in Nat /\ actual' \in Nat
    BY <1>g, <1>N
  <2>5. rpc[t] # "idle" => rsnap[t] \in Nat
    BY <2>2, <1>N
  <2>6. rresult[t] \in Names => rresult[t] \in Nat
    BY <1>N
  <2>. QED
    BY <1>1, <1>g, <2>1, <2>4, <2>5, <2>6
<1>2. ASSUME NEW t \in Readers, GetKeyValueSetNone(t) PROVE Conj(t)'
  BY <1>2, <1>N, <1>0 DEF GetKeyValueSetNone, TypeOK
<1>3. ASSUME NEW t \in Readers, GetActualANNSnapshot(t) PROVE Conj(t)'
  <2>1. actual \in Names /\ actual' = actual /\ rsnap'[t] = actual
        /\ rresult'[t] = rresult[t]
    BY <1>3, <1>0 DEF GetActualANNSnapshot, HasANNSnapshots, TypeOK
  <2>2. actual \in Nat
    BY <2>1, <1>N
  <2>3. rresult[t] \in Names => rresult[t] <= actual /\ rresult[t] \in Nat
    BY <1>0, <1>N
  <2>. QED
    BY <2>1, <2>2, <2>3
<1>4. ASSUME NEW t \in Readers, CopyIncrement(t) PROVE Conj(t)'
  <2>1. rpc[t] # "idle" /\ rpc'[t] # "idle" /\ actual' = actual
        /\ rsnap'[t] = rsnap[t] /\ rresult'[t] = rresult[t]
    BY <1>4, <1>0 DEF CopyIncrement, TypeOK
  <2>. QED
    BY <1>0, <2>1
<1>5. ASSUME NEW t \in Readers, SearchAndRelease(t) PROVE Conj(t)'
  <2>1. rpc[t] # "idle" /\ rpc'[t] = "idle" /\ actual' = actual
        /\ rresult'[t] = rsnap[t]
    BY <1>5, <1>0 DEF SearchAndRelease, TypeOK
  <2>2. actual \in Names /\ rsnap[t] <= actual
    BY <1>0, <2>1
  <2>. QED
    BY <2>1, <2>2
<1>6. ASSUME NEW t \in Readers PROVE Conj(t)'
  <2>1. CASE \E r \in Readers : Reader(r)
    <3>1. PICK r \in Readers : Reader(r)
      BY <2>1
    <3>2. CASE r = t
      BY <1>2, <1>3, <1>4, <1>5, <3>1, <3>2 DEF Reader
    <3>3. CASE r # t
      <4>1. rpc'[t] = rpc[t] /\ rsnap'[t] = rsnap[t] /\ rresult'[t] = rresult[t]
        BY <1>0, <3>1, <3>3 DEF Reader, GetKeyValueSetNone, GetActualANNSnapshot,
                                CopyIncrement, SearchAndRelease, TypeOK
      <4>. QED
        BY <1>1, <4>1
    <3>. QED
      BY <3>2, <3>3
  <2>2. CASE ~\E r \in Readers : Reader(r)
    <3>1. UNCHANGED <<rpc, rsnap, rresult>>
      BY <2>2 DEF Next, Writer, vars, TryAddNotFresh, TryAddFailed,
                  TryAddLoaded, PushBack, SetActual, RemoveUnusedPop,
                  RemoveUnusedStop
    <3>. QED
      BY <1>1, <3>1
  <2>. QED
    BY <2>1, <2>2
<1>. QED
  BY <1>0, <1>6 DEF MonoInv

(* A lookup thread's answers never go back: a step either leaves a         *)
(* thread's last answer alone or replaces a snapshot by one at least as    *)
(* new, never by "no snapshot".                                            *)
ReadsNeverBack ==
    \A r \in Readers :
        rresult[r] \in Names =>
            rresult'[r] \in Names /\ rresult'[r] >= rresult[r]

LEMMA MonoReadsStep == MonoInv /\ [Next]_vars => [ReadsNeverBack]_vars
<1> SUFFICES ASSUME MonoInv, [Next]_vars PROVE ReadsNeverBack
  BY DEF ReadsNeverBack
<1>0. TypeOK /\ KeeperConsistent
  BY DEF MonoInv, KeeperInv, TypeInv
<1>N. Names \subseteq Nat /\ NoResult \notin Names /\ None \notin Names
  BY NamesAssumption DEF NoResult, None
<1> SUFFICES ASSUME NEW t \in Readers, rresult[t] \in Names
             PROVE  rresult'[t] \in Names /\ rresult'[t] >= rresult[t]
  BY DEF ReadsNeverBack
<1>1. actual \in Names /\ rresult[t] \in Nat
  BY <1>N DEF MonoInv
<1>2. HasANNSnapshots
  BY <1>0, <1>1, <1>N DEF HasANNSnapshots, KeeperConsistent, InDeque
<1>3. CASE rresult'[t] = rresult[t]
  BY <1>1, <1>3
<1>4. CASE rresult'[t] # rresult[t]
  \* only the thread's own SearchAndRelease (not GetKeyValueSetNone, which
  \* needs no snapshot) changes its answer
  <2>1. SearchAndRelease(t)
    <3>1. PICK r \in Readers : Reader(r) /\ rresult'[t] # rresult[t]
      BY <1>4 DEF Next, Writer, vars, TryAddNotFresh, TryAddFailed,
                  TryAddLoaded, PushBack, SetActual, RemoveUnusedPop,
                  RemoveUnusedStop
    <3>2. r = t
      BY <1>0, <3>1 DEF Reader, GetKeyValueSetNone, GetActualANNSnapshot,
                        CopyIncrement, SearchAndRelease, TypeOK
    <3>. QED
      BY <1>2, <3>1, <3>2 DEF Reader, GetKeyValueSetNone, GetActualANNSnapshot,
                              CopyIncrement
  <2>2. rresult'[t] = rsnap[t] /\ rpc[t] # "idle"
    BY <1>0, <2>1 DEF SearchAndRelease, TypeOK
  <2>3. rsnap[t] \in Names /\ rsnap[t] >= rresult[t]
    BY <1>0, <2>2 DEF MonoInv, TypeOK
  <2>. QED
    BY <2>2, <2>3
<1>. QED
  BY <1>3, <1>4

(* A lookup thread never goes back in time (MonotonicReads): once it has   *)
(* been answered from snapshot n, GetKeyValueSet answers it from n or a   *)
(* newer snapshot, never an older one and never "no snapshot", because     *)
(* HasANNSnapshots stays true once a snapshot is active and the hot swap   *)
(* only installs fresher snapshots.  This holds for any names and any      *)
(* number of readers, with or without an atomic pointer copy.              *)
THEOREM ReadsMonotonic == Spec => MonotonicReads
<1>1. Init => MonoInv
  BY TypeInvInit, NamesAssumption
  DEF Init, MonoInv, KeeperInv, KeeperConsistent, None, NoResult
<1>2. MonoInv /\ [Next]_vars => MonoInv'
  BY MonoInvStep
<1>. QED
  BY <1>1, <1>2, MonoReadsStep, PTL DEF Spec, MonotonicReads, ReadsNeverBack
=============================================================================
