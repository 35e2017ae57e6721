------------------------- MODULE AnnSnapshotKeeper -------------------------
(***************************************************************************)
(* The ANN snapshot keeper (ANNSnapshotKeeper, snapshot_keeper.cc) and the *)
(* facade around it (ANNIndex, index.cc), with one writer thread that adds *)
(* snapshots and any number of reader threads that serve lookups.          *)
(*                                                                         *)
(* The keeper holds a deque of shared_ptr<ANNSnapshot> (oldest first) and  *)
(* a shared_ptr to the active snapshot.  A snapshot is identified by its   *)
(* name; names are naturals whose order is the lexicographic order of the  *)
(* zero-padded names the pipeline produces, and EmptyName (0) stands for   *)
(* the empty string "", the least string of all.  The shared_ptr use count *)
(* is not a variable: it is the number of holders (deque entry, active     *)
(* pointer, readers that copied the pointer), which is what use_count()    *)
(* counts.  The filesystem is the set of folders that exist below the      *)
(* snapshots root; a snapshot's Config owns its folder and removes it      *)
(* (remove_all) when the snapshot is destroyed.                            *)
(*                                                                         *)
(* Ingestion (HandleIncomingSnapshot) and loading (ANNSnapshot's           *)
(* constructor) happen on the writer's private objects; only their outcome *)
(* and their effect on the folders are visible to other threads, so they   *)
(* are one step with the outcome chosen from Outcomes.                     *)
(***************************************************************************)
EXTENDS Integers, Sequences, FiniteSets

CONSTANTS
    Names,       \* snapshot names the notifier may deliver
    Readers,     \* lookup threads
    AtomicCopy   \* TRUE: copying actual_ann_snapshot_ is one atomic step

ASSUME NamesAssumption == Names \subseteq Nat
ASSUME ReadersAssumption == IsFiniteSet(Readers)
ASSUME AtomicCopyAssumption == AtomicCopy \in BOOLEAN

\* the name "" (lexicographically smallest string)
EmptyName == 0
\* a null shared_ptr
None == -1
\* the snapshots root folder (snapshots_folder_); other folders are names
Root == -2
\* the answer of a lookup made while no snapshot is active
NoResult == -3

VARIABLES
    deque,     \* ann_snapshots_: names of the snapshots it holds, oldest first
    actual,    \* actual_ann_snapshot_: a name, or None
    alive,     \* snapshots constructed and not yet destroyed
    disk,      \* folders that exist: Root and per-snapshot folders
    wpc,       \* the writer's position inside ANNIndex::TryAddANNSnapshot
    wname,     \* the name the writer is adding
    rpc,       \* each reader's position inside ANNIndex::GetKeyValueSet
    rsnap,     \* the snapshot pointer each reader has read
    rresult    \* each reader's last answer: a snapshot name or NoResult

vars == <<deque, actual, alive, disk, wpc, wname, rpc, rsnap, rresult>>

\* how ingestion and loading of a fresh snapshot may end
Outcomes == {"RootFolderError", "SnapshotFolderError", "LoadError", "Loaded"}

InDeque(s) == \E i \in DOMAIN deque : deque[i] = s

ReaderHolds(r, s) == rpc[r] = "holding" /\ rsnap[r] = s

\* Mutant: the active pointer's reference is not counted.
UseCountWithoutActual(s) ==
    (IF InDeque(s) THEN 1 ELSE 0)
  + Cardinality({r \in Readers : ReaderHolds(r, s)})

\* Mutant: the readers' copies are not counted.
UseCountWithoutReaders(s) ==
    (IF InDeque(s) THEN 1 ELSE 0) + (IF actual = s THEN 1 ELSE 0)

\* shared_ptr<ANNSnapshot>::use_count() of snapshot s
UseCount(s) ==
    (IF InDeque(s) THEN 1 ELSE 0)
  + (IF actual = s THEN 1 ELSE 0)
  + Cardinality({r \in Readers : ReaderHolds(r, s)})

\* the folder std::filesystem::path(root) / name denotes
FolderOf(n) == IF n = EmptyName THEN Root ELSE n

\* std::filesystem::remove_all(f): removing the root removes every folder
RemoveAll(d, f) == IF f = Root THEN {} ELSE d \ {f}

\* Mutant: the folder of a snapshot that fails after its folder was made
\* is left on disk.
FoldersAfterFailureLeak(d, n, outcome) ==
    CASE outcome = "RootFolderError"     -> d
      [] outcome = "SnapshotFolderError" -> d \cup {Root}
      [] outcome = "LoadError"           -> d \cup {Root, FolderOf(n)}

\* The folders after HandleIncomingSnapshot or ANNSnapshot's constructor
\* fails with outcome: creating the root may fail (nothing created),
\* creating the snapshot's folder may fail (root created), or a later step
\* fails and the Config, which recorded the folder, removes it on return.
FoldersAfterFailure(d, n, outcome) ==
    CASE outcome = "RootFolderError"     -> d
      [] outcome = "SnapshotFolderError" -> d \cup {Root}
      [] outcome = "LoadError"           ->
            RemoveAll(d \cup {Root, FolderOf(n)}, FolderOf(n))

\* Mutant: freshness judged against the oldest snapshot kept.
CheckFreshAgainstFront(n) == IF deque = <<>> THEN TRUE ELSE n > Head(deque)

\* ANNSnapshotKeeper::CheckNewSnapshotIsFresh
CheckNewSnapshotIsFresh(n) == IF deque = <<>> THEN TRUE ELSE n > actual

\* Mutant: HasANNSnapshots looks at the deque only.
HasANNSnapshotsDequeOnly == deque # <<>>

\* ANNSnapshotKeeper::HasANNSnapshots
HasANNSnapshots == deque # <<>> /\ actual # None

-----------------------------------------------------------------------------
(* The keeper's constructor has removed the snapshots root.                *)
Init ==
    /\ deque = <<>>
    /\ actual = None
    /\ alive = {}
    /\ disk = {}
    /\ wpc = "Idle"
    /\ wname = None
    /\ rpc = [r \in Readers |-> "idle"]
    /\ rsnap = [r \in Readers |-> None]
    /\ rresult = [r \in Readers |-> NoResult]

(* Writer: TryAddANNSnapshot with a name that is not fresh.                *)
TryAddNotFresh(n) ==
    /\ wpc = "Idle"
    /\ ~CheckNewSnapshotIsFresh(n)
    /\ wpc' = "RemoveUnused"
    /\ UNCHANGED <<deque, actual, alive, disk, wname, rpc, rsnap, rresult>>

(* Writer: a fresh snapshot whose ingestion or loading fails.             *)
TryAddFailed(n, outcome) ==
    /\ wpc = "Idle"
    /\ CheckNewSnapshotIsFresh(n)
    /\ outcome # "Loaded"
    /\ disk' = FoldersAfterFailure(disk, n, outcome)
    /\ wpc' = "RemoveUnused"
    /\ UNCHANGED <<deque, actual, alive, wname, rpc, rsnap, rresult>>

(* Writer: a fresh snapshot is ingested into its folder and loaded.        *)
TryAddLoaded(n) ==
    /\ wpc = "Idle"
    /\ CheckNewSnapshotIsFresh(n)
    /\ disk' = disk \cup {Root, FolderOf(n)}
    /\ alive' = alive \cup {n}
    /\ wname' = n
    /\ wpc' = "PushBack"
    /\ UNCHANGED <<deque, actual, rpc, rsnap, rresult>>

(* Writer: ann_snapshots_.push_back(smart_ptr).                            *)
PushBack ==
    /\ wpc = "PushBack"
    /\ deque' = Append(deque, wname)
    /\ wpc' = "SetActual"
    /\ UNCHANGED <<actual, alive, disk, wname, rpc, rsnap, rresult>>

(* Writer: actual_ann_snapshot_ = ann_snapshots_.back() (the hot swap).    *)
SetActual ==
    /\ wpc = "SetActual"
    /\ actual' = deque[Len(deque)]
    /\ wpc' = "RemoveUnused"
    /\ UNCHANGED <<deque, alive, disk, wname, rpc, rsnap, rresult>>

(* Writer: one turn of TryRemoveUnusedANNSnapshots' loop that pops a front *)
(* snapshot whose use count is one; it is destroyed and its Config removes *)
(* its folder.                                                             *)
RemoveUnusedPop ==
    /\ wpc = "RemoveUnused"
    /\ deque # <<>>
    /\ UseCount(Head(deque)) = 1
    /\ deque' = Tail(deque)
    /\ alive' = alive \ {Head(deque)}
    /\ disk' = RemoveAll(disk, FolderOf(Head(deque)))
    /\ UNCHANGED <<actual, wpc, wname, rpc, rsnap, rresult>>

(* Writer: the loop stops at an empty deque or a front still in use, and   *)
(* TryAddANNSnapshot returns.                                              *)
RemoveUnusedStop ==
    /\ wpc = "RemoveUnused"
    /\ ~(deque # <<>> /\ UseCount(Head(deque)) = 1)
    /\ wpc' = "Idle"
    /\ wname' = None
    /\ UNCHANGED <<deque, actual, alive, disk, rpc, rsnap, rresult>>

\* Mutant: GetKeyValueSet returns nullptr without asking HasANNSnapshots.
GetKeyValueSetNoneUnchecked(r) ==
    /\ rpc[r] = "idle"
    /\ rresult' = [rresult EXCEPT ![r] = NoResult]
    /\ UNCHANGED <<deque, actual, alive, disk, wpc, wname, rpc, rsnap>>

(* Reader: GetKeyValueSet finds no snapshot and returns nullptr.           *)
GetKeyValueSetNone(r) ==
    /\ rpc[r] = "idle"
    /\ ~HasANNSnapshots
    /\ rresult' = [rresult EXCEPT ![r] = NoResult]
    /\ UNCHANGED <<deque, actual, alive, disk, wpc, wname, rpc, rsnap>>

(* Reader: GetActualANNSnapshot copies actual_ann_snapshot_.  The copy     *)
(* reads the pointer, then increments the use count; with AtomicCopy the   *)
(* two happen as one step.                                                 *)
GetActualANNSnapshot(r) ==
    /\ rpc[r] = "idle"
    /\ HasANNSnapshots
    /\ rsnap' = [rsnap EXCEPT ![r] = actual]
    /\ rpc' = [rpc EXCEPT ![r] = IF AtomicCopy THEN "holding" ELSE "loaded"]
    /\ UNCHANGED <<deque, actual, alive, disk, wpc, wname, rresult>>

(* Reader: the copy's increment of the use count, on its own.              *)
CopyIncrement(r) ==
    /\ rpc[r] = "loaded"
    /\ rpc' = [rpc EXCEPT ![r] = "holding"]
    /\ UNCHANGED <<deque, actual, alive, disk, wpc, wname, rsnap, rresult>>

(* Reader: Search and the Mapping lookups run on the copied snapshot; the  *)
(* answer is returned and the copy released.                               *)
SearchAndRelease(r) ==
    /\ rpc[r] = "holding"
    /\ rresult' = [rresult EXCEPT ![r] = rsnap[r]]
    /\ rpc' = [rpc EXCEPT ![r] = "idle"]
    /\ rsnap' = [rsnap EXCEPT ![r] = None]
    /\ UNCHANGED <<deque, actual, alive, disk, wpc, wname>>

Writer ==
    \/ \E n \in Names : TryAddNotFresh(n)
    \/ \E n \in Names, o \in Outcomes : TryAddFailed(n, o)
    \/ \E n \in Names : TryAddLoaded(n)
    \/ PushBack
    \/ SetActual
    \/ RemoveUnusedPop
    \/ RemoveUnusedStop

Reader(r) ==
    \/ GetKeyValueSetNone(r)
    \/ GetActualANNSnapshot(r)
    \/ CopyIncrement(r)
    \/ SearchAndRelease(r)

Next == Writer \/ \E r \in Readers : Reader(r)

(* A TryAddANNSnapshot call, once started, runs to its return, and a       *)
(* lookup runs to completion: no operation of this core blocks.  Arrivals  *)
(* of new snapshots are up to the notifier and get no fairness.           *)
Fairness ==
    /\ WF_vars(PushBack)
    /\ WF_vars(SetActual)
    /\ WF_vars(RemoveUnusedPop \/ RemoveUnusedStop)
    /\ \A r \in Readers : WF_vars(CopyIncrement(r))
    /\ \A r \in Readers : WF_vars(SearchAndRelease(r))

Spec == Init /\ [][Next]_vars /\ Fairness

-----------------------------------------------------------------------------
(* Every variable has its type; a reader past the HasANNSnapshots check    *)
(* has read a non-null snapshot pointer (GetKeyValueSet dereferences it    *)
(* without checking).                                                      *)
TypeOK ==
    /\ deque \in Seq(Names)
    /\ actual \in Names \cup {None}
    /\ alive \subseteq Names
    /\ disk \subseteq Names \cup {Root}
    /\ wpc \in {"Idle", "PushBack", "SetActual", "RemoveUnused"}
    /\ wname \in Names \cup {None}
    /\ rpc \in [Readers -> {"idle", "loaded", "holding"}]
    /\ rsnap \in [Readers -> Names \cup {None}]
    /\ rresult \in [Readers -> Names \cup {NoResult}]
    /\ \A r \in Readers : rpc[r] # "idle" => rsnap[r] \in Names

(* The keeper's collection is ordered by freshness and the active handle   *)
(* is its newest entry: names in ann_snapshots_ strictly increase front to *)
(* back, actual_ann_snapshot_ is always in the deque, and, outside the     *)
(* window between push_back and the hot swap, it is the back of the deque  *)
(* and is set exactly when the deque is non-empty.  Breaking it takes the  *)
(* freshness gate, the hot swap and the reclamation loop to disagree.      *)
KeeperConsistent ==
    /\ \A i, j \in DOMAIN deque : i < j => deque[i] < deque[j]
    /\ actual # None => InDeque(actual)
    /\ wpc # "SetActual" =>
          /\ (deque = <<>>) = (actual = None)
          /\ deque # <<>> => actual = deque[Len(deque)]

(* No reader uses a destroyed snapshot: a lookup that has read             *)
(* actual_ann_snapshot_ holds a snapshot that reclamation has not          *)
(* destroyed (the hot swap must never pull a snapshot away from an         *)
(* in-flight GetKeyValueSet).                                              *)
NoUseAfterFree ==
    \A r \in Readers : rpc[r] \in {"loaded", "holding"} => rsnap[r] \in alive

(* Every live snapshot's folder exists, and every snapshot folder on disk  *)
(* belongs to a live snapshot: ANNSnapshotConfig's destructor removes      *)
(* exactly its own folder, on every failure path and on reclamation.       *)
DirectoryOwnership ==
    /\ \A s \in alive : FolderOf(s) \in disk
    /\ \A f \in disk \ {Root} : \E s \in alive : FolderOf(s) = f

(* A reader never goes back in time: once a lookup of a thread answered    *)
(* from snapshot n, its later lookups answer from n or a newer snapshot,   *)
(* never from an older one and never "no snapshot".                        *)
MonotonicReads ==
    [][\A r \in Readers :
         rresult[r] \in Names =>
            rresult'[r] \in Names /\ rresult'[r] >= rresult[r]]_vars

(* The writer never destroys a snapshot that a counted reference holds:  *)
(* no step removes the snapshot actual_ann_snapshot_ points to, nor one a  *)
(* lookup holds after its copy's increment.  This is what the unique()    *)
(* test of TryRemoveUnusedANNSnapshots is for, for either copy mode; with *)
(* the code's two-step copy the one reference it cannot see is a copy     *)
(* that has loaded the pointer and not yet incremented (keeper_race).     *)
CountedReferencesKept ==
    [][\A s \in alive :
         (s = actual \/ \E r \in Readers : ReaderHolds(r, s)) => s \in alive']_vars

\* a snapshot a newer one has replaced as actual_ann_snapshot_
Superseded(s) == actual # None /\ s < actual

\* no lookup has read a pointer to s
Unreferenced(s) == \A r \in Readers : rpc[r] = "idle" \/ rsnap[r] # s

(* A snapshot that has been superseded and that no lookup references any   *)
(* more is eventually destroyed and its folder removed, as the comment on  *)
(* TryRemoveUnusedANNSnapshots expects ("called once in a few seconds")    *)
(* and spec section 2 says of superseded snapshots.                        *)
EventuallyReclaimed ==
    \A s \in Names :
        (s \in alive /\ Superseded(s) /\ Unreferenced(s)) ~> (s \notin alive)

-----------------------------------------------------------------------------
(* The refinement mapping to AbstractKeeper: the collection is the deque,  *)
(* the active snapshot is actual_ann_snapshot_, and a lookup pins the      *)
(* snapshot whose pointer it has read.                                      *)
Pinned == [r \in Readers |-> IF rpc[r] = "idle" THEN None ELSE rsnap[r]]

Abs == INSTANCE AbstractKeeper WITH coll <- deque, active <- actual, pinned <- Pinned

(* The keeper implements the abstract keeper of spec sections 4.5 and 5:   *)
(* every step of TryAddANNSnapshot, of the reclamation pass and of a       *)
(* lookup is an abstract step or changes nothing the abstraction shows.    *)
(* In particular the pass pops only a front that is neither active nor     *)
(* held by a lookup, and the hot swap publishes the newest snapshot.       *)
KeeperRefinesAbstract == Abs!Spec
=============================================================================
