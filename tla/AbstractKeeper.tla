--------------------------- MODULE AbstractKeeper ---------------------------
(***************************************************************************)
(* What the snapshot keeper promises (spec sections 2, 4.5 and 5), with    *)
(* no pointers and no use counts: an ordered collection of snapshots,      *)
(* oldest first, that only grows by fresher snapshots; an active snapshot  *)
(* that is published in one step and is the collection's newest; lookups  *)
(* that pin the active snapshot for the length of a search; and eviction   *)
(* from the front only, of a snapshot that is neither active nor pinned.   *)
(* A snapshot leaves the collection exactly when it is destroyed.          *)
(***************************************************************************)
EXTENDS Integers, Sequences

CONSTANTS
    Names,      \* snapshot names, ordered by freshness
    Readers,    \* lookup threads
    None        \* no snapshot

VARIABLES
    coll,       \* the collection, oldest first
    active,     \* the active snapshot, or None
    pinned      \* the snapshot each lookup holds, or None

vars == <<coll, active, pinned>>

Init ==
    /\ coll = <<>>
    /\ active = None
    /\ pinned = [r \in Readers |-> None]

\* A snapshot fresher than every collected one is accepted and loaded.
Add(n) ==
    /\ coll = <<>> \/ n > coll[Len(coll)]
    /\ coll' = Append(coll, n)
    /\ UNCHANGED <<active, pinned>>

\* The newest snapshot is published as the active one.
Publish ==
    /\ coll # <<>>
    /\ active' = coll[Len(coll)]
    /\ UNCHANGED <<coll, pinned>>

\* A lookup takes the active snapshot.
Pin(r) ==
    /\ pinned[r] = None /\ active # None
    /\ pinned' = [pinned EXCEPT ![r] = active]
    /\ UNCHANGED <<coll, active>>

\* A lookup ends and lets its snapshot go.
Unpin(r) ==
    /\ pinned[r] # None
    /\ pinned' = [pinned EXCEPT ![r] = None]
    /\ UNCHANGED <<coll, active>>

\* The oldest snapshot is evicted (and destroyed) when nothing uses it.
Evict ==
    /\ coll # <<>>
    /\ Head(coll) # active
    /\ \A r \in Readers : pinned[r] # Head(coll)
    /\ coll' = Tail(coll)
    /\ UNCHANGED <<active, pinned>>

Next ==
    \/ \E n \in Names : Add(n)
    \/ Publish
    \/ Evict
    \/ \E r \in Readers : Pin(r) \/ Unpin(r)

Spec == Init /\ [][Next]_vars
=============================================================================
