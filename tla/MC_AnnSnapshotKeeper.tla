------------------------ MODULE MC_AnnSnapshotKeeper ------------------------
(* Model-checking instance of AnnSnapshotKeeper: readers are model values. *)
EXTENDS AnnSnapshotKeeper, TLC

CONSTANTS r1, r2

MCReaders == {r1, r2}

ReaderSymmetry == Permutations(MCReaders)

=============================================================================
