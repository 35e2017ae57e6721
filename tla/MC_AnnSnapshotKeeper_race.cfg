\* The code as written: a lookup's copy of the active pointer races the hot swap.
CONSTANTS
    r1 = r1
    r2 = r2
    Readers <- MCReaders
    Names = {1, 2}
    AtomicCopy = FALSE
SPECIFICATION Spec
SYMMETRY ReaderSymmetry
INVARIANTS
    NoUseAfterFree
