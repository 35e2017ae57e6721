\* The empty name "" (EmptyName = 0) is accepted as fresh by an empty keeper.
CONSTANTS
    r1 = r1
    r2 = r2
    Readers <- MCReaders
    Names = {0, 1, 2}
    AtomicCopy = TRUE
SPECIFICATION Spec
SYMMETRY ReaderSymmetry
INVARIANTS
    DirectoryOwnership
