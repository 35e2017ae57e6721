\* The code as written; reclamation only runs inside TryAddANNSnapshot; no symmetry (liveness).
CONSTANTS
    r1 = r1
    r2 = r2
    Readers <- MCReaders
    Names = {1, 2}
    AtomicCopy = FALSE
SPECIFICATION Spec
PROPERTIES
    EventuallyReclaimed
