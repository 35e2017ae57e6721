\* The code as written: the reader's shared_ptr copy is not atomic.
CONSTANTS
    r1 = r1
    r2 = r2
    Readers <- MCReaders
    Names = {1, 2, 3}
    AtomicCopy = FALSE
SPECIFICATION Spec
SYMMETRY ReaderSymmetry
INVARIANTS
    TypeOK
    KeeperConsistent
    DirectoryOwnership
PROPERTIES
    MonotonicReads
    
