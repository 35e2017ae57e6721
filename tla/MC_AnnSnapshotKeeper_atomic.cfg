\* The copy of actual_ann_snapshot_ made atomic, as the spec's section 5 requires.
CONSTANTS
    r1 = r1
    r2 = r2
    Readers <- MCReaders
    Names = {1, 2, 3}
    AtomicCopy = TRUE
SPECIFICATION Spec
SYMMETRY ReaderSymmetry
INVARIANTS
    NoUseAfterFree
PROPERTIES
    KeeperRefinesAbstract
