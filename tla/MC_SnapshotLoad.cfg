CONSTANTS
    MaxTotalCount <- MCMaxTotalCount
    MaxStrLen <- MCMaxStrLen
    Chars <- MCChars
    Files <- MCFiles
    Missing = Missing
SPECIFICATION Spec
INVARIANTS
    TypeOK
    SnapshotOkIffLoaded
CHECK_DEADLOCK FALSE
