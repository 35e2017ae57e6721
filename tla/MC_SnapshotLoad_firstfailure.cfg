CONSTANTS
    MaxTotalCount <- MCMaxTotalCount
    MaxStrLen <- MCMaxStrLen
    Chars <- MCChars
    Files <- MCFiles
    Missing = Missing
SPECIFICATION Spec
INVARIANTS
    FirstFailureReported
CHECK_DEADLOCK FALSE
