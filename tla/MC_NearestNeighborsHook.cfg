CONSTANTS
    r1 = r1
    r2 = r2
    r3 = r3
    r4 = r4
    Requests <- MCRequests
    MaxInits = 1
SPECIFICATION Spec
INVARIANTS HookNoUseAfterFree
CHECK_DEADLOCK FALSE
