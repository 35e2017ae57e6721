CONSTANTS
    r1 = r1
    r2 = r2
    r3 = r3
    r4 = r4
    Requests <- MCRequests
    MaxInits = 2
SPECIFICATION Spec
INVARIANTS HookNoUseAfterFree
CHECK_DEADLOCK FALSE
