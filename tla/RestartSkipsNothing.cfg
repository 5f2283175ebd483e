\* One crash before the first checkpoint, and nothing else goes wrong.
CONSTANTS
    Feed <- MCFeed
    PageLimit = 2
    ListLimit = 2
    Runs = {1, 2}
    MaxLedger = 4
    MaxBurst = 3
    MaxPruned = 1
    MaxFaults = 0
    MaxCrashes = 1
    MaxStray = 0

SPECIFICATION Spec

INVARIANT RestartSkipsNothing

CHECK_DEADLOCK FALSE
