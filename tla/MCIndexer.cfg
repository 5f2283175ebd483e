\* Pages of two, so that a burst fills one, and lists of two; four ledgers, two
\* failures, one crash.
CONSTANTS
    Feed <- MCFeed
    PageLimit = 2
    ListLimit = 2
    Runs = {1, 2}
    MaxLedger = 4
    MaxBurst = 3
    MaxPruned = 1
    MaxFaults = 2
    MaxCrashes = 1
    MaxStray = 1

SPECIFICATION FairSpec

INVARIANTS
    CursorNeverAheadOfLog
    OnlyStartsLeaveHoles
    VaultRowBeforeItsEvents
    ListingHasNoHoles

PROPERTIES CursorMovesForward EveryEventIsIngested

\* The bounds stop the system.
CHECK_DEADLOCK FALSE
