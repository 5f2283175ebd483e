\* A deposit and a redemption of one account, two submissions, two polls each.
CONSTANTS
    Txs = {deposit, redeem}
    Redemptions = {redeem}
    Submissions = {1, 2}
    PollAttempts = 2
    TimeToLive = 2
    MaxLiquid = 1
SPECIFICATION Spec
INVARIANTS ReportsAreTrue EffectAtMostOnce
PROPERTIES NextCallIsFresh EverySubmissionReturns
