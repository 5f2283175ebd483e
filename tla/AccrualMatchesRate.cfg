\* The instance of RoundTrip.cfg, against a claim of the script.
CONSTANTS
    Users = {deployer}
    Deployer = deployer
    Vault = Vault
    NoUser = NoUser
    MaxI = 1000000
    SimApyBps = 1
    YieldDenom = 20
    Endowment = 400
    MaxTime = 7
    MaxFunding = 0
    Deposits = {60, 200}
    WaitSeconds = 1
    MarginSeconds = 3
    MarginUnits = 8
    FeeAllowance = 80
    YieldTolerance = 2
    MaxRuns = 2
SPECIFICATION TripSpec
INVARIANT AccrualMatchesRate
\* After the last run nothing is left to do.
CHECK_DEADLOCK FALSE
