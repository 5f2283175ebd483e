\* Two users with three units each, a rate of 2/3 per unit and second (so that
\* fractions are carried, principal is overtaken by yield, and i128 overflows)
\* over three ledgers, and up to one unit of outside liquidity.
CONSTANTS
    Users = {alice, bob}
    Vault = Vault
    NoUser = NoUser
    MaxI = 9
    SimApyBps = 2
    YieldDenom = 3
    Endowment = 3
    MaxTime = 3
    MaxFunding = 1
SPECIFICATION Spec
SYMMETRY UserSymmetry
INVARIANTS
    TypeOK
    SharesConserved
    EveryShareIsBacked
    PrincipalOutlastsShares
    NoFreeRoundTrip
    QuotesAreHonoured
    MaxRedeemableIsExact
    FundedHolderCanExit
    AccrualScheduleIrrelevant
    ShortfallIsUnfundedYield
PROPERTIES
    PriceNeverFalls
    EventsExplainState
    ImplementsPool
