\* Two keys, no injected one, an administrator that may be the deployer or not; two
\* contracts before the operator is content, three mishaps at any moment and two
\* acts of others.
CONSTANTS
    Keys = {k1, k2}
    NoKey = NoKey
    Torn = Torn
    Injected = NoKey
    Overrides = {NoKey, k1}
    Stranger = Stranger
    MaxContracts = 2
    MaxTrouble = 3
    MaxMeddling = 2
SPECIFICATION FairSpec
INVARIANTS
    RecordedVaultIsOurs
    FundedKeyIsKept
PROPERTY DeploymentIsRecorded
\* Once a vault is recorded the operator may leave it at that.
CHECK_DEADLOCK FALSE
