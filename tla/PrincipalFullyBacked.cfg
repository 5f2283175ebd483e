\* The vault on the instance of MCYieldVault.cfg, against one claim of the docs.
CONSTANTS
    Users = {alice, bob}
    Vault = Vault
    NoUser = NoUser
    MaxI = 9
    SimApyBps = 2
    YieldDenom = 3
    Endowment = 3
    MaxTime = 3
    MaxFunding = 1
SPECIFICATION Spec
SYMMETRY UserSymmetry
INVARIANT PrincipalFullyBacked
