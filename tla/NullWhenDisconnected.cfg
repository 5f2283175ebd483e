\* The instance of WebApp.cfg, against the documented meaning of publicKey.
CONSTANTS
    Accounts = {alice, bob}
    NoKey = NoKey
    Calls = {1, 2}
    Watchers = {1, 2}
    MaxRetries = 2
    StellarKeys = {typed}
    OtherText = {junk}
    Spaces = Spaces
SPECIFICATION WebSpec
INVARIANT NullWhenDisconnected
CHECK_DEADLOCK FALSE
