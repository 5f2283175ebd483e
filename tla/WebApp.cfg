\* Two accounts, two overlapping calls of connect, room for a second watcher, two
\* retries; a key, another text and blanks to type.
CONSTANTS
    Accounts = {alice, bob}
    NoKey = NoKey
    Calls = {1, 2}
    Watchers = {1, 2}
    MaxRetries = 2
    StellarKeys = {typed}
    OtherText = {junk}
    Spaces = Spaces
SPECIFICATION WebSpec
INVARIANT RunningWatcherIsHeld
PROPERTIES ConnectingEnds KeyFollowsWallet ScreenFollowsKey
\* Where the extension is gone and the page idle nothing happens any more.
CHECK_DEADLOCK FALSE
