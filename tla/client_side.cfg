SPECIFICATION PartsSpec
CONSTANTS
    Callers = {"r1", "r2"}
    TokenEarlyRefresh = 2
    defaultTokenLifetime = 4
    tokenRefreshTimeout = 1
    MaxTime = 5
    Lookers = {"l1", "l2"}
    URLs = {"u"}
    Contents <- SomeContents
    MaxVersions = 2
    MaxFetches = 3
    Closers = {"k1", "k2"}
    Lengths = {0, 2, 3}
    captureLimit = 2
    Logins = {"p1", "p2"}
    Names = {"x", "y"}
INVARIANTS
    PartsTypeOK
    NeverStale
    PairWhole
    OneManifest
    BodiesTold
    NothingLost
PROPERTIES
    LoneLogin
    CallsEnd
    RequestsGoOn
    BodyNamed
CHECK_DEADLOCK FALSE
