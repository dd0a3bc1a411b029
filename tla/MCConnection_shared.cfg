\* Two operations that share up to two clients, calls that may hang, one Close.
SPECIFICATION FairSpec
CONSTANTS
    Workers = {w1, w2}
    MaxRetries = 2
    TimeoutSet = TRUE
    KeepAliveSet = TRUE
    ClientBound = 2
    NoClient = NoClient
INVARIANTS
    TypeOK
    OneConnection
    WatchedByItsProber
    StuckBounded
PROPERTIES
    OperationEnds
    SupersededProberEnds
CHECK_DEADLOCK FALSE
