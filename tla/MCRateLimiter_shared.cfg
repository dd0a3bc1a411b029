\* Two callers, a bucket of 8 bytes that gains 2 every quarter of a second.
SPECIFICATION FairSpec
CONSTANTS
    Callers = {c1, c2}
    Requests = {1, 3, 5, 8}
    Rate = 2
    TicksPerSecond = 4
    MaxSleep = 1
INVARIANTS
    TypeOK
    NeverOversleeps
PROPERTIES
    ImplementsBucket
    WaitReturns
