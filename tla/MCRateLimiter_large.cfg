\* One caller that may ask for 9 bytes at once, more than the bucket of 8 holds.
SPECIFICATION FairSpec
CONSTANTS
    Callers = {c1}
    Requests = {1, 9}
    Rate = 2
    TicksPerSecond = 4
    MaxSleep = 1
PROPERTIES
    WaitReturns
