SPECIFICATION Spec
CONSTANTS
    Interval = 3
    MaxRetries = 2
    AfterCap = 4
    BackoffCap = 3
    Exponential <- MCExponential
    MaxOversleep = 1
    Latencies = {1}
    RetryAfters = {2, 9}
    NumPages = 2
\* A listing, and the behaviour is over.
CHECK_DEADLOCK FALSE
INVARIANTS
    RateHolds
    RetryAfterHonoured
    FailsForCause
    EachResponseOnce
