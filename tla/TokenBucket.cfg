CONSTANTS
    Requests = {q1, q2}
    q1 = q1
    q2 = q2
    Skews = {0, 1}
    Unit = 3
    Refill = 1
    Burst = 1
    Second = 2
    Lag = 1
    MaxSkew = 1
    MaxTime = 12
    MaxBack = 4
SPECIFICATION Spec
INVARIANTS
    OverlapBound
    RetryHonest
