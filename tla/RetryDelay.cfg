SPECIFICATION Spec
CONSTANTS
    MaxInt = 31
    Second = 4
    DefaultBase = 3
    DefaultMax = 17
    MaxAttempts = 7
INVARIANTS
    DelayInRange
    BackoffIsExponential
    RetryAfterIsHonoured
CHECK_DEADLOCK FALSE
