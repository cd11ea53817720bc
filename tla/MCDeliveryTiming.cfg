CONSTANTS
    Handler = {h1, h2}
    AckWait = 3
    HandlerTimeout = 2
    RetryDelay = 1
    MaxRetryDelay = 2
    MaxDeliver = 4
    MaxAge = 7
    Retention = 5
    Horizon = 18
SPECIFICATION Spec
CHECK_DEADLOCK FALSE
INVARIANTS
    NoOverlap
    CommitsSpaced
