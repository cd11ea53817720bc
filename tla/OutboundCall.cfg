CONSTANTS
    Caller = {c1, c2}
    MaxAttempts = 3
    BreakerEnabled = TRUE
    FailureThreshold = 2
SPECIFICATION Spec
INVARIANTS
    TypeOK
    BodiesOwned
    SentWithinPolicy
    TrialAlone
PROPERTIES
    OpensOnFailure
    EveryCallEnds
