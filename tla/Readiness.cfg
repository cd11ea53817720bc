CONSTANTS
    Dependency = {"database", "redis", "opensearch"}
    Configured = {"database", "opensearch"}
SPECIFICATION Spec
INVARIANTS
    VerdictTruthful
    NothingLeft
PROPERTIES
    Answered
