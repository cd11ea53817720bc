CONSTANTS
    t1 = t1
    t2 = t2
    Thread <- MCThreads
    Input <- MCInputs
    Matched <- MCMatched
    Protected = {"query"}
    PskRoutes = {"callback"}
    SkipRoutes = {"version", "callback"}
    LimiterEnabled = TRUE
    FailOpen = TRUE
    AuthorizationEnabled = TRUE
    Burst = 1
SPECIFICATION Spec
SYMMETRY MCSymmetry
INVARIANTS
    TypeOK
    HandlerGuarded
    SubjectBudgetOwn
    OneAnswer
