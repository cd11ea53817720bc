CONSTANTS
    NoDocument = NoDocument
    MaxBatchSize = 2
    PageSize = 1
    MaxPages = 2
    MaxApplications = 2
    Binding <- MCBindings
    Application = {"a1"}
    Document <- MCDocuments
    Request <- MCAllRequests
    MaxBindings = 3
    DefaultSize <- MCDefaultSize
    MaxSize <- MCMaxSize
    Width = 4
SPECIFICATION Spec
CHECK_DEADLOCK FALSE
INVARIANTS
    TypeOK
    ReturnedVisible
    RolesComplete
    GrantChecked
    HolderSees
PROPERTIES
    ImplementsPromise
    Answered
