CONSTANTS
    NoDocument = NoDocument
    MaxBatchSize = 2
    PageSize = 1
    MaxPages = 2
    MaxApplications = 2
    Binding <- MCBindings
    Application = {"a1"}
    Document <- MCRobotDocuments
    Request <- MCRobotRequests
    MaxBindings = 0
    DefaultSize <- MCDefaultSize
    MaxSize <- MCMaxSize
    Width = 4
SPECIFICATION Spec
CHECK_DEADLOCK FALSE
INVARIANTS
    ServiceAccountSees
