CONSTANTS
    w1 = w1
    w2 = w2
    c1 = c1
    NoDocument = NoDocument
    NoEvent = NoEvent
    Worker = {w1}
    Caller = {}
    Client <- MCClients
    Event = {"up1", "del2"}
    Envelope <- MCEnvelope
    Batch <- MCNoBatches
    Write <- MCWrites
    Id <- MCIds
    MaxBatchSize = 2
    MaxRetries = 0
    MaxDeliver = 2
SPECIFICATION Spec
CHECK_DEADLOCK FALSE
INVARIANTS
    NothingOlderReturns
