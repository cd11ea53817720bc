CONSTANTS
    w1 = w1
    w2 = w2
    c1 = c1
    NoDocument = NoDocument
    NoEvent = NoEvent
    Worker <- MCWorkers
    Caller = {}
    Client <- MCClients
    Event = {"del2", "up3"}
    Envelope <- MCEnvelope
    Batch <- MCNoBatches
    Write <- MCWrites
    Id <- MCIds
    MaxBatchSize = 2
    MaxRetries = 1
    MaxDeliver = 2
SPECIFICATION Spec
CHECK_DEADLOCK FALSE
INVARIANTS
    TypeOK
    SettledReached
    Converged
PROPERTIES
    EverySettled
    ImplementsReplica
