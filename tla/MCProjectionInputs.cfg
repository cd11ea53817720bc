CONSTANTS
    w1 = w1
    w2 = w2
    c1 = c1
    NoDocument = NoDocument
    NoEvent = NoEvent
    Worker = {w1}
    Caller = {c1}
    Client <- MCClients
    Event = {"up3", "schema2", "tenant"}
    Envelope <- MCEnvelope
    Batch <- MCBatches
    Write <- MCWrites
    Id <- MCIds
    MaxBatchSize = 2
    MaxRetries = 0
    MaxDeliver = 1
SPECIFICATION Spec
CHECK_DEADLOCK FALSE
INVARIANTS
    IndexedSound
    PrefixReached
