CONSTANTS
    Replica = {r1, r2}
    NoReplica = NoReplica
    Deployment <- MCDeployment
SPECIFICATION Spec
INVARIANTS
    TypeOK
    MappedIndex
    ResourcesOutliveWork
    NoStartRace
    ProfileEnforced
    InboxWhereMigrated
PROPERTIES
    StartEnds
    Stops
