CONSTANTS
    Client = {c1, c2}
    Nobody = Nobody
    Stranger = Stranger
    Ttl = {0, 3}
    Drift = 1
    Tries = 2
SPECIFICATION Spec
INVARIANTS
    HolderAlone
PROPERTIES
    KeyFreed
