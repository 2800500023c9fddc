CONSTANTS
    Parts = {"rows", "memory", "checkpoints"}
    Versions = {v1, v2}
    Procs = {p1, p2}
    Names = {n1, n2}
    Nodes = {n1, n2}
    LastStep = 3
    MaxDeletes = 2
    MaxCrashes = 2
    None = None
SPECIFICATION StateSpec
INVARIANTS
    SerialActivatesKeepOneActive
    StatusAgreesUntilDelete
    ConflictIsReal
PROPERTIES
    ActiveLostInDeleteOnly
    CallsEnd
    ImplementsContract
    NoLostUpdate
    ThreadCompletes
