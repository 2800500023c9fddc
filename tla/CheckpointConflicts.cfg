CONSTANTS
    Parts = {"checkpoints"}
    Versions = {v1, v2}
    Procs = {p1, p2}
    Names = {n1}
    Nodes = {n1}
    LastStep = 1
    MaxDeletes = 0
    MaxCrashes = 1
    None = None
SPECIFICATION StateSpec
INVARIANTS
    ConflictsAreOthers
