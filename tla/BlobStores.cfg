CONSTANTS
    v1 = v1
    v2 = v2
    p1 = p1
    p2 = p2
    Versions = {v1, v2}
    Callers = {p1, p2}
    MaxFaults = 2
    None = None
SPECIFICATION Spec
SYMMETRY Interchangeable
INVARIANTS
    ActiveHasObject
    GetIsLinearizable
PROPERTIES
    DeleteLeavesNothing
