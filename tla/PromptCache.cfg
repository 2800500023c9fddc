CONSTANTS
    Nodes = {n1}
    Requests = {r1, r2}
    s1 = s1
    v1 = v1
    Slugs = {s1, s2}
    Versions = {v1, v2}
    StoredBefore <- Seeded
    MaxPuts = 2
    MaxFailures = 1
    None = None
SPECIFICATION Spec
INVARIANTS
    NoRefreshLost
    OneActiveVersion
PROPERTIES
    Converges
