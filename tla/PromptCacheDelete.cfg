CONSTANTS
    Nodes = {n1}
    Requests = {r1}
    s1 = s1
    v1 = v1
    Slugs = {s1}
    Versions = {v1}
    StoredBefore <- Seeded
    MaxPuts = 1
    MaxFailures = 0
    None = None
SPECIFICATION Spec
PROPERTIES
    DeletedIsGone
