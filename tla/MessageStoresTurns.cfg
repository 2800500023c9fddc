CONSTANTS
    Families = {"messages"}
    Versions = {v1}
    Callers = {p1}
    None = None
    MessageKinds = {"memory", "list", "hybrid", "minio"}
    Processes = {p}
    Requests = {r, s}
    MaxRequests = 2
    MaxFaults = 0
    Parts = {"hollow"}
    Budgets = {0}
    TakeTurns = FALSE
    GitKinds = {"agent"}
    Agents = {a}
    Workers = {w1}
    MaxCalls = 1
    Slugs = {s1, s2}
    MaxEdits = 3
    Watchers = {w1}
    Capacity = 1
    Composers = {c1}
    Templates <- WholeTemplates
SPECIFICATION StoresSpec
INVARIANTS
    AppendAdds
CHECK_DEADLOCK FALSE
