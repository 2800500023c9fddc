CONSTANTS
    Families = {"agents", "messages", "git", "prompts"}
    Versions = {v1, v2}
    Callers = {p1, p2}
    None = None
    MessageKinds = {"memory", "list", "hybrid", "minio"}
    Processes = {p}
    Requests = {r, s}
    MaxRequests = 3
    MaxFaults = 2
    Parts = {"hollow"}
    Budgets = {0, 2}
    TakeTurns = TRUE
    GitKinds = {"workflow", "skill", "agent"}
    Agents = {a, b}
    Workers = {w1, w2}
    MaxCalls = 4
    Slugs = {s1, s2}
    MaxEdits = 3
    Watchers = {w1}
    Capacity = 1
    Composers = {c1}
    Templates <- WholeTemplates
SPECIFICATION StoresSpec
INVARIANTS
    GetServesThePromised
    AcknowledgedAreKept
    WindowIsLongestEnd
    CommitsAreWhole
    BranchesAreAsPromised
    ChangesArrive
    RendersAreOrdered
CHECK_DEADLOCK FALSE
