CONSTANTS
    Parts = {"streams"}
    Cases <- WireCases
    Answers <- WireAnswers
    Capacity = 1
    a = a
    b = b
    c = c
    x = x
    Providers = {a, b, c}
    Pingers = {a, b}
    ID <- IDs
    Tags <- TagSets
    Order <- Priority
    Filter = {"openai"}
    Monitored <- Pools
    Registered = {a}
    Selecting = {x}
    MaxSelecting = 1
    MaxFlips = 2
    Callers = {x, y}
    MaxCalls = 2
    Chains <- GuardChains
    Sizes = {1, 2}
    Budget = 2
    MaxIterations = 2
    MaxAttempts = 2
    Pipelines <- RelayChains
    Length = 2
    Err = Err
    Done = Done
    Nothing = Nothing
SPECIFICATION FairSpec
INVARIANTS
    ErrorIsLast
    DoneIsComplete
PROPERTIES
    HandlerReturns
    GoroutinesEnd
