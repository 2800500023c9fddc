CONSTANTS
    Parts = {"graph", "agent", "loop"}
    Inputs <- GraphInputs
    Built <- GraphsInGo
    States <- GraphStates
    CustomTargets <- GraphAnswers
    MaxRuns = 3
    MaxCopies = 1
    a = a
    b = b
    c = c
    Names = {a, b, c}
    Specs <- AgentSpecs
    Known <- AgentRegistries
    MaxTurns = 4
    a1 = a1
    a2 = a2
    a3 = a3
    Agents = {a1, a2, a3}
    Exposed = {a1}
    Callable <- LoopReaches
    Runs = {r1, r2}
    MaxIterations = 2
    MaxAgentDepth = 1
    MaxCalls = 1
    MaxStarts = 2
SPECIFICATION FairSpec
INVARIANTS
    ExactlyOnceUnlessFailed
    ResolutionIsExact
    CyclesAreCaught
    DepthIsNesting
    OneTurnAfterCancel
PROPERTIES
    RunsReturn
    RunsEnd
CHECK_DEADLOCK FALSE
