---------------------------- MODULE MCCompilers ----------------------------
(***************************************************************************)
(* The two compilers and what they build, one of them per behaviour: a     *)
(* workflow definition compiled to a graph that is run (MCWorkflowGraph),  *)
(* agents compiled in any order (MCAgentCompiler), or compiled agents that *)
(* are invoked (MCAgentLoop).  The variables of the others are Off.        *)
(***************************************************************************)
EXTENDS Integers, Sequences, FiniteSets

CONSTANTS
    Parts,                                                 \* which of the three
    Inputs, Built, States, CustomTargets, MaxRuns, MaxCopies,  \* WorkflowGraph
    a, b, c, Names, Specs, Known, MaxTurns,                \* AgentCompiler
    a1, a2, a3, Agents, Exposed, Callable, Runs,           \* AgentLoop
    MaxIterations, MaxAgentDepth, MaxCalls, MaxStarts

\* A definition has a name and a list of names, of finitely many.
ASSUME SpecsAssumption ==
    IsFiniteSet(Names) /\ \A s \in Specs : s.name \in Names /\ s.agents \in Seq(Names)

\* The limits are numbers, and what an agent can call is an agent.
ASSUME LimitsAssumption == MaxIterations \in Nat \ {0} /\ MaxAgentDepth \in Nat
ASSUME BoundsAssumption == MaxCalls \in Nat /\ MaxStarts \in Nat
ASSUME CallableAssumption == Exposed \subseteq Agents /\ \A x \in Agents : Callable[x] \subseteq Agents

VARIABLES
    part,
    flows, verdict, parsed, objs, frames, cancelled, outcome, runs,
    registry, pc, spec, queue, visited, agents, nodes, degree, sorted, path, result, turns,
    step, stack, expired, answers, starts, late

Graph == INSTANCE MCWorkflowGraph
Agent == INSTANCE MCAgentCompiler
Loop == INSTANCE MCAgentLoop WITH cancelled <- expired, result <- answers

graphVars == <<flows, verdict, parsed, objs, frames, cancelled, outcome, runs>>
agentVars == <<registry, pc, spec, queue, visited, agents, nodes, degree, sorted, path, result, turns>>
loopVars == <<step, stack, expired, answers, starts, late>>
vars == <<part, graphVars, agentVars, loopVars>>

\* The values of the constants, from instances that do not depend on them.
GraphValues == INSTANCE MCWorkflowGraph
    WITH Inputs <- {}, Built <- {}, States <- {}, CustomTargets <- {}
AgentValues == INSTANCE MCAgentCompiler WITH Specs <- {}, Known <- {}
LoopValues == INSTANCE MCAgentLoop
    WITH Callable <- <<>>, cancelled <- expired, result <- answers

GraphInputs == GraphValues!Definitions
GraphsInGo == GraphValues!GoGraphs
GraphStates == GraphValues!Start
GraphAnswers == GraphValues!Answers
AgentSpecs == AgentValues!Definitions
AgentRegistries == AgentValues!Registries
LoopReaches == LoopValues!Reaches

Off == <<>>

\* A list of Go is one here, and a number is one.
IsList(q) == q \in Seq({q[i] : i \in DOMAIN q})
IsValue(v) == (v.tag = "list" => IsList(v.is)) /\ (v.tag = "num" => v.is \in Int)
HoldsValues(map) == \A k \in DOMAIN map : IsValue(map[k])

\* What a graph is that can be built: it has an entry point, routers of the
\* types there are, and an inner graph if a node runs one.
RouterFits(r) ==
    /\ r.type \in {"static", "none", "custom", "conditional"} \union DOMAIN Graph!RequiredStrings
    /\ r.type = "recipient_list" => r.config.recipients.tag = "list" /\ IsValue(r.config.recipients)

Fits(fs) ==
    /\ "main" \in DOMAIN fs
    /\ \A f \in DOMAIN fs : \A n \in DOMAIN fs[f].nodes :
        /\ RouterFits(fs[f].nodes[n].router)
        /\ fs[f].nodes[n].run = "sub" => "inner" \in DOMAIN fs

\* States, definitions and graphs built in Go are of their types.
ASSUME StatesAssumption == \A s \in States : HoldsValues(s.data) /\ HoldsValues(s.meta)
ASSUME BuiltAssumption == \A fs \in Built : Fits(fs)
ASSUME InputsAssumption ==
    \A input \in Inputs : \A i \in DOMAIN input.spec.nodes :
        LET r == input.spec.nodes[i].router
        IN  (r.type = "recipient_list" /\ Graph!Has(r.config, "recipients")) => IsValue(r.config.recipients)

GraphOff ==
    /\ flows = Off /\ verdict = Off /\ parsed = Off /\ objs = Off /\ frames = Off
    /\ cancelled = Off /\ outcome = Off /\ runs = Off

AgentOff ==
    /\ registry = Off /\ pc = Off /\ spec = Off /\ queue = Off /\ visited = Off
    /\ agents = Off /\ nodes = Off /\ degree = Off /\ sorted = Off /\ path = Off
    /\ result = Off /\ turns = Off

LoopOff ==
    /\ step = Off /\ stack = Off /\ expired = Off /\ answers = Off /\ starts = Off /\ late = Off

Init ==
    /\ part \in Parts
    /\ \/ part = "graph" /\ Graph!Init /\ AgentOff /\ LoopOff
       \/ part = "agent" /\ Agent!Init /\ GraphOff /\ LoopOff
       \/ part = "loop" /\ Loop!Init /\ GraphOff /\ AgentOff

GraphStep == part = "graph" /\ Graph!Step /\ UNCHANGED <<part, agentVars, loopVars>>
AgentWork == part = "agent" /\ Agent!Work /\ UNCHANGED <<part, graphVars, loopVars>>
LoopAdvance(r) == part = "loop" /\ Loop!Advance(r)

InGraph == part = "graph" /\ Graph!Next /\ UNCHANGED <<part, agentVars, loopVars>>
InAgent == part = "agent" /\ Agent!Next /\ UNCHANGED <<part, graphVars, loopVars>>
InLoop == part = "loop" /\ Loop!Next /\ UNCHANGED <<part, graphVars, agentVars>>

Next == InGraph \/ InAgent \/ InLoop

Spec == Init /\ [][Next]_vars

\* Graph.Invoke, Compile and each invocation of an agent go on as long as they can.
FairSpec ==
    /\ Spec
    /\ WF_vars(GraphStep) /\ WF_vars(AgentWork)
    /\ \A r \in Runs : WF_loopVars(LoopAdvance(r))

\* WorkflowGraph: routers hand each entry of a list out once for a state.
ExactlyOnceUnlessFailed == part = "graph" => Graph!ExactlyOnceUnlessFailed

\* WorkflowGraph: what Parse accepts misses a node by the choice of a router only.
OnlyRoutersMissNodes == part = "graph" => Graph!OnlyRoutersMissNodes

\* WorkflowGraph: a run whose cycles count, or whose context is done, returns.
RunsReturn ==
    (part = "graph" /\ Graph!Running /\ (cancelled \/ Graph!Bounded(Graph!Order)))
        ~> (part = "graph" /\ ~Graph!Running)

\* AgentCompiler: exactly the agents that can be reached are resolved.
ResolutionIsExact == part = "agent" => Agent!ResolutionIsExact

\* AgentCompiler: what compiles is free of cycles of two or more agents.
CyclesAreCaught == part = "agent" => Agent!CyclesAreCaught

\* AgentCompiler: "agent cannot reference itself" is refused.
SelfReferenceIsCaught == part = "agent" => Agent!SelfReferenceIsCaught

\* AgentLoop: the depth that travels with a run is its nesting, and the limit bounds it.
DepthIsNesting == part = "loop" => Loop!DepthIsNesting

\* AgentLoop: one LLM turn at most completes after the context of a run is done.
OneTurnAfterCancel == part = "loop" => Loop!OneTurnAfterCancel

\* AgentLoop: every run ends.
RunsEnd == \A r \in Runs : (part = "loop" /\ Loop!Running(r)) ~> (part = "loop" /\ ~Loop!Running(r))
=============================================================================
