----------------------------- MODULE AgentLoop -----------------------------
(***************************************************************************)
(* pkg/agent: invocations of compiled agents.  A CompiledAgent is a graph  *)
(* of two nodes, "llm" and "tools", that Graph.Invoke walks; its tools     *)
(* node may delegate to another CompiledAgent, whose graph then runs       *)
(* nested in the tool call.  A run is a stack of such frames.              *)
(*                                                                         *)
(* An agent is compiled once: the router of its llm node closes over one   *)
(* counter, step, that all its invocations share.  step++ is not atomic:   *)
(* invocations on different goroutines race on it, so that the read, the   *)
(* write and the comparison are steps of their own, and the comparison may *)
(* use the value written or read the counter again.                        *)
(***************************************************************************)
EXTENDS Naturals, Sequences

CONSTANTS
    Agents,
    Exposed,        \* the agents that are invoked at top level
    Callable,       \* Callable[a]: the agents resolved for a; acyclic (Compile)
    Runs,           \* top-level invocations under way at once
    MaxIterations,  \* AgentSpec.MaxIterations
    MaxAgentDepth,  \* maxAgentDepth, 8 in the code
    MaxCalls,       \* bound on the tool calls of one LLM response
    MaxStarts       \* bound on top-level invocations

VARIABLES
    step,       \* step[a]: the router's counter
    stack,      \* stack[r]: the frames of run r, its own agent's first
    cancelled,  \* cancelled[r]: the context of r is done
    result,     \* result[r]: what r has returned
    starts,     \* top-level invocations so far
    late        \* history: late[r]: LLM turns of r since its context was done

vars == <<step, stack, cancelled, result, starts, late>>

Frame == [agent : Agents,
          depth : Nat,                  \* Meta["bunshin.agent_depth"]
          node : {"llm", "tools"},      \* the graph's current node
          at : {"check", "invoke", "count", "store", "route"},
          seen : Nat,                   \* what step++ has read
          calls : 0 .. MaxCalls,        \* tool calls of the last LLM response
          turns : Nat]                  \* history: LLM turns of this invocation, counted up to MaxIterations

\* AgentState is made afresh for an invocation.
NewFrame(a, depth) ==
    [agent |-> a, depth |-> depth, node |-> "llm", at |-> "check",
     seen |-> 0, calls |-> 0, turns |-> 0]

NoResult == [kind |-> "none", truncated |-> FALSE, turns |-> 0]

Init ==
    /\ step = [a \in Agents |-> 0]
    /\ stack = [r \in Runs |-> <<>>]
    /\ cancelled = [r \in Runs |-> FALSE]
    /\ result = [r \in Runs |-> NoResult]
    /\ starts = 0
    /\ late = [r \in Runs |-> 0]

Running(r) == stack[r] # <<>>
Top(r) == stack[r][Len(stack[r])]
At(r, node, at) == Running(r) /\ Top(r).node = node /\ Top(r).at = at

SetTop(r, frame) == stack' = [stack EXCEPT ![r][Len(stack[r])] = frame]

-----------------------------------------------------------------------------
\* CompiledAgent.Invoke.
Start(r, a) ==
    /\ ~Running(r)
    /\ starts < MaxStarts
    /\ starts' = starts + 1
    /\ stack' = [stack EXCEPT ![r] = <<NewFrame(a, 0)>>]
    /\ cancelled' = [cancelled EXCEPT ![r] = FALSE]
    /\ late' = [late EXCEPT ![r] = 0]
    /\ result' = [result EXCEPT ![r] = NoResult]
    /\ UNCHANGED step

Cancel(r) ==
    /\ Running(r)
    /\ ~cancelled[r]
    /\ cancelled' = [cancelled EXCEPT ![r] = TRUE]
    /\ UNCHANGED <<step, stack, result, starts, late>>

\* The answers of the tools node are appended; its router is static.
ToolsAnswered(frame) == [frame EXCEPT !.node = "llm", !.at = "check", !.seen = 0, !.calls = 0]

\* The top frame's graph returns: to the caller of the run, or to the tools
\* node of the frame below, which makes an answer of whatever it is, an error too.
Return(r, kind, truncated) ==
    LET below == SubSeq(stack[r], 1, Len(stack[r]) - 1)
        caller == Len(stack[r]) - 1
    IN  IF caller = 0
        THEN /\ stack' = [stack EXCEPT ![r] = <<>>]
             /\ result' = [result EXCEPT ![r] =
                    [kind |-> kind, truncated |-> truncated, turns |-> Top(r).turns]]
        ELSE /\ stack' = [stack EXCEPT ![r] =
                    [below EXCEPT ![caller] = ToolsAnswered(below[caller])]]
             /\ UNCHANGED result

\* Mutant: a node is entered without looking at the context.
EnterUnchecked(r, node) ==
    /\ At(r, node, "check")
    /\ SetTop(r, [Top(r) EXCEPT !.at = "invoke"])
    /\ UNCHANGED <<step, cancelled, result, starts, late>>

\* The head of Graph.Invoke's loop, before each node.
Enter(r, node) ==
    /\ At(r, node, "check")
    /\ \/ cancelled[r] /\ Return(r, "error", FALSE)
       \/ /\ ~cancelled[r]
          /\ SetTop(r, [Top(r) EXCEPT !.at = "invoke"])
          /\ UNCHANGED result
    /\ UNCHANGED <<step, cancelled, starts, late>>

CountTurn(n) == IF n < MaxIterations THEN n + 1 ELSE n

\* The llm node: a response with k tool calls, each appended as a message of its
\* own after the text.
LLMAnswers(r, k) ==
    /\ At(r, "llm", "invoke")
    /\ SetTop(r, [Top(r) EXCEPT !.at = "count", !.calls = k, !.turns = CountTurn(@)])
    /\ late' = [late EXCEPT ![r] = IF cancelled[r] THEN @ + 1 ELSE @]
    /\ UNCHANGED <<step, cancelled, result, starts>>

LLMFails(r) ==
    /\ At(r, "llm", "invoke")
    /\ Return(r, "error", FALSE)
    /\ UNCHANGED <<step, cancelled, starts, late>>

\* Mutant: the router declares step in its function, not outside of it.
ReadStepAfresh(r) ==
    /\ At(r, "llm", "count")
    /\ SetTop(r, [Top(r) EXCEPT !.at = "store", !.seen = 0])
    /\ UNCHANGED <<step, cancelled, result, starts, late>>

\* createContentBasedRouter: step++, the read and the write.
ReadStep(r) ==
    /\ At(r, "llm", "count")
    /\ SetTop(r, [Top(r) EXCEPT !.at = "store", !.seen = step[Top(r).agent]])
    /\ UNCHANGED <<step, cancelled, result, starts, late>>

WriteStep(r) ==
    /\ At(r, "llm", "store")
    /\ step' = [step EXCEPT ![Top(r).agent] = Top(r).seen + 1]
    /\ SetTop(r, [Top(r) EXCEPT !.at = "route"])
    /\ UNCHANGED <<cancelled, result, starts, late>>

\* What the comparison may take for the counter.
Counted(r) == {Top(r).seen + 1, step[Top(r).agent]}

\* At the cap the last message is returned: a tool call has no text.
Truncate(r) ==
    /\ \E counted \in Counted(r) : counted >= MaxIterations
    /\ Return(r, IF Top(r).calls = 0 THEN "text" ELSE "no text", TRUE)

Finish(r) ==
    /\ \E counted \in Counted(r) : counted < MaxIterations
    /\ Top(r).calls = 0
    /\ Return(r, "text", FALSE)

GoToTools(r) ==
    /\ \E counted \in Counted(r) : counted < MaxIterations
    /\ Top(r).calls > 0
    /\ SetTop(r, [Top(r) EXCEPT !.node = "tools", !.at = "check", !.seen = 0])
    /\ UNCHANGED result

\* The last message is always the assistant's here, and there is one.
Route(r) ==
    /\ At(r, "llm", "route")
    /\ Truncate(r) \/ Finish(r) \/ GoToTools(r)
    /\ UNCHANGED <<step, cancelled, starts, late>>

\* The tools node executes the tool call of the last message: a tool, a skill, an
\* unknown name; a failing tool answers with its error.
UseTool(r) ==
    /\ At(r, "tools", "invoke")
    /\ SetTop(r, ToolsAnswered(Top(r)))
    /\ UNCHANGED <<step, cancelled, result, starts, late>>

\* Mutant: the sub-agent's state is given the parent's depth.
DelegateAtSameDepth(r, b) ==
    /\ At(r, "tools", "invoke")
    /\ b \in Callable[Top(r).agent]
    /\ Top(r).depth < MaxAgentDepth
    /\ stack' = [stack EXCEPT ![r] = Append(@, NewFrame(b, Top(r).depth))]
    /\ UNCHANGED <<step, cancelled, result, starts, late>>

\* invokeSubAgent; past the depth limit its answer is an error text.
Delegate(r, b) ==
    /\ At(r, "tools", "invoke")
    /\ b \in Callable[Top(r).agent]
    /\ \/ /\ Top(r).depth >= MaxAgentDepth
          /\ SetTop(r, ToolsAnswered(Top(r)))
       \/ /\ Top(r).depth < MaxAgentDepth
          /\ stack' = [stack EXCEPT ![r] = Append(@, NewFrame(b, Top(r).depth + 1))]
    /\ UNCHANGED <<step, cancelled, result, starts, late>>

Advance(r) ==
    \/ \E node \in {"llm", "tools"} : Enter(r, node)
    \/ \E k \in 0 .. MaxCalls : LLMAnswers(r, k)
    \/ LLMFails(r)
    \/ ReadStep(r) \/ WriteStep(r) \/ Route(r)
    \/ UseTool(r)
    \/ \E b \in Agents : Delegate(r, b)

Next ==
    \E r \in Runs :
        \/ \E a \in Exposed : Start(r, a)
        \/ Cancel(r)
        \/ Advance(r)

\* A goroutine that can go on does: the LLM and the tools answer or fail.
Spec == Init /\ [][Next]_vars /\ \A r \in Runs : WF_vars(Advance(r))
-----------------------------------------------------------------------------
TypeOK ==
    /\ step \in [Agents -> Nat]
    /\ stack \in [Runs -> Seq(Frame)]
    /\ cancelled \in [Runs -> BOOLEAN]
    /\ result \in [Runs -> [kind : {"none", "error", "text", "no text"},
                            truncated : BOOLEAN, turns : Nat]]
    /\ starts \in 0 .. MaxStarts
    /\ late \in [Runs -> Nat]

\* The depth that travels in Meta is the real nesting, whatever frames have
\* failed, been truncated or returned before, and the guard bounds it: agents
\* never nest deeper than MaxAgentDepth below the top-level one.
DepthIsNesting ==
    \A r \in Runs :
        /\ Len(stack[r]) <= MaxAgentDepth + 1
        /\ \A k \in 1 .. Len(stack[r]) : stack[r][k].depth = k - 1

\* However deep the run is nested, one LLM turn at most completes after its
\* context is done: the one that was in flight.
OneTurnAfterCancel == \A r \in Runs : late[r] <= 1

\* Every run ends, although the counter that bounds its loop is shared with
\* other runs and loses their increments.
RunsEnd == \A r \in Runs : Running(r) ~> ~Running(r)

\* MaxIterations caps the loop of an invocation: one is truncated after that
\* many turns, not before.
TruncatedAtCap == \A r \in Runs : result[r].truncated => result[r].turns >= MaxIterations
=============================================================================
