-------------------------- MODULE CompilersProofs --------------------------
EXTENDS MCCompilers, FiniteSetTheorems, TLAPS

-----------------------------------------------------------------------------
(* AgentLoop: the depth carried in Meta is the real nesting of agents, and *)
(* the guard on it bounds the nesting.                                     *)

\* The k-th frame of a run has depth k-1 and none is past the limit.
WellNested(fs) ==
    /\ fs \in Seq(Loop!Frame)
    /\ Len(fs) <= MaxAgentDepth + 1
    /\ \A k \in 1 .. Len(fs) : fs[k].depth = k - 1

LoopInv == stack \in [Runs -> Seq(Loop!Frame)] /\ \A r \in Runs : WellNested(stack[r])

-----------------------------------------------------------------------------
\* Replacing a frame by one of the same depth keeps a stack well nested.
LEMMA ReplaceFrame ==
    ASSUME NEW fs, WellNested(fs), NEW i \in 1 .. Len(fs),
           NEW frame \in Loop!Frame, frame.depth = i - 1
    PROVE  WellNested([fs EXCEPT ![i] = frame])
  BY DEF WellNested

\* So does dropping fs from the top.
LEMMA DropFrames ==
    ASSUME NEW fs, WellNested(fs), NEW below \in 0 .. Len(fs)
    PROVE  WellNested(SubSeq(fs, 1, below)) /\ Len(SubSeq(fs, 1, below)) = below
<1>1. SubSeq(fs, 1, below) \in Seq(Loop!Frame)
  BY DEF WellNested
<1>2. /\ Len(SubSeq(fs, 1, below)) = below
      /\ \A k \in 1 .. below : SubSeq(fs, 1, below)[k] = fs[k]
  BY DEF WellNested
<1> QED BY <1>1, <1>2, LimitsAssumption DEF WellNested

\* A frame of the next depth may be put on top below the limit.
LEMMA PushFrame ==
    ASSUME NEW fs, WellNested(fs), NEW frame \in Loop!Frame,
           frame.depth = Len(fs), Len(fs) <= MaxAgentDepth
    PROVE  WellNested(Append(fs, frame))
  BY LimitsAssumption DEF WellNested

\* The top frame of a running stack is its last.
LEMMA TopFrame ==
    ASSUME LoopInv, NEW r \in Runs, Loop!Running(r)
    PROVE  /\ Len(stack[r]) \in 1 .. Len(stack[r])
           /\ Loop!Top(r) \in Loop!Frame
           /\ Loop!Top(r).depth = Len(stack[r]) - 1
<1>1. Len(stack[r]) \in 1 .. Len(stack[r])
  BY DEF LoopInv, Loop!Running
<1> QED BY <1>1 DEF LoopInv, Loop!Top, WellNested

\* The frame updates of the actions are fs of the same depth.
LEMMA AnsweredFrame ==
    ASSUME NEW f \in Loop!Frame
    PROVE  Loop!ToolsAnswered(f) \in Loop!Frame /\ Loop!ToolsAnswered(f).depth = f.depth
<1>1. 0 \in 0 .. MaxCalls
  BY BoundsAssumption
<1> QED BY <1>1 DEF Loop!ToolsAnswered, Loop!Frame

LEMMA TurnFrame ==
    ASSUME NEW f \in Loop!Frame, NEW k \in 0 .. MaxCalls
    PROVE  /\ [f EXCEPT !.at = "count", !.calls = k, !.turns = Loop!CountTurn(@)] \in Loop!Frame
           /\ [f EXCEPT !.at = "count", !.calls = k, !.turns = Loop!CountTurn(@)].depth = f.depth
<1>1. Loop!CountTurn(f.turns) \in Nat
  BY DEF Loop!Frame, Loop!CountTurn
<1> QED BY <1>1 DEF Loop!Frame

\* Only the stack of the run that takes the step changes.
LEMMA OneStackChanges ==
    ASSUME LoopInv, NEW r \in Runs, NEW fs, WellNested(fs),
           stack' = [stack EXCEPT ![r] = fs]
    PROVE  LoopInv'
<1>1. fs \in Seq(Loop!Frame)
  BY DEF WellNested
<1>2. stack' \in [Runs -> Seq(Loop!Frame)]
  BY <1>1 DEF LoopInv
<1>3. ASSUME NEW q \in Runs PROVE WellNested(stack'[q])
  BY DEF LoopInv
<1>4. ASSUME NEW q \in Runs PROVE WellNested(stack[q])'
  BY <1>3 DEF WellNested
<1> QED BY <1>2, <1>4 DEF LoopInv

\* Loop!SetTop with a frame of the top frame's depth.
LEMMA SetTopKeeps ==
    ASSUME LoopInv, NEW r \in Runs, Loop!Running(r), NEW frame \in Loop!Frame,
           frame.depth = Loop!Top(r).depth, Loop!SetTop(r, frame)
    PROVE  LoopInv'
<1>1. WellNested([stack[r] EXCEPT ![Len(stack[r])] = frame])
  BY TopFrame, ReplaceFrame DEF LoopInv
<1>2. stack' = [stack EXCEPT ![r] = [stack[r] EXCEPT ![Len(stack[r])] = frame]]
  BY DEF Loop!SetTop
<1> QED BY <1>1, <1>2, OneStackChanges

\* A frame that returns leaves a well nested stack.
LEMMA ReturnKeeps ==
    ASSUME LoopInv, NEW r \in Runs, Loop!Running(r), NEW kind, NEW truncated, Loop!Return(r, kind, truncated)
    PROVE  LoopInv'
<1> DEFINE caller == Len(stack[r]) - 1
<1>1. WellNested(stack[r]) /\ caller \in Nat /\ caller \in 0 .. Len(stack[r])
  BY TopFrame DEF LoopInv
<1>2. CASE caller = 0
  <2>1. WellNested(<<>>)
    BY LimitsAssumption DEF WellNested
  <2>2. stack' = [stack EXCEPT ![r] = <<>>]
    BY <1>2 DEF Loop!Return
  <2> QED BY <2>1, <2>2, OneStackChanges
<1>3. CASE caller # 0
  <2> DEFINE below == SubSeq(stack[r], 1, caller)
  <2>1. \A n \in Nat : n # 0 => n \in 1 .. n
    OBVIOUS
  <2>2. caller \in 1 .. caller
    BY <1>1, <1>3, <2>1
  <2>3. WellNested(below) /\ Len(below) = caller /\ caller \in 1 .. Len(below)
    BY <1>1, <2>2, DropFrames
  <2>4. below[caller] \in Loop!Frame /\ below[caller].depth = caller - 1
    BY <2>3 DEF WellNested
  <2>5. Loop!ToolsAnswered(below[caller]) \in Loop!Frame /\ Loop!ToolsAnswered(below[caller]).depth = caller - 1
    BY <2>4, AnsweredFrame
  <2>6. WellNested([below EXCEPT ![caller] = Loop!ToolsAnswered(below[caller])])
    BY <2>3, <2>5, ReplaceFrame
  <2>7. stack' = [stack EXCEPT ![r] = [below EXCEPT ![caller] = Loop!ToolsAnswered(below[caller])]]
    BY <1>3 DEF Loop!Return
  <2> QED BY <2>6, <2>7, OneStackChanges
<1> QED BY <1>2, <1>3

\* Every step keeps the stacks well nested, given that counters stay numbers.
LEMMA NestingStep ==
    ASSUME LoopInv, step \in [Agents -> Nat], [Loop!Next]_(Loop!vars)
    PROVE  LoopInv'
<1> USE LimitsAssumption, BoundsAssumption, CallableAssumption
<1>1. ASSUME NEW r \in Runs, NEW x \in Exposed, Loop!Start(r, x) PROVE LoopInv'
  <2>1. x \in Agents
    OBVIOUS
  <2>2. Loop!NewFrame(x, 0) \in Loop!Frame /\ Loop!NewFrame(x, 0).depth = 0
    BY <2>1 DEF Loop!NewFrame, Loop!Frame
  <2>3. WellNested(<<Loop!NewFrame(x, 0)>>)
    BY <2>2 DEF WellNested
  <2> QED BY <1>1, <2>3, OneStackChanges DEF Loop!Start
<1>2. ASSUME NEW r \in Runs, Loop!Advance(r) PROVE LoopInv'
  <2>1. ASSUME NEW node \in {"llm", "tools"}, Loop!Enter(r, node) PROVE LoopInv'
    <3>1. Loop!Running(r)
      BY <2>1 DEF Loop!Enter, Loop!At
    <3>2. [Loop!Top(r) EXCEPT !.at = "invoke"] \in Loop!Frame
          /\ [Loop!Top(r) EXCEPT !.at = "invoke"].depth = Loop!Top(r).depth
      BY <3>1, TopFrame DEF Loop!Frame
    <3>3. CASE Loop!Return(r, "error", FALSE)
      BY <3>1, <3>3, ReturnKeeps
    <3>4. CASE Loop!SetTop(r, [Loop!Top(r) EXCEPT !.at = "invoke"])
      BY <3>1, <3>2, <3>4, SetTopKeeps
    <3> QED BY <2>1, <3>3, <3>4 DEF Loop!Enter
  <2>2. ASSUME NEW k \in 0 .. MaxCalls, Loop!LLMAnswers(r, k) PROVE LoopInv'
    <3> DEFINE f == [Loop!Top(r) EXCEPT !.at = "count", !.calls = k, !.turns = Loop!CountTurn(@)]
    <3>1. Loop!Running(r)
      BY <2>2 DEF Loop!LLMAnswers, Loop!At
    <3>2. f \in Loop!Frame /\ f.depth = Loop!Top(r).depth
      BY <3>1, TopFrame, TurnFrame
    <3>3. Loop!SetTop(r, f)
      BY <2>2 DEF Loop!LLMAnswers
    <3> HIDE DEF f
    <3> QED BY <3>1, <3>2, <3>3, SetTopKeeps
  <2>3. CASE Loop!LLMFails(r)
    BY <2>3, ReturnKeeps DEF Loop!LLMFails, Loop!At
  <2>4. CASE Loop!ReadStep(r)
    <3> DEFINE f == [Loop!Top(r) EXCEPT !.at = "store", !.seen = step[Loop!Top(r).agent]]
    <3>1. Loop!Running(r)
      BY <2>4 DEF Loop!ReadStep, Loop!At
    <3>2. f \in Loop!Frame /\ f.depth = Loop!Top(r).depth
      BY <3>1, TopFrame DEF Loop!Frame
    <3>3. Loop!SetTop(r, f)
      BY <2>4 DEF Loop!ReadStep
    <3> HIDE DEF f
    <3> QED BY <3>1, <3>2, <3>3, SetTopKeeps
  <2>5. CASE Loop!WriteStep(r)
    <3> DEFINE f == [Loop!Top(r) EXCEPT !.at = "route"]
    <3>1. Loop!Running(r)
      BY <2>5 DEF Loop!WriteStep, Loop!At
    <3>2. f \in Loop!Frame /\ f.depth = Loop!Top(r).depth
      BY <3>1, TopFrame DEF Loop!Frame
    <3>3. Loop!SetTop(r, f)
      BY <2>5 DEF Loop!WriteStep
    <3> HIDE DEF f
    <3> QED BY <3>1, <3>2, <3>3, SetTopKeeps
  <2>6. CASE Loop!Route(r)
    <3> DEFINE f == [Loop!Top(r) EXCEPT !.node = "tools", !.at = "check", !.seen = 0]
    <3>1. Loop!Running(r)
      BY <2>6 DEF Loop!Route, Loop!At
    <3>2. f \in Loop!Frame /\ f.depth = Loop!Top(r).depth
      BY <3>1, TopFrame DEF Loop!Frame
    <3>3. CASE Loop!Truncate(r)
      BY <3>1, <3>3, ReturnKeeps DEF Loop!Truncate
    <3>4. CASE Loop!Finish(r)
      BY <3>1, <3>4, ReturnKeeps DEF Loop!Finish
    <3>5. CASE Loop!GoToTools(r)
      <4>1. Loop!SetTop(r, f)
        BY <3>5 DEF Loop!GoToTools
      <4> HIDE DEF f
      <4> QED BY <3>1, <3>2, <4>1, SetTopKeeps
    <3> QED BY <2>6, <3>3, <3>4, <3>5 DEF Loop!Route
  <2>7. ASSUME Loop!Running(r), Loop!SetTop(r, Loop!ToolsAnswered(Loop!Top(r))) PROVE LoopInv'
    <3>1. Loop!ToolsAnswered(Loop!Top(r)) \in Loop!Frame /\ Loop!ToolsAnswered(Loop!Top(r)).depth = Loop!Top(r).depth
      BY <2>7, TopFrame, AnsweredFrame
    <3> QED BY <2>7, <3>1, SetTopKeeps
  <2>8. CASE Loop!UseTool(r)
    BY <2>7, <2>8 DEF Loop!UseTool, Loop!At
  <2>9. ASSUME NEW y \in Agents, Loop!Delegate(r, y) PROVE LoopInv'
    <3>1. Loop!Running(r)
      BY <2>9 DEF Loop!Delegate, Loop!At
    <3>2. CASE Loop!Top(r).depth >= MaxAgentDepth
      BY <2>7, <2>9, <3>1, <3>2, TopFrame DEF Loop!Delegate, Loop!Frame
    <3>3. CASE Loop!Top(r).depth < MaxAgentDepth
      <4> DEFINE f == Loop!NewFrame(y, Loop!Top(r).depth + 1)
      <4>1. Loop!Top(r).depth = Len(stack[r]) - 1 /\ Len(stack[r]) \in Nat /\ WellNested(stack[r])
        BY <3>1, TopFrame DEF LoopInv
      <4>2. f \in Loop!Frame /\ f.depth = Len(stack[r]) /\ Len(stack[r]) <= MaxAgentDepth
        BY <3>3, <4>1 DEF Loop!NewFrame, Loop!Frame
      <4>3. stack' = [stack EXCEPT ![r] = Append(stack[r], f)]
        BY <2>9, <3>3, <4>1 DEF Loop!Delegate
      <4> HIDE DEF f
      <4>4. WellNested(Append(stack[r], f))
        BY <4>1, <4>2, PushFrame
      <4> QED BY <4>3, <4>4, OneStackChanges
    <3>4. Loop!Top(r).depth \in Nat
      BY <3>1, TopFrame DEF Loop!Frame
    <3> QED BY <3>2, <3>3, <3>4
  <2> QED BY <1>2, <2>1, <2>2, <2>3, <2>4, <2>5, <2>6, <2>8, <2>9 DEF Loop!Advance
<1>3. ASSUME UNCHANGED stack PROVE LoopInv'
  BY <1>3 DEF LoopInv, WellNested
<1> QED BY <1>1, <1>2, <1>3 DEF Loop!Next, Loop!Cancel, Loop!vars

\* The counters are numbers: what Loop!WriteStep stores was read from one.
LEMMA CounterStep ==
    ASSUME LoopInv, step \in [Agents -> Nat], [Loop!Next]_(Loop!vars)
    PROVE  step' \in [Agents -> Nat]
<1>1. ASSUME NEW r \in Runs, Loop!WriteStep(r) PROVE step' \in [Agents -> Nat]
  <2>1. Loop!Top(r).seen + 1 \in Nat
    BY <1>1, TopFrame DEF Loop!WriteStep, Loop!At, Loop!Frame
  <2> QED BY <1>1, <2>1 DEF Loop!WriteStep
<1> QED BY <1>1 DEF Loop!Next, Loop!vars, Loop!Start, Loop!Cancel, Loop!Advance, Loop!Enter, Loop!LLMAnswers, Loop!LLMFails, Loop!ReadStep,
                        Loop!Route, Loop!UseTool, Loop!Delegate

LEMMA LoopStarts == Loop!Init => LoopInv /\ step \in [Agents -> Nat]
<1> SUFFICES ASSUME Loop!Init PROVE LoopInv /\ step \in [Agents -> Nat]
  OBVIOUS
<1>1. WellNested(<<>>)
  BY LimitsAssumption DEF WellNested
<1> QED BY <1>1 DEF Loop!Init, LoopInv

\* The composition moves the loop by its own steps.
LEMMA LoopMoves ==
    ASSUME [Next]_vars, (part = "loop")'
    PROVE  part = "loop" /\ [Loop!Next]_(Loop!vars)
  BY DEF Next, InGraph, InAgent, InLoop, vars, loopVars, Loop!vars

\* Agents nest at most MaxAgentDepth deep, and Meta's depth is that nesting,
\* for any agents, any limit and any number of concurrent runs.
THEOREM DepthIsBounded == Spec => []DepthIsNesting
<1> DEFINE Inv == part = "loop" => LoopInv /\ step \in [Agents -> Nat]
<1>1. Init => Inv
  BY LoopStarts DEF Init
<1>2. Inv /\ [Next]_vars => Inv'
  BY LoopMoves, NestingStep, CounterStep
<1>3. Inv => DepthIsNesting
  BY DEF LoopInv, WellNested, DepthIsNesting, Loop!DepthIsNesting
<1> QED BY <1>1, <1>2, <1>3, PTL DEF Spec

-----------------------------------------------------------------------------
\* An LLM turn of the top frame is in flight.
InFlight(fs) ==
    fs # <<>> /\ fs[Len(fs)].node = "llm" /\ fs[Len(fs)].at = "invoke"

\* Loop!SetTop makes the given frame the top one.
LEMMA SetTopIsTop ==
    ASSUME LoopInv, NEW r \in Runs, Loop!Running(r), NEW frame, Loop!SetTop(r, frame),
           frame.node # "llm" \/ frame.at # "invoke"
    PROVE  ~InFlight(stack'[r]) /\ \A q \in Runs \ {r} : stack'[q] = stack[q]
<1>1. stack[r] \in Seq(Loop!Frame) /\ Len(stack[r]) \in 1 .. Len(stack[r])
  BY TopFrame DEF LoopInv
<1> DEFINE fs == [stack[r] EXCEPT ![Len(stack[r])] = frame]
<1>2. stack'[r] = fs /\ \A q \in Runs \ {r} : stack'[q] = stack[q]
  BY DEF Loop!SetTop, LoopInv
<1>3. Len(fs) = Len(stack[r]) /\ fs[Len(stack[r])] = frame
  BY <1>1
<1> HIDE DEF fs
<1> QED BY <1>2, <1>3 DEF InFlight

\* The frame a Loop!Return goes back to is at the head of the loop.
LEMMA ReturnIsQuiet ==
    ASSUME LoopInv, NEW r \in Runs, Loop!Running(r), NEW kind, NEW truncated, Loop!Return(r, kind, truncated)
    PROVE  ~InFlight(stack'[r]) /\ \A q \in Runs \ {r} : stack'[q] = stack[q]
<1> DEFINE caller == Len(stack[r]) - 1
           below == SubSeq(stack[r], 1, caller)
           fs == [below EXCEPT ![caller] = Loop!ToolsAnswered(below[caller])]
<1>1. WellNested(stack[r]) /\ caller \in Nat /\ caller \in 0 .. Len(stack[r])
  BY TopFrame DEF LoopInv
<1>2. CASE caller = 0
  <2>1. stack' = [stack EXCEPT ![r] = <<>>]
    BY <1>2 DEF Loop!Return
  <2> QED BY <2>1 DEF InFlight, LoopInv
<1>3. CASE caller # 0
  <2>1. stack' = [stack EXCEPT ![r] = fs]
    BY <1>3 DEF Loop!Return
  <2>2. \A n \in Nat : n # 0 => n \in 1 .. n
    OBVIOUS
  <2>3. WellNested(below) /\ Len(below) = caller /\ caller \in 1 .. Len(below)
    BY <1>1, <1>3, <2>2, DropFrames
  <2>4. below \in Seq(Loop!Frame) /\ below[caller] \in Loop!Frame
    BY <2>3 DEF WellNested
  <2>5. Loop!ToolsAnswered(below[caller]).at = "check"
    BY <2>4 DEF Loop!ToolsAnswered, Loop!Frame
  <2>6. Len(fs) = caller /\ fs[caller].at = "check"
    BY <2>3, <2>4, <2>5
  <2>7. stack'[r] = fs /\ \A q \in Runs \ {r} : stack'[q] = stack[q]
    BY <2>1 DEF LoopInv
  <2> HIDE DEF fs
  <2> QED BY <2>6, <2>7 DEF InFlight
<1> QED BY <1>2, <1>3

\* Of r's steps, only Loop!LLMAnswers counts a late turn, and only Loop!Enter with a live
\* context puts a turn in flight.
LEMMA AdvanceIsQuiet ==
    ASSUME LoopInv, step \in [Agents -> Nat], NEW r \in Runs, Loop!Advance(r)
    PROVE  /\ UNCHANGED expired
           /\ \A q \in Runs \ {r} : stack'[q] = stack[q]
           /\ \/ InFlight(stack[r]) /\ late' = [late EXCEPT ![r] = IF expired[r] THEN @ + 1 ELSE @]
                 /\ ~InFlight(stack'[r])
              \/ UNCHANGED late /\ (expired[r] => ~InFlight(stack'[r]))
<1>1. ASSUME NEW node \in {"llm", "tools"}, Loop!Enter(r, node)
      PROVE  /\ UNCHANGED <<expired, late>> /\ (expired[r] => ~InFlight(stack'[r]))
             /\ \A q \in Runs \ {r} : stack'[q] = stack[q]
  <2>1. Loop!Running(r)
    BY <1>1 DEF Loop!Enter, Loop!At
  <2>2. CASE expired[r]
    BY <1>1, <2>1, <2>2, ReturnIsQuiet DEF Loop!Enter
  <2>3. CASE ~expired[r]
    BY <1>1, <2>3 DEF Loop!Enter, Loop!SetTop, LoopInv
  <2> QED BY <1>1, <2>2, <2>3 DEF Loop!Enter
<1>2. ASSUME NEW k \in 0 .. MaxCalls, Loop!LLMAnswers(r, k)
      PROVE  /\ InFlight(stack[r]) /\ ~InFlight(stack'[r]) /\ UNCHANGED expired
             /\ late' = [late EXCEPT ![r] = IF expired[r] THEN @ + 1 ELSE @]
             /\ \A q \in Runs \ {r} : stack'[q] = stack[q]
  <2> DEFINE f == [Loop!Top(r) EXCEPT !.at = "count", !.calls = k, !.turns = Loop!CountTurn(@)]
  <2>1. Loop!Running(r) /\ InFlight(stack[r])
    BY <1>2 DEF Loop!LLMAnswers, Loop!At, Loop!Running, Loop!Top, InFlight
  <2>2. f.at = "count"
    BY <2>1, TopFrame DEF Loop!Frame
  <2>3. Loop!SetTop(r, f)
    BY <1>2 DEF Loop!LLMAnswers
  <2> HIDE DEF f
  <2> QED BY <1>2, <2>1, <2>2, <2>3, SetTopIsTop DEF Loop!LLMAnswers
<1>3. ASSUME NEW f, Loop!Running(r), Loop!SetTop(r, f), f.at # "invoke", UNCHANGED <<expired, late>>
      PROVE  /\ UNCHANGED <<expired, late>> /\ ~InFlight(stack'[r])
             /\ \A q \in Runs \ {r} : stack'[q] = stack[q]
  BY <1>3, SetTopIsTop
<1>4. CASE Loop!LLMFails(r)
  BY <1>4, ReturnIsQuiet DEF Loop!LLMFails, Loop!At
<1>5. CASE Loop!ReadStep(r)
  <2>1. Loop!Running(r) /\ [Loop!Top(r) EXCEPT !.at = "store", !.seen = step[Loop!Top(r).agent]].at # "invoke"
    BY <1>5, TopFrame DEF Loop!ReadStep, Loop!At, Loop!Frame
  <2> QED BY <1>3, <1>5, <2>1 DEF Loop!ReadStep
<1>6. CASE Loop!WriteStep(r)
  <2>1. Loop!Running(r) /\ [Loop!Top(r) EXCEPT !.at = "route"].at # "invoke"
    BY <1>6, TopFrame DEF Loop!WriteStep, Loop!At, Loop!Frame
  <2> QED BY <1>3, <1>6, <2>1 DEF Loop!WriteStep
<1>7. CASE Loop!Route(r)
  <2>1. Loop!Running(r) /\ [Loop!Top(r) EXCEPT !.node = "tools", !.at = "check", !.seen = 0].at # "invoke"
    BY <1>7, TopFrame DEF Loop!Route, Loop!At, Loop!Frame
  <2>2. CASE Loop!GoToTools(r)
    BY <1>3, <1>7, <2>1, <2>2 DEF Loop!Route, Loop!GoToTools
  <2>3. CASE Loop!Truncate(r) \/ Loop!Finish(r)
    BY <1>7, <2>1, <2>3, ReturnIsQuiet DEF Loop!Route, Loop!Truncate, Loop!Finish
  <2> QED BY <1>7, <2>2, <2>3 DEF Loop!Route
<1>8. ASSUME Loop!Running(r) PROVE Loop!ToolsAnswered(Loop!Top(r)).at # "invoke"
  BY <1>8, TopFrame DEF Loop!ToolsAnswered, Loop!Frame
<1>9. CASE Loop!UseTool(r)
  BY <1>3, <1>8, <1>9 DEF Loop!UseTool, Loop!At
<1>10. ASSUME NEW y \in Agents, Loop!Delegate(r, y)
       PROVE  /\ UNCHANGED <<expired, late>> /\ ~InFlight(stack'[r])
              /\ \A q \in Runs \ {r} : stack'[q] = stack[q]
  <2>1. Loop!Running(r)
    BY <1>10 DEF Loop!Delegate, Loop!At
  <2>2. CASE Loop!SetTop(r, Loop!ToolsAnswered(Loop!Top(r)))
    BY <1>3, <1>8, <1>10, <2>1, <2>2 DEF Loop!Delegate
  <2>3. CASE stack' = [stack EXCEPT ![r] = Append(@, Loop!NewFrame(y, Loop!Top(r).depth + 1))]
    <3> DEFINE f == Loop!NewFrame(y, Loop!Top(r).depth + 1)
    <3>1. stack'[r] = Append(stack[r], f) /\ stack[r] \in Seq(Loop!Frame)
          /\ \A q \in Runs \ {r} : stack'[q] = stack[q]
      BY <2>3 DEF LoopInv
    <3>2. f.at = "check"
      BY DEF Loop!NewFrame
    <3> HIDE DEF f
    <3>3. Append(stack[r], f)[Len(Append(stack[r], f))] = f
      BY <3>1
    <3> QED BY <1>10, <3>1, <3>2, <3>3 DEF InFlight, Loop!Delegate
  <2> QED BY <1>10, <2>2, <2>3 DEF Loop!Delegate
<1> QED BY <1>1, <1>2, <1>4, <1>5, <1>6, <1>7, <1>9, <1>10 DEF Loop!Advance

TurnsInv ==
    /\ LoopInv
    /\ step \in [Agents -> Nat]
    /\ late \in [Runs -> Nat] /\ expired \in [Runs -> BOOLEAN]
    /\ \A r \in Runs : late[r] = 0
          \/ (late[r] = 1 /\ expired[r] /\ ~InFlight(stack[r]))

LEMMA TurnsStep == ASSUME TurnsInv, [Loop!Next]_(Loop!vars) PROVE TurnsInv'
<1>1. LoopInv' /\ (step \in [Agents -> Nat])'
  BY NestingStep, CounterStep DEF TurnsInv
<1>2. ASSUME NEW r \in Runs, NEW x \in Exposed, Loop!Start(r, x) PROVE TurnsInv'
  BY <1>1, <1>2 DEF Loop!Start, LoopInv, TurnsInv
<1>3. ASSUME NEW r \in Runs, Loop!Cancel(r) PROVE TurnsInv'
  BY <1>1, <1>3 DEF Loop!Cancel, TurnsInv
<1>4. ASSUME NEW r \in Runs, Loop!Advance(r) PROVE TurnsInv'
  BY <1>1, <1>4, AdvanceIsQuiet DEF TurnsInv
<1>5. CASE UNCHANGED Loop!vars
  BY <1>1, <1>5 DEF Loop!vars, TurnsInv
<1> QED BY <1>2, <1>3, <1>4, <1>5 DEF Loop!Next

\* However deep agents are nested, one LLM turn at most completes after the
\* context of the run is done, for any limits and any number of runs.
THEOREM CancelStopsTheLoop == Spec => []OneTurnAfterCancel
<1> DEFINE Inv == part = "loop" => TurnsInv
<1>1. Init => Inv
  <2> SUFFICES ASSUME Loop!Init PROVE TurnsInv
    BY DEF Init
  <2>1. late = [r \in Runs |-> 0] /\ expired = [r \in Runs |-> FALSE]
    BY DEF Loop!Init
  <2> QED BY <2>1, LoopStarts DEF TurnsInv
<1>2. Inv /\ [Next]_vars => Inv'
  BY LoopMoves, TurnsStep
<1>3. Inv => OneTurnAfterCancel
  BY DEF TurnsInv, OneTurnAfterCancel, Loop!OneTurnAfterCancel
<1> QED BY <1>1, <1>2, <1>3, PTL DEF Spec

-----------------------------------------------------------------------------
(* Lists of names.                                                         *)

Members(q) == {q[i] : i \in DOMAIN q}
AllDiffer(q) == \A i, j \in DOMAIN q : q[i] = q[j] => i = j
UpTo(P, i) == {j \in P : j <= i}

LEMMA SameCardinality == \A S : Agent!Cardinality(S) = Cardinality(S)
  BY DEF Agent!Cardinality, Cardinality

LEMMA SameMembers == \A q : Agent!Members(q) = Members(q)
  BY DEF Agent!Members, Members

\* Places are counted from the lowest: each has a number of its own, and no number is left out.
LEMMA PlacesCount ==
    ASSUME NEW n \in Nat, NEW P \in SUBSET (1 .. n)
    PROVE  /\ IsFiniteSet(P) /\ Cardinality(P) \in Nat
           /\ \A i \in P : IsFiniteSet(UpTo(P, i)) /\ Cardinality(UpTo(P, i)) \in 1 .. Cardinality(P)
           /\ \A i, j \in P : Cardinality(UpTo(P, i)) = Cardinality(UpTo(P, j)) => i = j
           /\ \A k \in 1 .. Cardinality(P) : \E i \in P : Cardinality(UpTo(P, i)) = k
<1> DEFINE N == Cardinality(P)
           rank == [i \in P |-> Cardinality(UpTo(P, i))]
<1>1. IsFiniteSet(P) /\ N \in Nat
  <2>1. IsFiniteSet(1 .. n)
    BY FS_Interval
  <2> QED BY <2>1, FS_Subset, FS_CardinalityType
<1>2. ASSUME NEW i \in P
      PROVE  IsFiniteSet(UpTo(P, i)) /\ Cardinality(UpTo(P, i)) \in 1 .. N
  <2>1. UpTo(P, i) \subseteq P /\ i \in UpTo(P, i)
    BY DEF UpTo
  <2>2. IsFiniteSet(UpTo(P, i)) /\ Cardinality(UpTo(P, i)) <= N
    BY <1>1, <2>1, FS_Subset
  <2>3. Cardinality(UpTo(P, i)) \in Nat /\ Cardinality(UpTo(P, i)) # 0
    BY <2>1, <2>2, FS_CardinalityType, FS_EmptySet
  <2> QED BY <1>1, <2>2, <2>3
<1>3. ASSUME NEW i \in P, NEW j \in P, i < j
      PROVE  Cardinality(UpTo(P, i)) # Cardinality(UpTo(P, j))
  <2>1. i \in Int /\ j \in Int /\ P \subseteq Int
    OBVIOUS
  <2>2. UpTo(P, i) \subseteq UpTo(P, j) /\ j \in UpTo(P, j) /\ j \notin UpTo(P, i)
    <3>1. ASSUME NEW m \in P, m <= i PROVE m <= j
      BY <1>3, <2>1, <3>1
    <3>2. j <= j /\ ~(j <= i)
      BY <1>3, <2>1
    <3> QED BY <3>1, <3>2 DEF UpTo
  <2> QED BY <1>2, <2>2, FS_Subset
<1>4. ASSUME NEW i \in P, NEW j \in P, Cardinality(UpTo(P, i)) = Cardinality(UpTo(P, j)) PROVE i = j
  BY <1>3, <1>4
<1>5. rank \in Injection(P, 1 .. N)
  BY <1>2, <1>4 DEF Injection, IsInjective
<1>6. IsFiniteSet(1 .. N) /\ Cardinality(1 .. N) = N
  BY <1>1, FS_Interval
<1>7. rank \in Surjection(P, 1 .. N)
  BY <1>5, <1>6, FS_Injection
<1>8. \A k \in 1 .. N : \E i \in P : rank[i] = k
  BY <1>7 DEF Surjection
<1> QED BY <1>1, <1>2, <1>4, <1>8

\* Picked lists the entries at the given places, each once.
LEMMA PickedIs ==
    ASSUME NEW T, NEW q \in Seq(T), NEW P \in SUBSET DOMAIN q
    PROVE  /\ Agent!Picked(q, P) \in Seq(T)
           /\ Members(Agent!Picked(q, P)) = {q[i] : i \in P}
           /\ (\A i, j \in P : q[i] = q[j] => i = j) => AllDiffer(Agent!Picked(q, P))
<1> DEFINE N == Cardinality(P)
           Nth(k) == CHOOSE i \in P : Agent!Cardinality({j \in P : j <= i}) = k
           r == [k \in 1 .. N |-> q[Nth(k)]]
<1>1. /\ N \in Nat
      /\ \A i \in P : Cardinality(UpTo(P, i)) \in 1 .. N
      /\ \A i, j \in P : Cardinality(UpTo(P, i)) = Cardinality(UpTo(P, j)) => i = j
      /\ \A k \in 1 .. N : \E i \in P : Cardinality(UpTo(P, i)) = k
  <2>1. PICK n \in Nat : DOMAIN q = 1 .. n
    OBVIOUS
  <2> QED BY <2>1, PlacesCount
<1>2. \A k \in 1 .. N : Nth(k) \in P /\ Cardinality(UpTo(P, Nth(k))) = k
  <2>1. \A i \in P : Agent!Cardinality({j \in P : j <= i}) = Cardinality(UpTo(P, i))
    BY SameCardinality DEF UpTo
  <2> QED BY <1>1, <2>1
<1>3. \A i \in P : Nth(Cardinality(UpTo(P, i))) = i
  BY <1>1, <1>2
<1>4. Agent!Picked(q, P) = r
  <2>1. Agent!Cardinality(P) = N
    BY SameCardinality
  <2> QED BY <2>1 DEF Agent!Picked
<1> HIDE DEF Nth, N
<1>5. r \in Seq(T) /\ DOMAIN r = 1 .. N
  <2>1. \A k \in 1 .. N : q[Nth(k)] \in T
    BY <1>2
  <2> QED BY <1>1, <2>1
<1>6. Members(r) = {q[i] : i \in P}
  <2>1. ASSUME NEW i \in P PROVE q[i] \in Members(r)
    <3>1. Cardinality(UpTo(P, i)) \in 1 .. N /\ Nth(Cardinality(UpTo(P, i))) = i
      BY <1>1, <1>3
    <3> QED BY <1>5, <3>1 DEF Members
  <2>2. ASSUME NEW k \in DOMAIN r PROVE r[k] \in {q[i] : i \in P}
    BY <1>2, <1>5, <2>2
  <2> QED BY <2>1, <2>2 DEF Members
<1>7. ASSUME \A i, j \in P : q[i] = q[j] => i = j PROVE AllDiffer(r)
  BY <1>2, <1>5, <1>7 DEF AllDiffer
<1> HIDE DEF r
<1> QED BY <1>4, <1>5, <1>6, <1>7

\* What is in a list is in it for a first time.
LEMMA FirstPlace ==
    ASSUME NEW T, NEW q \in Seq(T), NEW x \in Members(q)
    PROVE  \E i \in DOMAIN q : q[i] = x /\ \A j \in 1 .. (i - 1) : q[j] # x
<1> DEFINE P == {i \in DOMAIN q : q[i] = x}
<1>1. PICK n \in Nat : DOMAIN q = 1 .. n
  OBVIOUS
<1>2. P \in SUBSET (1 .. n) /\ P # {}
  BY <1>1 DEF Members
<1>3. IsFiniteSet(P) /\ Cardinality(P) \in Nat /\ Cardinality(P) # 0
  BY <1>2, PlacesCount, FS_EmptySet
<1>4. PICK i \in P : Cardinality(UpTo(P, i)) = 1 /\ IsFiniteSet(UpTo(P, i))
  <2>1. 1 \in 1 .. Cardinality(P)
    BY <1>3
  <2> HIDE DEF P
  <2> QED BY <1>2, <2>1, PlacesCount
<1>5. PICK y : UpTo(P, i) = {y}
  BY <1>4, FS_Singleton
<1>6. \A j \in P : j <= i => j = i
  BY <1>4, <1>5, <1>1 DEF UpTo
<1> QED BY <1>1, <1>4, <1>6

\* Unseen lists what has not been seen, each name once.
LEMMA UnseenIs ==
    ASSUME NEW T, NEW q \in Seq(T), NEW seen
    PROVE  /\ Agent!Unseen(q, seen) \in Seq(T)
           /\ Members(Agent!Unseen(q, seen)) = Members(q) \ seen
           /\ AllDiffer(Agent!Unseen(q, seen))
<1> DEFINE P == {i \in DOMAIN q : q[i] \notin seen /\ \A j \in 1 .. (i - 1) : q[j] # q[i]}
<1>1. Agent!Unseen(q, seen) = Agent!Picked(q, P)
  BY DEF Agent!Unseen
<1>2. P \in SUBSET DOMAIN q
  OBVIOUS
<1>3. \A i, j \in P : q[i] = q[j] => i = j
  <2>1. PICK n \in Nat : DOMAIN q = 1 .. n
    OBVIOUS
  <2>2. ASSUME NEW i \in P, NEW j \in P, q[i] = q[j], i < j PROVE FALSE
    BY <2>1, <2>2
  <2> QED BY <2>1, <2>2
<1>4. {q[i] : i \in P} = Members(q) \ seen
  <2>1. ASSUME NEW x \in Members(q) \ seen PROVE x \in {q[i] : i \in P}
    BY <2>1, FirstPlace
  <2> QED BY <2>1 DEF Members
<1> HIDE DEF P
<1> QED BY <1>1, <1>2, <1>3, <1>4, PickedIs

-----------------------------------------------------------------------------
(* AgentCompiler.  Refers(n): the names on the list that the search takes  *)
(* for n's; Vertices: the definition and the agents it has been given.     *)

Refers(n) == Members(Agent!Edges(n))
Vertices == DOMAIN agents \union {spec.name}

\* No way round among the names of S: in each part of it there is one that none of the part refers to.
Loose(S) == \A R \in SUBSET S : R # {} => \E n \in R : \A m \in R : n \notin Refers(m)

CompilerTypes ==
    /\ pc \in {"idle", "resolve", "sort", "search", "last"}
    /\ pc # "idle" => result = "none"
    /\ spec \in Specs
    /\ DOMAIN registry \subseteq Names /\ \A n \in DOMAIN registry : registry[n] \in Seq(Names)
    /\ DOMAIN agents \subseteq Names /\ \A n \in DOMAIN agents : agents[n] \in Seq(Names)

\* What is resolved or in Q is on the definition's list, or on that of an agent that has been resolved,
\* and cannot be avoided; only those in Q, and the definition itself, may still be without their own list.
Reaches(Q) ==
    /\ Members(spec.agents) \subseteq DOMAIN agents \union Q
    /\ \A n \in DOMAIN agents : Members(agents[n]) \subseteq Vertices \union Q
    /\ \A S \in SUBSET Names :
          Members(spec.agents) \subseteq S /\ Agent!Closed(S) => DOMAIN agents \union Q \subseteq S
    /\ \A x \in DOMAIN agents \union Q :
          x \in Members(spec.agents) \/ \E m \in DOMAIN agents : x \in Members(agents[m])
    /\ spec.name \in DOMAIN agents \union Q => spec.name \in Members(spec.agents)

Resolving ==
    /\ queue \in Seq(Names) /\ sorted = 0
    /\ spec.name \in visited /\ visited \subseteq Vertices \union Members(queue)
    /\ Reaches(Members(queue))

NodesAre == nodes \in Seq(Names) /\ Members(nodes) = Vertices

\* The nodes that the sort has taken, the places of the others, and the edges into x from some places of q.
Taken == {x \in Vertices : degree[x] = 0} \ Members(queue)
Open == {i \in DOMAIN nodes : nodes[i] \notin Taken}
Row(q, i, x) == {k \in DOMAIN Agent!Edges(q[i]) : Agent!Edges(q[i])[k] = x}
Into(q, x, I) == UNION {{<<i, k>> : k \in Row(q, i, x)} : i \in I}

\* Kahn's sort: what has been taken refers to the rest, the rest does not refer to it.
Sorting ==
    /\ AllDiffer(nodes)
    /\ queue \in Seq(Vertices) /\ AllDiffer(queue)
    /\ degree \in [Vertices -> Int] /\ \A x \in Members(queue) : degree[x] = 0
    /\ \A x \in Vertices : degree[x] = Cardinality(Into(nodes, x, Open))
    /\ sorted = Cardinality(Taken)
    /\ \A R \in SUBSET Vertices : R \intersect Taken # {} => \E n \in R : \A m \in R : n \notin Refers(m)

\* The names the search is done with.
Searched == visited \ Agent!Inside

Searching ==
    /\ visited \subseteq Vertices
    /\ path \in Seq([node : Vertices, at : Nat \ {0}]) /\ Agent!Inside \subseteq visited
    /\ \A i, j \in DOMAIN path : path[i].node = path[j].node => i = j
    /\ \A i \in DOMAIN path : \A k \in 1 .. (path[i].at - 1) :
          /\ k \in DOMAIN Agent!Edges(path[i].node)
          /\ \/ Agent!Edges(path[i].node)[k] \in Searched
             \/ i < Len(path) /\ k = path[i].at - 1 /\ path[i + 1].node = Agent!Edges(path[i].node)[k]
    /\ \A i \in 1 .. (Len(path) - 1) : path[i + 1].node \in Refers(path[i].node)
    /\ \A n \in Searched : Refers(n) \subseteq Searched
    /\ Loose(Searched)

Ready == Reaches({}) /\ (spec.name \notin DOMAIN agents => Loose(Vertices))

IsCycle ==
    /\ Len(path) > 1 /\ path[1].node = path[Len(path)].node
    /\ \A i \in 1 .. (Len(path) - 1) : path[i + 1].node \in Refers(path[i].node)

CompilerInv ==
    /\ CompilerTypes
    /\ pc \in {"resolve", "sort"} => path = <<>>
    /\ pc = "resolve" => Resolving
    /\ pc \in {"sort", "search"} => Reaches({}) /\ NodesAre
    /\ pc = "sort" => visited = {} /\ (spec.name \notin DOMAIN agents => Sorting)
    /\ pc = "search" => Searching
    /\ pc = "last" \/ result = "compiled" => Ready
    /\ result = "cycle" => IsCycle

LEMMA HeadAndTail ==
    ASSUME NEW T, NEW q \in Seq(T), q # <<>>
    PROVE  /\ Head(q) \in T /\ Tail(q) \in Seq(T)
           /\ Members(q) = {Head(q)} \union Members(Tail(q))
           /\ AllDiffer(q) => AllDiffer(Tail(q)) /\ Head(q) \notin Members(Tail(q))
<1>1. /\ Len(q) \in Nat /\ Len(q) >= 1 /\ DOMAIN q = 1 .. Len(q) /\ Head(q) = q[1]
      /\ Tail(q) \in Seq(T) /\ DOMAIN Tail(q) = 1 .. (Len(q) - 1)
      /\ \A i \in 1 .. (Len(q) - 1) : Tail(q)[i] = q[i + 1]
  OBVIOUS
<1>2. ASSUME NEW i \in DOMAIN q PROVE q[i] = Head(q) \/ q[i] \in Members(Tail(q))
  <2>1. CASE i = 1
    BY <1>1, <2>1
  <2>2. CASE i # 1
    <3>1. i - 1 \in DOMAIN Tail(q) /\ Tail(q)[i - 1] = q[i]
      BY <1>1, <2>2
    <3> QED BY <3>1 DEF Members
  <2> QED BY <2>1, <2>2
<1>3. ASSUME NEW i \in DOMAIN Tail(q) PROVE Tail(q)[i] \in Members(q)
  BY <1>1 DEF Members
<1>4. ASSUME AllDiffer(q) PROVE AllDiffer(Tail(q)) /\ Head(q) \notin Members(Tail(q))
  <2>1. ASSUME NEW i \in DOMAIN Tail(q) PROVE i + 1 \in DOMAIN q /\ Tail(q)[i] = q[i + 1] /\ i + 1 # 1
    BY <1>1
  <2>2. ASSUME NEW i \in DOMAIN Tail(q), NEW j \in DOMAIN Tail(q), Tail(q)[i] = Tail(q)[j] PROVE i = j
    <3>1. i + 1 = j + 1
      BY <1>4, <2>1, <2>2 DEF AllDiffer
    <3> QED BY <1>1, <3>1
  <2>3. 1 \in DOMAIN q
    BY <1>1
  <2> QED BY <1>1, <1>4, <2>1, <2>2, <2>3 DEF AllDiffer, Members
<1>5. Head(q) \in T /\ Head(q) \in Members(q)
  BY <1>1 DEF Members
<1> QED BY <1>1, <1>2, <1>3, <1>4, <1>5 DEF Members

LEMMA JoinedIs ==
    ASSUME NEW T, NEW p \in Seq(T), NEW q \in Seq(T)
    PROVE  /\ p \o q \in Seq(T)
           /\ Members(p \o q) = Members(p) \union Members(q)
           /\ AllDiffer(p) /\ AllDiffer(q) /\ Members(p) \intersect Members(q) = {} => AllDiffer(p \o q)
<1>1. /\ p \o q \in Seq(T) /\ DOMAIN (p \o q) = 1 .. (Len(p) + Len(q))
      /\ DOMAIN p = 1 .. Len(p) /\ DOMAIN q = 1 .. Len(q) /\ Len(p) \in Nat /\ Len(q) \in Nat
      /\ \A i \in 1 .. (Len(p) + Len(q)) : (p \o q)[i] = IF i <= Len(p) THEN p[i] ELSE q[i - Len(p)]
  OBVIOUS
<1>2. ASSUME NEW i \in DOMAIN p PROVE i \in DOMAIN (p \o q) /\ (p \o q)[i] = p[i]
  BY <1>1
<1>3. ASSUME NEW i \in DOMAIN q PROVE i + Len(p) \in DOMAIN (p \o q) /\ (p \o q)[i + Len(p)] = q[i]
  BY <1>1
<1>4. ASSUME NEW i \in DOMAIN (p \o q)
      PROVE  \/ i \in DOMAIN p /\ (p \o q)[i] = p[i]
             \/ i - Len(p) \in DOMAIN q /\ (p \o q)[i] = q[i - Len(p)]
  BY <1>1
<1>5. Members(p \o q) = Members(p) \union Members(q)
  <2> DEFINE pq == p \o q
  <2>1. /\ \A i \in DOMAIN p : i \in DOMAIN pq /\ pq[i] = p[i]
        /\ \A i \in DOMAIN q : i + Len(p) \in DOMAIN pq /\ pq[i + Len(p)] = q[i]
        /\ \A i \in DOMAIN pq : (i \in DOMAIN p /\ pq[i] = p[i])
                                 \/ (i - Len(p) \in DOMAIN q /\ pq[i] = q[i - Len(p)])
    BY <1>2, <1>3, <1>4
  <2> HIDE DEF pq
  <2>2. Members(pq) \subseteq Members(p) \union Members(q)
    BY <2>1 DEF Members
  <2>3. Members(p) \subseteq Members(pq) /\ Members(q) \subseteq Members(pq)
    BY <2>1 DEF Members
  <2>4. Members(pq) = Members(p) \union Members(q)
    BY <2>2, <2>3
  <2> QED BY <2>4 DEF pq
<1>6. ASSUME AllDiffer(p), AllDiffer(q), Members(p) \intersect Members(q) = {} PROVE AllDiffer(p \o q)
  <2>1. ASSUME NEW i \in DOMAIN (p \o q), NEW j \in DOMAIN (p \o q), (p \o q)[i] = (p \o q)[j] PROVE i = j
    <3>1. CASE i \in DOMAIN p /\ (p \o q)[i] = p[i] /\ j \in DOMAIN p /\ (p \o q)[j] = p[j]
      BY <1>6, <2>1, <3>1 DEF AllDiffer
    <3>2. CASE i - Len(p) \in DOMAIN q /\ (p \o q)[i] = q[i - Len(p)]
               /\ j - Len(p) \in DOMAIN q /\ (p \o q)[j] = q[j - Len(p)]
      <4>1. i - Len(p) = j - Len(p)
        BY <1>6, <2>1, <3>2 DEF AllDiffer
      <4> QED BY <1>1, <4>1
    <3>3. CASE i \in DOMAIN p /\ (p \o q)[i] = p[i] /\ j - Len(p) \in DOMAIN q /\ (p \o q)[j] = q[j - Len(p)]
      BY <1>6, <2>1, <3>3 DEF Members
    <3>4. CASE i - Len(p) \in DOMAIN q /\ (p \o q)[i] = q[i - Len(p)] /\ j \in DOMAIN p /\ (p \o q)[j] = p[j]
      BY <1>6, <2>1, <3>4 DEF Members
    <3> QED BY <1>4, <3>1, <3>2, <3>3, <3>4
  <2> QED BY <2>1 DEF AllDiffer
<1> QED BY <1>1, <1>5, <1>6

\* The graph is as it was when neither the definition nor the resolved agents have changed.
LEMMA SameGraph ==
    ASSUME UNCHANGED <<agents, spec>>
    PROVE  /\ Vertices' = Vertices /\ (Reaches({}) => Reaches({})')
           /\ \A n : Refers(n)' = Refers(n) /\ Agent!Edges(n)' = Agent!Edges(n)
           /\ \A S : Loose(S)' = Loose(S)
<1>1. Vertices' = Vertices /\ \A n : Refers(n)' = Refers(n) /\ Agent!Edges(n)' = Agent!Edges(n)
  BY DEF Vertices, Refers, Agent!Edges, Members
<1>2. \A S : Loose(S)' = Loose(S)
  BY <1>1 DEF Loose
<1>3. Reaches({}) => Reaches({})'
  BY <1>1 DEF Reaches, Agent!Closed
<1> QED BY <1>1, <1>2, <1>3

\* What an agent of the graph refers to.
LEMMA EdgesAre ==
    ASSUME CompilerTypes, NEW n
    PROVE  /\ Agent!Edges(n) \in Seq(Names) /\ Vertices \subseteq Names
           /\ Reaches({}) => Refers(n) \subseteq Vertices
           /\ n \in DOMAIN agents => Refers(n) = Members(agents[n])
           /\ n \notin DOMAIN agents => Refers(n) = Members(spec.agents)
<1>1. spec.name \in Names /\ spec.agents \in Seq(Names)
  BY SpecsAssumption DEF CompilerTypes
<1> QED BY <1>1 DEF CompilerTypes, Agent!Edges, Refers, Reaches, Vertices

-----------------------------------------------------------------------------
LEMMA BeginKeeps ==
    ASSUME CompilerInv, NEW s \in Specs, Agent!Begin(s)
    PROVE  CompilerInv'
<1>1. /\ spec' = s /\ queue' = s.agents /\ visited' = {s.name} /\ agents' = <<>> /\ UNCHANGED registry
      /\ sorted' = 0 /\ path' = <<>>
      /\ \/ pc' = (IF s.agents = <<>> THEN "last" ELSE "resolve") /\ result' = "none"
         \/ pc' = "idle" /\ result' = "error"
  BY DEF Agent!Begin, Agent!Finish
<1>2. DOMAIN agents' = {} /\ s.name \in Names /\ s.agents \in Seq(Names)
  BY <1>1, SpecsAssumption
<1>3. CompilerTypes'
  BY <1>1, <1>2 DEF CompilerInv, CompilerTypes
<1>4. Vertices' = {s.name}
  BY <1>1, <1>2 DEF Vertices
<1>5. Reaches(Members(queue))'
  BY <1>1, <1>2 DEF Reaches
<1>6. Resolving'
  BY <1>1, <1>2, <1>4, <1>5 DEF Resolving
<1>7. ASSUME s.agents = <<>> PROVE Ready'
  <2>1. Members(s.agents) = {}
    BY <1>7 DEF Members
  <2>2. Reaches({})'
    BY <1>1, <1>2, <2>1 DEF Reaches
  <2>3. Refers(s.name)' = {}
    BY <1>1, <1>2, <2>1 DEF Refers, Agent!Edges, Members
  <2>4. Loose(Vertices)'
    BY <1>4, <2>3 DEF Loose
  <2> QED BY <2>2, <2>4 DEF Ready
<1> QED BY <1>1, <1>3, <1>6, <1>7 DEF CompilerInv

LEMMA ResolveKeeps ==
    ASSUME CompilerInv, Agent!Resolve
    PROVE  CompilerInv'
<1> DEFINE name == Head(queue)
           list == registry[name]
           fresh == Agent!Unseen(list, visited)
<1>1. CompilerTypes /\ Resolving /\ pc = "resolve" /\ result = "none"
  BY DEF CompilerInv, CompilerTypes, Agent!Resolve
<1>2. /\ queue # <<>> /\ name \notin DOMAIN agents /\ name \in DOMAIN registry
      /\ agents' = [n \in DOMAIN agents \union {name} |-> IF n \in DOMAIN agents THEN agents[n] ELSE list]
      /\ queue' = Tail(queue) \o fresh /\ visited' = visited \union Members(list)
      /\ UNCHANGED <<registry, pc, spec, sorted, path, result>>
  BY SameMembers DEF Agent!Resolve
<1>3. list \in Seq(Names) /\ name \in Names
  BY <1>1, <1>2 DEF CompilerTypes
<1>4. fresh \in Seq(Names) /\ Members(fresh) = Members(list) \ visited
  BY <1>3, UnseenIs
<1>5. Tail(queue) \in Seq(Names) /\ Members(queue) = {name} \union Members(Tail(queue))
  BY <1>1, <1>2, HeadAndTail DEF Resolving
<1> HIDE DEF name, list, fresh
<1>6. queue' \in Seq(Names) /\ Members(queue') = Members(Tail(queue)) \union Members(fresh)
  <2>1. PICK rest \in Seq(Names) : rest = Tail(queue)
    BY <1>5
  <2>2. rest \o fresh \in Seq(Names) /\ Members(rest \o fresh) = Members(rest) \union Members(fresh)
    BY <1>4, <2>1, JoinedIs
  <2> QED BY <1>2, <2>1, <2>2
<1>7. DOMAIN agents' = DOMAIN agents \union {name} /\ agents'[name] = list
      /\ \A n \in DOMAIN agents : agents'[n] = agents[n]
  BY <1>2
<1>8. CompilerTypes'
  BY <1>1, <1>2, <1>3, <1>7 DEF CompilerTypes
<1>9. Vertices' = Vertices \union {name}
  BY <1>2, <1>7 DEF Vertices
<1>10. spec.name \in visited /\ visited \subseteq Vertices \union Members(queue) /\ Reaches(Members(queue))
  BY <1>1 DEF Resolving
<1>11. visited' \subseteq Vertices' \union Members(queue')
  BY <1>2, <1>4, <1>5, <1>6, <1>9, <1>10
<1>12. Reaches(Members(queue))'
  <2>1. Members(spec.agents) \subseteq DOMAIN agents' \union Members(queue')
    BY <1>5, <1>6, <1>7, <1>10 DEF Reaches
  <2>2. ASSUME NEW n \in DOMAIN agents' PROVE Members(agents'[n]) \subseteq Vertices' \union Members(queue')
    <3>1. CASE n = name
      BY <1>4, <1>5, <1>6, <1>7, <1>9, <1>10, <3>1
    <3>2. CASE n \in DOMAIN agents
      BY <1>5, <1>6, <1>7, <1>9, <1>10, <3>2 DEF Reaches
    <3> QED BY <1>7, <3>1, <3>2
  <2>3. ASSUME NEW S \in SUBSET Names, Members(spec.agents) \subseteq S, Agent!Closed(S)'
        PROVE  DOMAIN agents' \union Members(queue') \subseteq S
    <3>1. \A n \in S \intersect DOMAIN agents' : Members(agents'[n]) \subseteq S
      BY <2>3, SameMembers DEF Agent!Closed
    <3>2. Agent!Closed(S)
      BY <1>7, <3>1, SameMembers DEF Agent!Closed
    <3>3. DOMAIN agents \union Members(queue) \subseteq S
      BY <1>10, <2>3, <3>2 DEF Reaches
    <3>4. Members(list) \subseteq S
      BY <1>5, <1>7, <3>1, <3>3
    <3> QED BY <1>4, <1>5, <1>6, <1>7, <3>3, <3>4
  <2>4. ASSUME NEW x \in DOMAIN agents' \union Members(queue')
        PROVE  x \in Members(spec.agents) \/ \E m \in DOMAIN agents' : x \in Members(agents'[m])
    <3>1. CASE x \in DOMAIN agents \union Members(queue)
      BY <1>7, <1>10, <3>1 DEF Reaches
    <3>2. CASE x \in Members(list)
      BY <1>7, <3>2
    <3> QED BY <1>4, <1>5, <1>6, <1>7, <3>1, <3>2
  <2>5. spec.name \in DOMAIN agents' \union Members(queue') => spec.name \in Members(spec.agents)
    BY <1>4, <1>5, <1>6, <1>7, <1>10 DEF Reaches
  <2>6. spec' = spec
    BY <1>2
  <2> QED BY <2>1, <2>2, <2>3, <2>4, <2>5, <2>6 DEF Reaches
<1> QED BY <1>1, <1>2, <1>6, <1>8, <1>10, <1>11, <1>12 DEF CompilerInv, Resolving

LEMMA SkipResolvedKeeps ==
    ASSUME CompilerInv, Agent!SkipResolved
    PROVE  CompilerInv'
<1>1. CompilerTypes /\ Resolving /\ pc = "resolve" /\ result = "none"
  BY DEF CompilerInv, CompilerTypes, Agent!SkipResolved
<1>2. /\ queue # <<>> /\ Head(queue) \in DOMAIN agents /\ queue' = Tail(queue)
      /\ UNCHANGED <<registry, pc, spec, visited, agents, sorted, path, result>>
  BY DEF Agent!SkipResolved
<1>3. Tail(queue) \in Seq(Names) /\ Members(queue) = {Head(queue)} \union Members(Tail(queue))
  BY <1>1, <1>2, HeadAndTail DEF Resolving
<1>4. /\ DOMAIN agents \union Members(queue') = DOMAIN agents \union Members(queue)
      /\ Vertices \union Members(queue') = Vertices \union Members(queue)
      /\ Vertices' = Vertices
  BY <1>2, <1>3 DEF Vertices
<1>5. Reaches(Members(queue))'
  <2>1. \A S : Agent!Closed(S)' = Agent!Closed(S)
    BY <1>2 DEF Agent!Closed
  <2> QED BY <1>1, <1>2, <1>4, <2>1 DEF Reaches, Resolving
<1>6. CompilerTypes' /\ Resolving'
  BY <1>1, <1>2, <1>3, <1>4, <1>5 DEF CompilerTypes, Resolving
<1> QED BY <1>1, <1>2, <1>6 DEF CompilerInv

LEMMA ResolveFailsKeeps ==
    ASSUME CompilerInv, Agent!ResolveFails
    PROVE  CompilerInv'
  BY DEF CompilerInv, CompilerTypes, Agent!ResolveFails, Agent!Finish, Agent!search

-----------------------------------------------------------------------------
\* The edges into a name from one place: as many as its list has entries with that name.
LEMMA RowIs ==
    ASSUME CompilerTypes, NEW q, NEW i, NEW x
    PROVE  /\ IsFiniteSet(Row(q, i, x)) /\ Cardinality(Row(q, i, x)) \in Nat
           /\ Agent!Times(x, Agent!Edges(q[i])) = Cardinality(Row(q, i, x))
           /\ Cardinality(Row(q, i, x)) = 0 <=> x \notin Refers(q[i])
           /\ IsFiniteSet({<<i, k>> : k \in Row(q, i, x)})
           /\ Cardinality({<<i, k>> : k \in Row(q, i, x)}) = Cardinality(Row(q, i, x))
<1> DEFINE pairs == {<<i, k>> : k \in Row(q, i, x)}
<1>1. PICK n \in Nat : DOMAIN Agent!Edges(q[i]) = 1 .. n
  <2>1. Agent!Edges(q[i]) \in Seq(Names)
    BY EdgesAre
  <2> QED BY <2>1
<1>2. IsFiniteSet(Row(q, i, x)) /\ Cardinality(Row(q, i, x)) \in Nat
  BY <1>1, PlacesCount DEF Row
<1>3. Cardinality(Row(q, i, x)) = 0 <=> x \notin Refers(q[i])
  BY <1>2, FS_EmptySet DEF Row, Refers, Members
<1>4. Agent!Times(x, Agent!Edges(q[i])) = Cardinality(Row(q, i, x))
  BY SameCardinality DEF Agent!Times, Row
<1>5. ExistsBijection(Row(q, i, x), pairs)
  <2>1. [k \in Row(q, i, x) |-> <<i, k>>] \in Bijection(Row(q, i, x), pairs)
    BY DEF Bijection, Injection, Surjection, IsInjective
  <2> QED BY <2>1 DEF ExistsBijection
<1>6. IsFiniteSet(pairs) /\ Cardinality(pairs) = Cardinality(Row(q, i, x))
  BY <1>2, <1>5, FS_Bijection
<1> QED BY <1>2, <1>3, <1>4, <1>6

LEMMA IntoIsFinite ==
    ASSUME CompilerTypes, NEW q \in Seq(Names), NEW x, NEW I \in SUBSET DOMAIN q
    PROVE  IsFiniteSet(I) /\ IsFiniteSet(Into(q, x, I)) /\ Cardinality(Into(q, x, I)) \in Nat
<1> DEFINE rows == {{<<i, k>> : k \in Row(q, i, x)} : i \in I}
           f == [i \in I |-> {<<i, k>> : k \in Row(q, i, x)}]
<1>1. IsFiniteSet(I)
  <2>1. PICK n \in Nat : DOMAIN q = 1 .. n
    OBVIOUS
  <2> QED BY <2>1, PlacesCount
<1>2. f \in Surjection(I, rows)
  BY DEF Surjection
<1>3. IsFiniteSet(rows)
  BY <1>1, <1>2, FS_Surjection
<1>4. \A T \in rows : IsFiniteSet(T)
  BY RowIs
<1>5. IsFiniteSet(UNION rows)
  BY <1>3, <1>4, FS_UNION
<1> QED BY <1>1, <1>5, FS_CardinalityType DEF Into

LEMMA IntoWithout ==
    ASSUME CompilerTypes, NEW q \in Seq(Names), NEW x, NEW I \in SUBSET DOMAIN q, NEW i \in I
    PROVE  Cardinality(Into(q, x, I \ {i})) = Cardinality(Into(q, x, I)) - Cardinality(Row(q, i, x))
<1> DEFINE rest == Into(q, x, I \ {i})
           pairs == {<<i, k>> : k \in Row(q, i, x)}
<1>1. IsFiniteSet(rest) /\ Cardinality(rest) \in Nat
  <2>1. I \ {i} \in SUBSET DOMAIN q
    OBVIOUS
  <2> QED BY <2>1, IntoIsFinite
<1>2. IsFiniteSet(pairs) /\ Cardinality(pairs) = Cardinality(Row(q, i, x)) /\ Cardinality(pairs) \in Nat
  BY RowIs
<1>3. Into(q, x, I) = rest \union pairs
  BY DEF Into
<1>4. rest \intersect pairs = {}
  BY DEF Into
<1> HIDE DEF rest, pairs
<1>5. Cardinality(rest \union pairs) = Cardinality(rest) + Cardinality(pairs) - Cardinality({})
  BY <1>1, <1>2, <1>4, FS_Union
<1>6. Cardinality({}) = 0
  BY FS_EmptySet
<1>7. Cardinality(Into(q, x, I)) = Cardinality(rest) + Cardinality(pairs)
  BY <1>1, <1>2, <1>3, <1>5, <1>6
<1>8. Cardinality(rest) = Cardinality(Into(q, x, I)) - Cardinality(Row(q, i, x))
  BY <1>1, <1>2, <1>7
<1> QED BY <1>8 DEF rest

\* The nodes: the definition, then the resolved agents in some order.
LEMMA OrderIs ==
    ASSUME CompilerTypes, NEW order \in Agent!Orders(DOMAIN agents)
    PROVE  /\ <<spec.name>> \o order \in Seq(Names)
           /\ Members(<<spec.name>> \o order) = Vertices
           /\ spec.name \notin DOMAIN agents => AllDiffer(<<spec.name>> \o order)
<1> DEFINE N == Cardinality(DOMAIN agents)
<1>1. IsFiniteSet(DOMAIN agents) /\ N \in Nat
  BY SpecsAssumption, FS_Subset, FS_CardinalityType DEF CompilerTypes
<1>2. order \in [1 .. N -> DOMAIN agents] /\ \A i, j \in DOMAIN order : order[i] = order[j] => i = j
  BY SameCardinality DEF Agent!Orders
<1>3. order \in Injection(1 .. N, DOMAIN agents)
  BY <1>2 DEF Injection, IsInjective
<1>4. Cardinality(1 .. N) = N
  BY <1>1, FS_Interval
<1>5. order \in Surjection(1 .. N, DOMAIN agents)
  BY <1>1, <1>3, <1>4, FS_Injection
<1>6. order \in Seq(DOMAIN agents) /\ order \in Seq(Names)
  BY <1>1, <1>2 DEF CompilerTypes
<1>7. Members(order) = DOMAIN agents /\ AllDiffer(order)
  <2>1. \A x \in DOMAIN agents : \E k \in 1 .. N : order[k] = x
    BY <1>5 DEF Surjection
  <2>2. DOMAIN order = 1 .. N /\ \A k \in 1 .. N : order[k] \in DOMAIN agents
    BY <1>2
  <2>3. Members(order) \subseteq DOMAIN agents
    BY <2>2 DEF Members
  <2>4. DOMAIN agents \subseteq Members(order)
    BY <2>1, <2>2 DEF Members
  <2>5. AllDiffer(order)
    BY <1>2 DEF AllDiffer
  <2> QED BY <2>3, <2>4, <2>5
<1>8. <<spec.name>> \in Seq(Names) /\ Members(<<spec.name>>) = {spec.name} /\ AllDiffer(<<spec.name>>)
  BY SpecsAssumption DEF CompilerTypes, Members, AllDiffer
<1>9. PICK one \in Seq(Names) : one = <<spec.name>>
  BY <1>8
<1>10. /\ one \o order \in Seq(Names)
       /\ Members(one \o order) = Members(one) \union Members(order)
       /\ AllDiffer(one) /\ AllDiffer(order) /\ Members(one) \intersect Members(order) = {} => AllDiffer(one \o order)
  BY <1>6, JoinedIs
<1> QED BY <1>7, <1>8, <1>9, <1>10 DEF Vertices

LEMMA StartSortKeeps ==
    ASSUME CompilerInv, Agent!StartSort
    PROVE  CompilerInv'
<1>1. CompilerTypes /\ Resolving /\ pc = "resolve" /\ result = "none" /\ path = <<>>
  BY DEF CompilerInv, CompilerTypes, Agent!StartSort
<1>2. PICK order \in Agent!Orders(DOMAIN agents) :
        LET all == <<spec.name>> \o order
            into(x) == UNION {{<<i, j>> : j \in {k \in DOMAIN Agent!Edges(all[i]) : Agent!Edges(all[i])[k] = x}} :
                                i \in DOMAIN all}
        IN  /\ nodes' = all
            /\ degree' = [x \in Agent!Members(all) |-> Agent!Cardinality(into(x))]
            /\ queue' = Agent!Picked(all, {i \in DOMAIN all : into(all[i]) = {}})
  BY DEF Agent!StartSort
<1>3. /\ queue = <<>> /\ visited' = {} /\ pc' = "sort"
      /\ UNCHANGED <<registry, spec, agents, sorted, path, result>>
  BY DEF Agent!StartSort
<1>4. PICK all : all = <<spec.name>> \o order
  OBVIOUS
<1> DEFINE P == {i \in DOMAIN all : Into(all, all[i], DOMAIN all) = {}}
<1>5. all \in Seq(Names) /\ Members(all) = Vertices /\ (spec.name \notin DOMAIN agents => AllDiffer(all))
  BY <1>1, <1>4, OrderIs
<1>6. Vertices' = Vertices /\ \A n : Refers(n)' = Refers(n)
  BY <1>3, SameGraph
<1>7. ASSUME NEW x
      PROVE  Into(all, x, DOMAIN all)
               = UNION {{<<i, j>> : j \in {k \in DOMAIN Agent!Edges(all[i]) : Agent!Edges(all[i])[k] = x}} :
                           i \in DOMAIN all}
  BY DEF Into, Row
<1>8. /\ nodes' = all
      /\ degree' = [x \in Members(all) |-> Cardinality(Into(all, x, DOMAIN all))]
      /\ queue' = Agent!Picked(all, P)
  <2>1. nodes' = all /\ degree' = [x \in Members(all) |-> Cardinality(Into(all, x, DOMAIN all))]
    <3>1. /\ nodes' = all
          /\ degree' = [x \in Agent!Members(all) |-> Agent!Cardinality(
                UNION {{<<i, j>> : j \in {k \in DOMAIN Agent!Edges(all[i]) : Agent!Edges(all[i])[k] = x}} :
                            i \in DOMAIN all})]
      BY <1>2, <1>4
    <3>2. Agent!Members(all) = Members(all)
      BY SameMembers
    <3> QED BY <3>1, <3>2, <1>7, SameCardinality
  <2>2. queue' = Agent!Picked(all,
                    {m \in DOMAIN all : UNION {{<<i, j>> : j \in {k \in DOMAIN Agent!Edges(all[i]) :
                            Agent!Edges(all[i])[k] = all[m]}} : i \in DOMAIN all} = {}})
    BY <1>2, <1>4
  <2> QED BY <2>1, <2>2 DEF Into, Row
<1>9. \A x : IsFiniteSet(Into(all, x, DOMAIN all)) /\ Cardinality(Into(all, x, DOMAIN all)) \in Nat
  BY <1>1, <1>5, IntoIsFinite
<1>10. CompilerTypes'
  BY <1>1, <1>3 DEF CompilerTypes
<1>11. \A x, I : Into(all, x, I)' = Into(all, x, I)
  BY <1>3 DEF Into, Row, Agent!Edges
<1>12. Reaches({})'
  <2>1. Members(queue) = {}
    BY <1>3 DEF Members
  <2> QED BY <1>1, <1>3, <2>1, SameGraph DEF Resolving
<1>13. ASSUME spec.name \notin DOMAIN agents PROVE Sorting'
  <2>1. all \in Seq(Vertices) /\ AllDiffer(all) /\ P \in SUBSET DOMAIN all
    BY <1>5, <1>13 DEF Members
  <2>2. queue' \in Seq(Vertices) /\ Members(queue') = {all[i] : i \in P} /\ AllDiffer(queue')
    <3>1. \A i, j \in P : all[i] = all[j] => i = j
      BY <2>1 DEF AllDiffer
    <3> HIDE DEF P
    <3> QED BY <1>8, <2>1, <3>1, PickedIs
  <2>3. \A x \in Vertices : /\ degree'[x] = Cardinality(Into(all, x, DOMAIN all))
                            /\ degree'[x] = 0 <=> Into(all, x, DOMAIN all) = {}
    BY <1>5, <1>8, <1>9, FS_EmptySet
  <2>4. \A x \in Vertices : x \in Members(queue') <=> degree'[x] = 0
    <3>1. ASSUME NEW x \in Vertices, degree'[x] = 0 PROVE x \in {all[i] : i \in P}
      <4>1. PICK i \in DOMAIN all : all[i] = x
        BY <1>5 DEF Members
      <4> QED BY <2>3, <3>1, <4>1
    <3>2. ASSUME NEW i \in P PROVE degree'[all[i]] = 0
      BY <1>5, <2>1, <2>3
    <3> QED BY <2>2, <3>1, <3>2
  <2>5. Taken' = {}
    BY <1>6, <2>4 DEF Taken
  <2>6. Open' = DOMAIN all
    BY <1>8, <2>5 DEF Open
  <2>7. \A x \in Vertices : degree'[x] = Cardinality(Into(nodes, x, Open))'
    BY <1>8, <1>11, <2>3, <2>6
  <2>8. degree' \in [Vertices -> Int]
    BY <1>5, <1>8, <1>9
  <2>9. \A x \in Members(queue') : degree'[x] = 0
    BY <2>1, <2>2, <2>4
  <2>10. sorted' = Cardinality(Taken')
    BY <1>1, <1>3, <2>5, FS_EmptySet DEF Resolving
  <2>11. \A R \in SUBSET Vertices : R \intersect Taken' # {} => \E n \in R : \A m \in R : n \notin Refers(m)
    BY <2>5
  <2> HIDE DEF P
  <2> QED BY <1>6, <1>8, <2>1, <2>2, <2>5, <2>7, <2>8, <2>9, <2>10, <2>11 DEF Sorting
<1>14. NodesAre'
  BY <1>5, <1>6, <1>8 DEF NodesAre
<1> HIDE DEF P
<1> QED BY <1>1, <1>3, <1>10, <1>12, <1>13, <1>14 DEF CompilerInv

-----------------------------------------------------------------------------
LEMMA IntoNone ==
    ASSUME CompilerTypes, NEW q \in Seq(Names), NEW x, NEW I \in SUBSET DOMAIN q,
           Cardinality(Into(q, x, I)) = 0, NEW i \in I
    PROVE  x \notin Refers(q[i])
<1>1. Into(q, x, I) = {}
  BY IntoIsFinite, FS_EmptySet
<1>2. ASSUME NEW k \in Row(q, i, x) PROVE FALSE
  <2> DEFINE pairs(l) == {<<l, j>> : j \in Row(q, l, x)}
  <2>1. <<i, k>> \in pairs(i)
    OBVIOUS
  <2>2. Into(q, x, I) = UNION {pairs(l) : l \in I}
    BY DEF Into
  <2> HIDE DEF pairs
  <2> QED BY <1>1, <2>1, <2>2
<1> QED BY <1>2 DEF Row, Refers, Members

LEMMA SortStepKeeps ==
    ASSUME CompilerInv, Agent!SortStep
    PROVE  CompilerInv'
<1> DEFINE h == Head(queue)
           T(x) == Agent!Times(x, Agent!Edges(h))
           left == [x \in DOMAIN degree |-> degree[x] - T(x)]
           freed == Agent!Unseen(Agent!Edges(h), {x \in DOMAIN degree : left[x] # 0})
<1>1. CompilerTypes /\ pc = "sort" /\ result = "none" /\ path = <<>> /\ visited = {} /\ Reaches({}) /\ NodesAre
  BY DEF CompilerInv, CompilerTypes, Agent!SortStep
<1>2. /\ queue # <<>> /\ degree' = left /\ queue' = Tail(queue) \o freed /\ sorted' = sorted + 1
      /\ UNCHANGED <<registry, pc, spec, visited, agents, nodes, path, result>>
  BY DEF Agent!SortStep
<1>3. Vertices' = Vertices /\ \A n : Refers(n)' = Refers(n)
  BY <1>2, SameGraph
<1>4. CompilerTypes' /\ Reaches({})' /\ NodesAre'
  BY <1>1, <1>2, <1>3, SameGraph DEF CompilerTypes, NodesAre
<1>5. ASSUME spec.name \notin DOMAIN agents PROVE Sorting'
  <2>1. Sorting
    BY <1>1, <1>5 DEF CompilerInv
  <2>2. /\ AllDiffer(nodes) /\ queue \in Seq(Vertices) /\ AllDiffer(queue)
        /\ DOMAIN degree = Vertices /\ \A x \in Vertices : degree[x] \in Int
        /\ \A x \in Members(queue) : degree[x] = 0
        /\ \A x \in Vertices : degree[x] = Cardinality(Into(nodes, x, Open))
    BY <2>1 DEF Sorting
  <2>3. /\ h \in Vertices /\ Tail(queue) \in Seq(Vertices) /\ AllDiffer(Tail(queue))
        /\ Members(queue) = {h} \union Members(Tail(queue)) /\ h \notin Members(Tail(queue))
    BY <1>2, <2>2, HeadAndTail
  <2>4. PICK i0 \in DOMAIN nodes : nodes[i0] = h
    BY <1>1, <2>3 DEF NodesAre, Members
  <2>5. /\ nodes \in Seq(Names) /\ Members(nodes) = Vertices
        /\ Refers(h) \subseteq Vertices /\ Agent!Edges(h) \in Seq(Vertices)
    <3>1. Agent!Edges(h) \in Seq(Names) /\ Refers(h) \subseteq Vertices
      BY <1>1, EdgesAre
    <3>2. Agent!Edges(h) \in Seq(Vertices)
      BY <3>1 DEF Refers, Members
    <3> QED BY <1>1, <3>1, <3>2 DEF NodesAre
  <2>6. i0 \in Open /\ Open \in SUBSET DOMAIN nodes /\ h \notin Taken
    BY <2>3, <2>4 DEF Open, Taken
  <2>7. ASSUME NEW x \in Vertices
        PROVE  /\ T(x) \in Nat /\ (T(x) = 0 <=> x \notin Refers(h))
               /\ left[x] \in Nat /\ left[x] = degree[x] - T(x)
               /\ left[x] = Cardinality(Into(nodes, x, Open \ {i0}))
    <3>1. T(x) = Cardinality(Row(nodes, i0, x)) /\ T(x) \in Nat /\ (T(x) = 0 <=> x \notin Refers(h))
      BY <1>1, <2>4, RowIs
    <3>2. left[x] = degree[x] - T(x)
      BY <2>2
    <3>3. Cardinality(Into(nodes, x, Open \ {i0})) = Cardinality(Into(nodes, x, Open)) - Cardinality(Row(nodes, i0, x))
      BY <1>1, <2>5, <2>6, IntoWithout
    <3>4. Cardinality(Into(nodes, x, Open \ {i0})) \in Nat
      <4>1. Open \ {i0} \in SUBSET DOMAIN nodes
        BY <2>6
      <4> QED BY <1>1, <2>5, <4>1, IntoIsFinite
    <3> HIDE DEF T, left
    <3> QED BY <2>2, <3>1, <3>2, <3>3, <3>4
  <2>8. degree' = left /\ DOMAIN left = Vertices
    BY <1>2, <2>2
  <2> DEFINE blocked == {x \in DOMAIN degree : left[x] # 0}
  <2>9. freed \in Seq(Vertices) /\ Members(freed) = Refers(h) \ blocked /\ AllDiffer(freed)
    <3> HIDE DEF blocked
    <3> QED BY <2>5, UnseenIs DEF Refers, blocked
  <2> HIDE DEF h, T, left, freed
  <2>10. h \notin Refers(h) /\ left[h] = 0 /\ degree[h] = 0
    BY <2>2, <2>3, <2>7
  <2>11. ASSUME NEW x \in Members(freed)
         PROVE  x \in Vertices /\ x \in Refers(h) /\ left[x] = 0 /\ degree[x] # 0 /\ x \notin Members(queue)
    <3>1. x \in Refers(h) /\ x \in Vertices /\ left[x] = 0
      BY <2>2, <2>5, <2>9
    <3> HIDE DEF blocked
    <3> QED BY <2>2, <2>7, <3>1
  <2>12. ASSUME NEW x \in Vertices, x \in Refers(h), left[x] = 0 PROVE x \in Members(freed)
    BY <2>9, <2>12
  <2> HIDE DEF blocked
  <2>13. ASSUME NEW x \in Vertices, degree[x] = 0 PROVE left[x] = 0 /\ x \notin Refers(h)
    BY <2>2, <2>7, <2>13
  <2>14. /\ queue' \in Seq(Vertices) /\ AllDiffer(queue')
         /\ Members(queue') = Members(Tail(queue)) \union Members(freed)
    <3>1. PICK rest \in Seq(Vertices) : rest = Tail(queue)
      BY <2>3
    <3>2. Members(rest) \intersect Members(freed) = {}
      BY <2>3, <2>11, <3>1
    <3>3. PICK more \in Seq(Vertices) : more = freed
      BY <2>9
    <3>4. AllDiffer(rest) /\ AllDiffer(more) /\ Members(rest) \intersect Members(more) = {}
      BY <2>3, <2>9, <3>1, <3>2, <3>3
    <3>5. /\ rest \o more \in Seq(Vertices) /\ AllDiffer(rest \o more)
          /\ Members(rest \o more) = Members(rest) \union Members(more)
      BY <3>4, JoinedIs
    <3> QED BY <1>2, <3>1, <3>3, <3>5
  <2>15. \A x \in Members(queue') : degree'[x] = 0
    <3>1. \A x \in Members(Tail(queue)) : x \in Vertices /\ degree[x] = 0
      BY <2>2, <2>3 DEF Members
    <3> QED BY <2>8, <2>11, <2>13, <2>14, <3>1
  <2>16. Taken' = {x \in Vertices : left[x] = 0} \ Members(queue')
    BY <1>3, <2>8 DEF Taken
  <2>17. Taken' = Taken \union {h}
    <3>1. ASSUME NEW x \in Taken PROVE x \in Taken'
      BY <2>3, <2>11, <2>13, <2>14, <2>16, <3>1 DEF Taken
    <3>2. h \in Taken'
      BY <2>3, <2>10, <2>11, <2>14, <2>16
    <3>3. ASSUME NEW x \in Taken', x # h PROVE x \in Taken
      <4>1. x \in Vertices /\ left[x] = 0 /\ x \notin Members(queue')
        BY <2>16, <3>3
      <4>2. x \notin Refers(h) /\ x \notin Members(queue)
        BY <2>3, <2>12, <2>14, <3>3, <4>1
      <4>3. degree[x] = 0
        BY <2>2, <2>7, <4>1, <4>2
      <4> QED BY <4>1, <4>2, <4>3 DEF Taken
    <3> QED BY <3>1, <3>2, <3>3
  <2>18. Open' = Open \ {i0}
    <3>1. \A i \in DOMAIN nodes : nodes[i] = h <=> i = i0
      BY <2>2, <2>4 DEF AllDiffer
    <3>2. Open' = {i \in DOMAIN nodes : nodes[i] \notin Taken \union {h}}
      BY <1>2, <2>17 DEF Open
    <3> QED BY <3>1, <3>2 DEF Open
  <2>19. \A x, I : Into(nodes, x, I)' = Into(nodes, x, I)
    BY <1>2 DEF Into, Row, Agent!Edges
  <2>20. \A x \in Vertices : degree'[x] = Cardinality(Into(nodes, x, Open))'
    BY <2>7, <2>8, <2>18, <2>19
  <2>21. degree' \in [Vertices -> Int]
    <3>1. \A x \in Vertices : left[x] \in Int
      BY <2>7
    <3> QED BY <2>8, <3>1 DEF left
  <2>22. sorted' = Cardinality(Taken')
    <3>1. IsFiniteSet(Taken)
      <4>1. Taken \subseteq Names
        BY <1>1, EdgesAre DEF Taken
      <4> QED BY <4>1, SpecsAssumption, FS_Subset
    <3>2. Cardinality(Taken \union {h}) = Cardinality(Taken) + 1
      BY <2>6, <3>1, FS_AddElement
    <3>3. sorted = Cardinality(Taken)
      BY <2>1 DEF Sorting
    <3> QED BY <1>2, <2>17, <3>2, <3>3
  <2>23. ASSUME NEW R \in SUBSET Vertices, R \intersect Taken' # {}
         PROVE  \E n \in R : \A m \in R : n \notin Refers(m)
    <3>1. CASE R \intersect Taken # {}
      BY <2>1, <3>1 DEF Sorting
    <3>2. CASE R \intersect Taken = {}
      <4>1. h \in R
        BY <2>17, <2>23, <3>2
      <4>2. ASSUME NEW m \in R PROVE h \notin Refers(m)
        <5>1. PICK i \in DOMAIN nodes : nodes[i] = m
          BY <2>5 DEF Members
        <5>2. i \in Open
          BY <3>2, <5>1 DEF Open
        <5>3. Cardinality(Into(nodes, h, Open)) = 0
          BY <2>2, <2>3, <2>10
        <5> QED BY <1>1, <2>5, <2>6, <5>1, <5>2, <5>3, IntoNone
      <4> QED BY <4>1, <4>2
    <3> QED BY <3>1, <3>2
  <2>24. AllDiffer(nodes)'
    BY <1>2, <2>2
  <2> QED BY <1>3, <2>14, <2>15, <2>20, <2>21, <2>22, <2>23, <2>24 DEF Sorting
<1> QED BY <1>1, <1>2, <1>4, <1>5 DEF CompilerInv

-----------------------------------------------------------------------------
LEMMA EndSortKeeps ==
    ASSUME CompilerInv, Agent!EndSort
    PROVE  CompilerInv'
<1>1. CompilerTypes /\ pc = "sort" /\ result = "none" /\ path = <<>> /\ visited = {} /\ Reaches({}) /\ NodesAre
  BY DEF CompilerInv, CompilerTypes, Agent!EndSort
<1>2. /\ queue = <<>>
      /\ UNCHANGED <<registry, spec, queue, visited, agents, nodes, degree, sorted, path, result>>
      /\ pc' = IF sorted < Len(nodes) THEN "search" ELSE "last"
  BY DEF Agent!EndSort, Agent!search
<1>3. Vertices' = Vertices /\ (\A n : Refers(n)' = Refers(n)) /\ \A S : Loose(S)' = Loose(S)
  BY <1>2, SameGraph
<1>4. CompilerTypes' /\ Reaches({})' /\ NodesAre'
  BY <1>1, <1>2, <1>3, SameGraph DEF CompilerTypes, NodesAre
<1>5. Searching'
  <2>1. visited' = {} /\ path' = <<>> /\ DOMAIN path' = {}
    BY <1>1, <1>2
  <2>2. Agent!Inside' = {}
    BY <2>1 DEF Agent!Inside
  <2>3. Searched' = {}
    BY <2>1 DEF Searched
  <2>4. path' \in Seq([node : Vertices', at : Nat \ {0}])
    BY <2>1
  <2>5. Len(path') = 0
    BY <2>1
  <2>6. Loose({})
    BY DEF Loose
  <2> QED BY <1>3, <2>1, <2>2, <2>3, <2>4, <2>5, <2>6 DEF Searching
<1>6. ASSUME ~(sorted < Len(nodes)), spec.name \notin DOMAIN agents PROVE Loose(Vertices)
  <2>1. Sorting
    BY <1>1, <1>6 DEF CompilerInv
  <2>2. IsFiniteSet(Vertices) /\ Cardinality(Vertices) = Len(nodes) /\ Len(nodes) \in Nat
    <3>1. nodes \in Seq(Vertices) /\ DOMAIN nodes = 1 .. Len(nodes) /\ Len(nodes) \in Nat
      BY <1>1 DEF NodesAre, Members
    <3>2. nodes \in Bijection(1 .. Len(nodes), Vertices)
      <4>1. nodes \in [1 .. Len(nodes) -> Vertices]
        BY <3>1
      <4>2. \A x \in Vertices : \E i \in 1 .. Len(nodes) : nodes[i] = x
        BY <1>1, <3>1 DEF NodesAre, Members
      <4>3. \A i, j \in 1 .. Len(nodes) : nodes[i] = nodes[j] => i = j
        BY <2>1, <3>1 DEF Sorting, AllDiffer
      <4> QED BY <4>1, <4>2, <4>3 DEF Bijection, Injection, Surjection, IsInjective
    <3>3. IsFiniteSet(1 .. Len(nodes)) /\ Cardinality(1 .. Len(nodes)) = Len(nodes)
      BY <3>1, FS_Interval
    <3> QED BY <3>1, <3>2, <3>3, FS_Bijection DEF ExistsBijection
  <2>3. Taken = Vertices
    <3>1. Taken \subseteq Vertices /\ sorted = Cardinality(Taken)
      BY <2>1 DEF Sorting, Taken
    <3>2. Cardinality(Taken) \in Nat /\ Cardinality(Taken) <= Cardinality(Vertices)
      BY <2>2, <3>1, FS_Subset, FS_CardinalityType
    <3>3. Cardinality(Taken) = Cardinality(Vertices)
      BY <1>6, <2>2, <3>1, <3>2
    <3> QED BY <2>2, <3>1, <3>3, FS_Subset
  <2> QED BY <2>1, <2>3 DEF Sorting, Loose
<1>7. ~(sorted < Len(nodes)) => Ready'
  BY <1>2, <1>3, <1>4, <1>6 DEF Ready
<1> QED BY <1>1, <1>2, <1>4, <1>5, <1>7 DEF CompilerInv

LEMMA SearchRootKeeps ==
    ASSUME CompilerInv, Agent!SearchRoot
    PROVE  CompilerInv'
<1>1. CompilerTypes /\ pc = "search" /\ result = "none" /\ path = <<>> /\ Searching /\ Reaches({}) /\ NodesAre
  BY DEF CompilerInv, CompilerTypes, Agent!SearchRoot
<1>2. UNCHANGED <<registry, spec, agents, nodes, result>>
  BY DEF Agent!SearchRoot
<1>3. Vertices' = Vertices /\ (\A n : Refers(n)' = Refers(n)) /\ \A S : Loose(S)' = Loose(S)
  BY <1>2, SameGraph
<1>4. Reaches({})' /\ NodesAre'
  BY <1>1, <1>2, <1>3, SameGraph DEF NodesAre
<1>5. DOMAIN path = {} /\ Agent!Inside = {} /\ Searched = visited
  <2>1. DOMAIN path = {}
    BY <1>1
  <2> QED BY <2>1 DEF Agent!Inside, Searched
<1>6. CASE \A i \in DOMAIN nodes : nodes[i] \in visited
  <2>1. pc' = "last"
    BY <1>6 DEF Agent!SearchRoot
  <2>2. Searched = Vertices
    <3>1. Vertices \subseteq visited
      BY <1>1, <1>6 DEF NodesAre, Members
    <3>2. visited \subseteq Vertices
      BY <1>1 DEF Searching
    <3> QED BY <1>5, <3>1, <3>2
  <2>3. Ready'
    BY <1>1, <1>2, <1>3, <1>4, <2>2 DEF Ready, Searching
  <2>4. CompilerTypes'
    BY <1>1, <1>2, <2>1 DEF CompilerTypes
  <2> QED BY <1>1, <1>2, <2>1, <2>3, <2>4 DEF CompilerInv
<1>7. CASE \E i \in DOMAIN nodes : nodes[i] \notin visited
  <2>1. PICK i \in DOMAIN nodes : nodes[i] \notin visited /\ Agent!Push(nodes[i]) /\ pc' = pc
    BY <1>7 DEF Agent!SearchRoot
  <2>2. PICK n \in Vertices : n = nodes[i]
    BY <1>1 DEF NodesAre, Members
  <2>3. PICK p : p = [node |-> n, at |-> 1]
    OBVIOUS
  <2>4. /\ path' = <<p>> /\ visited' = visited \union {n} /\ n \notin visited
        /\ p \in [node : Vertices, at : Nat \ {0}] /\ p.node = n /\ p.at = 1
    BY <1>1, <2>1, <2>2, <2>3 DEF Agent!Push
  <2>5. /\ path' \in Seq([node : Vertices, at : Nat \ {0}])
        /\ DOMAIN path' = {1} /\ path'[1] = p /\ Len(path') = 1
    BY <2>4
  <2>6. Agent!Inside' = {n}
    BY <2>4, <2>5 DEF Agent!Inside
  <2>7. Searched' = Searched
    BY <1>5, <2>4, <2>6 DEF Searched
  <2>8. CompilerTypes'
    BY <1>1, <1>2, <2>1 DEF CompilerTypes
  <2>9. /\ visited' \subseteq Vertices /\ Agent!Inside' \subseteq visited'
        /\ \A m \in Searched : Refers(m) \subseteq Searched
        /\ Loose(Searched)
    BY <1>1, <2>4, <2>6 DEF Searching
  <2>10. \A m \in DOMAIN path' : 1 .. (path'[m].at - 1) = {}
    BY <2>4, <2>5
  <2>11. Searching'
    BY <1>3, <2>5, <2>7, <2>9, <2>10 DEF Searching
  <2> QED BY <1>1, <1>2, <1>4, <2>1, <2>8, <2>11 DEF CompilerInv
<1> QED BY <1>6, <1>7

LEMMA CompleteKeeps ==
    ASSUME CompilerInv, Agent!Complete
    PROVE  CompilerInv'
<1>1. CompilerTypes /\ pc = "last" /\ Ready
  BY DEF CompilerInv, Agent!Complete
<1>2. UNCHANGED <<spec, agents>> /\ pc' = "idle" /\ result' \in {"compiled", "error"}
  BY DEF Agent!Complete, Agent!Finish, Agent!search
<1>3. Ready'
  BY <1>1, <1>2, SameGraph DEF Ready
<1>4. DOMAIN registry' \subseteq Names /\ \A n \in DOMAIN registry' : registry'[n] \in Seq(Names)
  <2>1. spec.name \in Names /\ spec.agents \in Seq(Names)
    BY <1>1, SpecsAssumption DEF CompilerTypes
  <2>2. CASE registry' = registry
    BY <1>1, <2>2 DEF CompilerTypes
  <2>3. CASE registry' = [n \in DOMAIN registry \union {spec.name} |-> IF n = spec.name THEN spec.agents ELSE registry[n]]
    BY <1>1, <2>1, <2>3 DEF CompilerTypes
  <2> QED BY <2>2, <2>3 DEF Agent!Complete
<1>5. CompilerTypes'
  BY <1>1, <1>2, <1>4 DEF CompilerTypes
<1> QED BY <1>2, <1>3, <1>5 DEF CompilerInv

-----------------------------------------------------------------------------
\* The path as a function, and what the search knows of it.
LEMMA PathIs ==
    ASSUME Searching, path # <<>>, CompilerTypes, Reaches({})
    PROVE  /\ Len(path) \in Nat \ {0} /\ DOMAIN path = 1 .. Len(path)
           /\ \A i \in 1 .. Len(path) : path[i].node \in Vertices /\ path[i].at \in Nat \ {0}
           /\ \A i \in 1 .. Len(path) : path[i].node \in Agent!Inside
           /\ \A x \in Agent!Inside : \E i \in 1 .. Len(path) : path[i].node = x
           /\ Agent!Edges(path[Len(path)].node) \in Seq(Names)
           /\ Refers(path[Len(path)].node) \subseteq Vertices
<1>1. path \in Seq([node : Vertices, at : Nat \ {0}])
  BY DEF Searching
<1>2. Len(path) \in Nat \ {0} /\ DOMAIN path = 1 .. Len(path)
      /\ \A i \in 1 .. Len(path) : path[i] \in [node : Vertices, at : Nat \ {0}]
  <2> DEFINE E == [node : Vertices, at : Nat \ {0}]
  <2>1. path \in Seq(E)
    BY <1>1
  <2> HIDE DEF E
  <2>2. Len(path) \in Nat \ {0} /\ DOMAIN path = 1 .. Len(path) /\ \A i \in 1 .. Len(path) : path[i] \in E
    BY <2>1
  <2> QED BY <2>2 DEF E
<1>3. \A i \in 1 .. Len(path) : path[i].node \in Vertices /\ path[i].at \in Nat \ {0}
  BY <1>2
<1> QED BY <1>2, <1>3, EdgesAre DEF Agent!Inside

\* The last place has been moved on by one edge.
LEMMA AdvancedIs ==
    ASSUME Searching, path # <<>>, CompilerTypes, Reaches({})
    PROVE  /\ Agent!Advanced \in Seq([node : Vertices, at : Nat \ {0}])
           /\ Len(Agent!Advanced) = Len(path) /\ DOMAIN Agent!Advanced = 1 .. Len(path)
           /\ \A i \in 1 .. Len(path) : Agent!Advanced[i].node = path[i].node
           /\ \A i \in 1 .. (Len(path) - 1) : Agent!Advanced[i].at = path[i].at
           /\ Agent!Advanced[Len(path)].at = path[Len(path)].at + 1
<1> DEFINE L == Len(path)
           E == [node : Vertices, at : Nat \ {0}]
<1>1. path \in Seq([node : Vertices, at : Nat \ {0}]) /\ L \in Nat \ {0} /\ DOMAIN path = 1 .. L
  BY PathIs DEF Searching
<1>2. PICK e \in [node : Vertices, at : Nat \ {0}] : e = path[L]
  <2>1. path \in Seq(E)
    BY <1>1
  <2> HIDE DEF E
  <2>2. path[L] \in E
    BY <1>1, <2>1
  <2> QED BY <2>2 DEF E
<1>3. PICK n \in Vertices, m \in Nat \ {0} : n = e.node /\ m = e.at /\ e = [node |-> n, at |-> m]
  BY <1>2
<1>4. PICK f : f = [node |-> n, at |-> m + 1]
  OBVIOUS
<1>5. f \in [node : Vertices, at : Nat \ {0}] /\ f.node = n /\ f.at = m + 1
  BY <1>3, <1>4
<1>6. [e EXCEPT !.at = @ + 1] = f
  BY <1>3, <1>4
<1>7. Agent!Advanced = [path EXCEPT ![L] = f]
  BY <1>2, <1>6 DEF Agent!Advanced
<1>8. /\ Agent!Advanced \in Seq([node : Vertices, at : Nat \ {0}])
      /\ Len(Agent!Advanced) = L /\ DOMAIN Agent!Advanced = 1 .. L
      /\ \A i \in 1 .. (L - 1) : Agent!Advanced[i] = path[i]
      /\ Agent!Advanced[L] = f
  <2>1. path \in Seq(E) /\ f \in E
    BY <1>1, <1>5
  <2> HIDE DEF E
  <2>2. PICK new : new = [path EXCEPT ![L] = f]
    OBVIOUS
  <2>3. new \in Seq(E) /\ Len(new) = L /\ DOMAIN new = 1 .. L
    BY <1>1, <2>1, <2>2
  <2>4. (\A i \in 1 .. (L - 1) : new[i] = path[i]) /\ new[L] = f
    <3>1. L \in Nat \ {0} /\ DOMAIN path = 1 .. L
      BY <1>1
    <3> HIDE DEF L
    <3>2. new[L] = f
      BY <2>2, <3>1
    <3>3. \A i \in 1 .. (L - 1) : new[i] = path[i]
      BY <2>2, <3>1
    <3> QED BY <3>2, <3>3
  <2>5. Agent!Advanced = new
    BY <1>7, <2>2
  <2> QED BY <2>3, <2>4, <2>5 DEF E
<1>9. \A i \in 1 .. L : Agent!Advanced[i].node = path[i].node
  BY <1>1, <1>2, <1>3, <1>5, <1>8
<1> QED BY <1>2, <1>3, <1>5, <1>8, <1>9

LEMMA SearchBackKeeps ==
    ASSUME CompilerInv, Agent!SearchBack
    PROVE  CompilerInv'
<1> DEFINE L == Len(path)
<1>1. CompilerTypes /\ pc = "search" /\ result = "none" /\ path # <<>> /\ Searching /\ Reaches({}) /\ NodesAre
  BY DEF CompilerInv, CompilerTypes, Agent!SearchBack
<1>2. /\ UNCHANGED <<registry, pc, spec, visited, agents, nodes, result>>
      /\ path' = SubSeq(path, 1, L - 1) /\ path[L].at > Len(Agent!Edges(path[L].node))
  BY DEF Agent!SearchBack, Agent!Last
<1>3. Vertices' = Vertices /\ (\A n : Refers(n)' = Refers(n) /\ Agent!Edges(n)' = Agent!Edges(n))
      /\ \A S : Loose(S)' = Loose(S)
  BY <1>2, SameGraph
<1>4. CompilerTypes' /\ Reaches({})' /\ NodesAre'
  BY <1>1, <1>2, <1>3, SameGraph DEF CompilerTypes, NodesAre
<1>5. /\ L \in Nat \ {0} /\ DOMAIN path = 1 .. L
      /\ \A i \in 1 .. L : path[i].node \in Vertices /\ path[i].at \in Nat \ {0} /\ path[i].node \in Agent!Inside
      /\ \A x \in Agent!Inside : \E i \in 1 .. L : path[i].node = x
      /\ Agent!Edges(path[L].node) \in Seq(Names)
  BY <1>1, PathIs
<1>6. /\ path' \in Seq([node : Vertices, at : Nat \ {0}])
      /\ Len(path') = L - 1 /\ DOMAIN path' = 1 .. (L - 1) /\ \A i \in 1 .. (L - 1) : path'[i] = path[i]
  <2> DEFINE E == [node : Vertices, at : Nat \ {0}]
  <2>1. path \in Seq(E)
    BY <1>1 DEF Searching
  <2>2. L \in Nat \ {0}
    BY <1>5
  <2> HIDE DEF E
  <2>3. SubSeq(path, 1, L - 1) \in Seq(E) /\ Len(SubSeq(path, 1, L - 1)) = L - 1
        /\ \A i \in 1 .. (L - 1) : SubSeq(path, 1, L - 1)[i] = path[i]
    <3>1. PICK m \in Nat : m = L - 1 /\ m + 1 = Len(path)
      BY <2>2
    <3>2. Len(SubSeq(path, 1, m)) = m
      BY <2>1, <3>1
    <3>3. \A i \in 1 .. m : SubSeq(path, 1, m)[i] = path[i] /\ path[i] \in E
      BY <2>1, <3>1
    <3>4. SubSeq(path, 1, m) \in Seq(E)
      BY <2>1, <3>1, <3>2, <3>3
    <3> QED BY <3>1, <3>2, <3>3, <3>4
  <2>4. path' \in Seq(E) /\ Len(path') = L - 1 /\ DOMAIN path' = 1 .. (L - 1)
    BY <1>2, <2>2, <2>3
  <2> QED BY <1>2, <2>3, <2>4 DEF E
<1> HIDE DEF L
<1>7. PICK n \in Vertices : n = path[L].node
  BY <1>5
<1>8. \A i, j \in 1 .. L : path[i].node = path[j].node => i = j
  BY <1>1, <1>5 DEF Searching
<1>9. Agent!Inside' = Agent!Inside \ {n}
  <2>1. Agent!Inside' = {path'[i].node : i \in 1 .. (L - 1)}
    BY <1>6 DEF Agent!Inside
  <2>2. ASSUME NEW i \in 1 .. (L - 1) PROVE path'[i].node \in Agent!Inside \ {n}
    BY <1>5, <1>6, <1>7, <1>8
  <2>3. ASSUME NEW x \in Agent!Inside \ {n} PROVE \E i \in 1 .. (L - 1) : path'[i].node = x
    <3>1. PICK i \in 1 .. L : path[i].node = x
      BY <1>5
    <3>2. i \in 1 .. (L - 1)
      BY <1>5, <1>7, <2>3, <3>1
    <3> QED BY <1>6, <3>1, <3>2
  <2> QED BY <2>1, <2>2, <2>3
<1>10. n \in Agent!Inside /\ n \in visited /\ Agent!Inside \subseteq visited /\ visited \subseteq Vertices
  BY <1>1, <1>5, <1>7 DEF Searching
<1>11. Searched' = Searched \union {n} /\ n \notin Searched
  BY <1>2, <1>9, <1>10 DEF Searched
<1>12. \A m \in Searched : Refers(m) \subseteq Searched
  BY <1>1 DEF Searching
<1>13. ASSUME NEW i \in 1 .. L, NEW k \in 1 .. (path[i].at - 1)
       PROVE  /\ k \in DOMAIN Agent!Edges(path[i].node)
              /\ \/ Agent!Edges(path[i].node)[k] \in Searched
                 \/ i < L /\ k = path[i].at - 1 /\ path[i + 1].node = Agent!Edges(path[i].node)[k]
  BY <1>1, <1>5 DEF Searching, L
<1>14. Refers(n) \subseteq Searched
  <2>1. PICK edges \in Seq(Names) : edges = Agent!Edges(n)
    BY <1>5, <1>7
  <2>2. ASSUME NEW k \in DOMAIN edges PROVE edges[k] \in Searched
    <3>1. L \in 1 .. L /\ ~(L < L) /\ path[L].at \in Nat
      BY <1>5
    <3>2. k \in 1 .. (path[L].at - 1)
      BY <1>2, <1>7, <2>1, <3>1
    <3>3. Agent!Edges(path[L].node)[k] \in Searched
      BY <1>13, <3>1, <3>2
    <3> QED BY <1>7, <2>1, <3>3
  <2> QED BY <2>1, <2>2 DEF Refers, Members
<1>15. ASSUME NEW i \in 1 .. (L - 1), NEW k \in 1 .. (path[i].at - 1)
       PROVE  /\ k \in DOMAIN Agent!Edges(path[i].node)
              /\ \/ Agent!Edges(path[i].node)[k] \in Searched'
                 \/ i < L - 1 /\ k = path[i].at - 1 /\ path[i + 1].node = Agent!Edges(path[i].node)[k]
  <2>1. i \in 1 .. L
    BY <1>5
  <2>2. CASE Agent!Edges(path[i].node)[k] \in Searched
    BY <1>11, <1>13, <2>1, <2>2
  <2>3. CASE i < L /\ k = path[i].at - 1 /\ path[i + 1].node = Agent!Edges(path[i].node)[k]
    <3>1. i < L - 1 \/ i + 1 = L
      BY <1>5
    <3> QED BY <1>7, <1>11, <1>13, <2>1, <2>3, <3>1
  <2> QED BY <1>13, <2>1, <2>2, <2>3
<1>16. ASSUME NEW i \in 1 .. (L - 2) PROVE path'[i + 1].node \in Refers(path'[i].node)
  <2>1. i \in 1 .. (L - 1) /\ i + 1 \in 1 .. (L - 1)
    BY <1>5
  <2>2. path[i + 1].node \in Refers(path[i].node)
    BY <1>1, <2>1 DEF Searching, L
  <2> QED BY <1>6, <2>1, <2>2
<1>17. Loose(Searched')
  <2>1. ASSUME NEW R \in SUBSET Searched', R # {} PROVE \E m \in R : \A r \in R : m \notin Refers(r)
    <3>1. CASE n \in R
      <4>1. \A r \in R : n \notin Refers(r)
        BY <1>11, <1>12, <1>14
      <4> QED BY <3>1, <4>1
    <3>2. CASE n \notin R
      <4>1. R \subseteq Searched
        BY <1>11, <3>2
      <4> QED BY <1>1, <2>1, <4>1 DEF Searching, Loose
    <3> QED BY <3>1, <3>2
  <2> QED BY <2>1 DEF Loose
<1>18. Searching'
  <2>1. visited' \subseteq Vertices' /\ path' \in Seq([node : Vertices', at : Nat \ {0}]) /\ Agent!Inside' \subseteq visited'
    BY <1>2, <1>3, <1>6, <1>9, <1>10
  <2>2. \A i, j \in DOMAIN path' : path'[i].node = path'[j].node => i = j
    BY <1>5, <1>6, <1>8
  <2>3. \A i \in DOMAIN path' : \A k \in 1 .. (path'[i].at - 1) :
          /\ k \in DOMAIN Agent!Edges(path'[i].node)
          /\ \/ Agent!Edges(path'[i].node)[k] \in Searched'
             \/ i < Len(path') /\ k = path'[i].at - 1 /\ path'[i + 1].node = Agent!Edges(path'[i].node)[k]
    <3>1. \A i \in 1 .. (L - 1) : i < L - 1 => i + 1 \in 1 .. (L - 1)
      BY <1>5
    <3> QED BY <1>6, <1>15, <3>1
  <2>4. \A i \in 1 .. (Len(path') - 1) : path'[i + 1].node \in Refers(path'[i].node)
    <3>1. Len(path') - 1 = L - 2
      BY <1>5, <1>6
    <3> QED BY <1>16, <3>1
  <2>5. \A m \in Searched' : Refers(m) \subseteq Searched'
    BY <1>11, <1>12, <1>14
  <2> QED BY <1>3, <1>17, <2>1, <2>2, <2>3, <2>4, <2>5 DEF Searching
<1> QED BY <1>1, <1>2, <1>4, <1>18 DEF CompilerInv

LEMMA SearchEdgeKeeps ==
    ASSUME CompilerInv, Agent!SearchEdge
    PROVE  CompilerInv'
<1> DEFINE L == Len(path)
           E == [node : Vertices, at : Nat \ {0}]
<1>1. CompilerTypes /\ pc = "search" /\ result = "none" /\ path # <<>> /\ Searching /\ Reaches({}) /\ NodesAre
  BY DEF CompilerInv, CompilerTypes, Agent!SearchEdge
<1>2. UNCHANGED <<registry, spec, agents, nodes>> /\ path[L].at <= Len(Agent!Edges(path[L].node))
  BY DEF Agent!SearchEdge, Agent!Last
<1>3. Vertices' = Vertices /\ (\A x : Refers(x)' = Refers(x) /\ Agent!Edges(x)' = Agent!Edges(x))
      /\ \A S : Loose(S)' = Loose(S)
  BY <1>2, SameGraph
<1>4. Reaches({})' /\ NodesAre'
  BY <1>1, <1>2, <1>3, SameGraph DEF NodesAre
<1>5. /\ L \in Nat \ {0} /\ DOMAIN path = 1 .. L
      /\ \A i \in 1 .. L : path[i].node \in Vertices /\ path[i].at \in Nat \ {0} /\ path[i].node \in Agent!Inside
      /\ \A x \in Agent!Inside : \E i \in 1 .. L : path[i].node = x
      /\ Agent!Edges(path[L].node) \in Seq(Names) /\ Refers(path[L].node) \subseteq Vertices
  BY <1>1, PathIs
<1>6. PICK at \in Nat \ {0} : at = path[L].at
  <2>1. L \in 1 .. L
    BY <1>5
  <2> QED BY <1>5, <2>1
<1>7. PICK n \in Vertices : n = Agent!Edges(path[L].node)[at] /\ n \in Refers(path[L].node)
  <2>1. PICK edges \in Seq(Names) : edges = Agent!Edges(path[L].node)
    BY <1>5
  <2>2. at \in DOMAIN edges
    BY <1>2, <1>6, <2>1
  <2> QED BY <1>5, <2>1, <2>2 DEF Refers, Members
<1>8. at \in DOMAIN Agent!Edges(path[L].node)
  BY <1>2, <1>5, <1>6
<1>9. PICK adv \in Seq(E) :
        /\ adv = Agent!Advanced /\ Len(adv) = L /\ DOMAIN adv = 1 .. L
        /\ \A i \in 1 .. L : adv[i].node = path[i].node
        /\ \A i \in 1 .. (L - 1) : adv[i].at = path[i].at
        /\ adv[L].at = at + 1
  BY <1>1, <1>6, AdvancedIs
<1>10. PICK p \in E : p = [node |-> n, at |-> 1] /\ p.node = n /\ p.at = 1
  <2>1. PICK q : q = [node |-> n, at |-> 1]
    OBVIOUS
  <2>2. q.node = n /\ q.at = 1 /\ q \in E
    BY <2>1
  <2> QED BY <2>1, <2>2
<1>11. \/ n \notin visited /\ path' = Append(adv, p) /\ visited' = visited \union {n} /\ UNCHANGED <<pc, result>>
       \/ n \in visited \ Agent!Inside /\ path' = adv /\ UNCHANGED <<visited, pc, result>>
       \/ /\ n \in Agent!Inside
          /\ path' = Append(SubSeq(path, CHOOSE i \in DOMAIN path : path[i].node = n, L), p)
          /\ pc' = "idle" /\ result' = "cycle"
  BY <1>6, <1>7, <1>9, <1>10 DEF Agent!SearchEdge, Agent!Last, Agent!Finish
<1> HIDE DEF L, E
<1>12. /\ Agent!Inside \subseteq visited /\ visited \subseteq Vertices
       /\ \A x \in Searched : Refers(x) \subseteq Searched
       /\ Loose(Searched)
       /\ \A i, j \in 1 .. L : path[i].node = path[j].node => i = j
       /\ \A i \in 1 .. (L - 1) : path[i + 1].node \in Refers(path[i].node)
  BY <1>1, <1>5 DEF Searching, L
<1>13. ASSUME NEW i \in 1 .. L, NEW k \in 1 .. (path[i].at - 1)
       PROVE  /\ k \in DOMAIN Agent!Edges(path[i].node)
              /\ \/ Agent!Edges(path[i].node)[k] \in Searched
                 \/ i < L /\ k = path[i].at - 1 /\ path[i + 1].node = Agent!Edges(path[i].node)[k]
  BY <1>1, <1>5 DEF Searching, L
\* The places of the search after the step, but for the edge that it has just looked at.
<1>14. ASSUME NEW i \in 1 .. L, NEW k \in 1 .. (adv[i].at - 1)
       PROVE  /\ k \in DOMAIN Agent!Edges(path[i].node)
              /\ \/ Agent!Edges(path[i].node)[k] \in Searched
                 \/ i < L /\ k = adv[i].at - 1 /\ path[i + 1].node = Agent!Edges(path[i].node)[k]
                 \/ i = L /\ k = at
  <2>1. CASE i = L
    <3>1. k = at \/ k \in 1 .. (path[L].at - 1)
      BY <1>6, <1>9, <2>1
    <3> QED BY <1>5, <1>8, <1>13, <2>1, <3>1
  <2>2. CASE i # L
    <3>1. adv[i].at = path[i].at
      BY <1>5, <1>9, <2>2
    <3> QED BY <1>13, <3>1
  <2> QED BY <2>1, <2>2
<1>15. CASE n \notin visited /\ path' = Append(adv, p) /\ visited' = visited \union {n} /\ UNCHANGED <<pc, result>>
  <2>1. /\ path' \in Seq(E) /\ Len(path') = L + 1 /\ DOMAIN path' = 1 .. (L + 1)
        /\ \A i \in 1 .. L : path'[i] = adv[i]
        /\ path'[L + 1] = p
    BY <1>5, <1>9, <1>15
  <2>2. Agent!Inside' = Agent!Inside \union {n}
    <3>1. Agent!Inside' = {path'[i].node : i \in 1 .. (L + 1)}
      BY <2>1 DEF Agent!Inside
    <3>2. ASSUME NEW i \in 1 .. (L + 1) PROVE path'[i].node \in Agent!Inside \union {n}
      <4>1. CASE i = L + 1
        BY <1>10, <2>1, <4>1
      <4>2. CASE i \in 1 .. L
        <5>1. path'[i] = adv[i] /\ adv[i].node = path[i].node
          BY <1>9, <2>1, <4>2
        <5>2. path[i].node \in Agent!Inside
          BY <1>5, <4>2
        <5> QED BY <5>1, <5>2
      <4> QED BY <1>5, <4>1, <4>2
    <3>3. ASSUME NEW x \in Agent!Inside \union {n} PROVE \E i \in 1 .. (L + 1) : path'[i].node = x
      <4>1. CASE x = n
        <5>1. L + 1 \in 1 .. (L + 1)
          BY <1>5
        <5> QED BY <1>10, <2>1, <4>1, <5>1
      <4>2. CASE x \in Agent!Inside
        <5>1. PICK i \in 1 .. L : path[i].node = x
          BY <1>5, <4>2
        <5>2. i \in 1 .. (L + 1)
          BY <1>5
        <5> QED BY <1>9, <2>1, <5>1, <5>2
      <4> QED BY <3>3, <4>1, <4>2
    <3> QED BY <3>1, <3>2, <3>3
  <2>3. Searched' = Searched
    BY <1>12, <1>15, <2>2 DEF Searched
  <2>4. ASSUME NEW i \in 1 .. (L + 1), NEW j \in 1 .. (L + 1), path'[i].node = path'[j].node PROVE i = j
    <3>1. \A m \in 1 .. L : path'[m].node = path[m].node /\ path'[m].node # n
      BY <1>5, <1>9, <1>12, <1>15, <2>1
    <3>2. path'[L + 1].node = n /\ (i = L + 1 \/ i \in 1 .. L) /\ (j = L + 1 \/ j \in 1 .. L)
      BY <1>5, <1>10, <2>1
    <3> QED BY <1>12, <2>4, <3>1, <3>2
  <2>5. ASSUME NEW i \in 1 .. (L + 1), NEW k \in 1 .. (path'[i].at - 1)
        PROVE  /\ k \in DOMAIN Agent!Edges(path'[i].node)
               /\ \/ Agent!Edges(path'[i].node)[k] \in Searched
                  \/ i < L + 1 /\ k = path'[i].at - 1 /\ path'[i + 1].node = Agent!Edges(path'[i].node)[k]
    <3>1. i \in 1 .. L
      BY <1>5, <1>10, <2>1
    <3>2. path'[i] = adv[i] /\ path'[i].node = path[i].node /\ i < L + 1
      BY <1>5, <1>9, <2>1, <3>1
    <3>3. CASE i = L /\ k = at
      BY <1>6, <1>7, <1>8, <1>9, <1>10, <2>1, <3>2, <3>3
    <3>4. CASE i < L
      <4>1. i + 1 \in 1 .. L
        BY <1>5, <3>1, <3>4
      <4>2. path'[i + 1].node = path[i + 1].node
        BY <1>9, <2>1, <4>1
      <4> QED BY <1>14, <3>1, <3>2, <3>4, <4>2
    <3> QED BY <1>5, <1>14, <3>1, <3>2, <3>3, <3>4
  <2>6. ASSUME NEW i \in 1 .. L PROVE path'[i + 1].node \in Refers(path'[i].node)
    <3>1. CASE i = L
      BY <1>7, <1>9, <1>10, <2>1, <3>1
    <3>2. CASE i # L
      <4>1. i \in 1 .. (L - 1) /\ i + 1 \in 1 .. L
        BY <1>5, <3>2
      <4> QED BY <1>9, <1>12, <2>1, <4>1
    <3> QED BY <3>1, <3>2
  <2>7. Searching'
    <3>1. path' \in Seq([node : Vertices', at : Nat \ {0}])
      BY <1>3, <2>1 DEF E
    <3>2. visited' \subseteq Vertices' /\ Agent!Inside' \subseteq visited'
      BY <1>3, <1>12, <1>15, <2>2
    <3>3. \A i \in DOMAIN path' : \A k \in 1 .. (path'[i].at - 1) :
            /\ k \in DOMAIN Agent!Edges(path'[i].node)
            /\ \/ Agent!Edges(path'[i].node)[k] \in Searched'
               \/ i < Len(path') /\ k = path'[i].at - 1 /\ path'[i + 1].node = Agent!Edges(path'[i].node)[k]
      BY <2>1, <2>3, <2>5
    <3>4. \A i \in 1 .. (Len(path') - 1) : path'[i + 1].node \in Refers(path'[i].node)
      <4>1. Len(path') - 1 = L
        BY <1>5, <2>1
      <4> QED BY <2>6, <4>1
    <3>5. \A i, j \in DOMAIN path' : path'[i].node = path'[j].node => i = j
      BY <2>1, <2>4
    <3> QED BY <1>3, <1>12, <2>3, <3>1, <3>2, <3>3, <3>4, <3>5 DEF Searching
  <2>8. CompilerTypes'
    BY <1>1, <1>2, <1>15 DEF CompilerTypes
  <2> QED BY <1>1, <1>4, <1>15, <2>7, <2>8 DEF CompilerInv
<1>16. CASE n \in visited \ Agent!Inside /\ path' = adv /\ UNCHANGED <<visited, pc, result>>
  <2>1. Agent!Inside' = Agent!Inside
    <3>1. Agent!Inside' = {adv[i].node : i \in 1 .. L}
      BY <1>9, <1>16 DEF Agent!Inside
    <3>2. ASSUME NEW i \in 1 .. L PROVE adv[i].node \in Agent!Inside
      BY <1>5, <1>9
    <3>3. ASSUME NEW x \in Agent!Inside PROVE \E i \in 1 .. L : adv[i].node = x
      BY <1>5, <1>9
    <3> QED BY <3>1, <3>2, <3>3
  <2>2. Searched' = Searched /\ n \in Searched
    BY <1>16, <2>1 DEF Searched
  <2>3. ASSUME NEW i \in 1 .. L, NEW k \in 1 .. (adv[i].at - 1)
        PROVE  /\ k \in DOMAIN Agent!Edges(adv[i].node)
               /\ \/ Agent!Edges(adv[i].node)[k] \in Searched
                  \/ i < L /\ k = adv[i].at - 1 /\ adv[i + 1].node = Agent!Edges(adv[i].node)[k]
    <3>1. i < L => i + 1 \in 1 .. L
      BY <1>5
    <3> QED BY <1>7, <1>9, <1>14, <2>2, <3>1
  <2>4. ASSUME NEW i \in 1 .. (L - 1) PROVE adv[i + 1].node \in Refers(adv[i].node)
    <3>1. i \in 1 .. L /\ i + 1 \in 1 .. L
      BY <1>5
    <3> QED BY <1>9, <1>12, <3>1
  <2>5. Searching'
    <3>1. path' \in Seq([node : Vertices', at : Nat \ {0}])
      BY <1>3, <1>9, <1>16 DEF E
    <3>2. visited' \subseteq Vertices' /\ Agent!Inside' \subseteq visited'
      BY <1>3, <1>12, <1>16, <2>1
    <3>3. \A i \in DOMAIN path' : \A k \in 1 .. (path'[i].at - 1) :
            /\ k \in DOMAIN Agent!Edges(path'[i].node)
            /\ \/ Agent!Edges(path'[i].node)[k] \in Searched'
               \/ i < Len(path') /\ k = path'[i].at - 1 /\ path'[i + 1].node = Agent!Edges(path'[i].node)[k]
      BY <1>9, <1>16, <2>2, <2>3
    <3>4. \A i \in 1 .. (Len(path') - 1) : path'[i + 1].node \in Refers(path'[i].node)
      BY <1>9, <1>16, <2>4
    <3>5. \A i, j \in DOMAIN path' : path'[i].node = path'[j].node => i = j
      BY <1>9, <1>12, <1>16
    <3> QED BY <1>3, <1>12, <2>2, <3>1, <3>2, <3>3, <3>4, <3>5 DEF Searching
  <2>6. CompilerTypes'
    BY <1>1, <1>2, <1>16 DEF CompilerTypes
  <2> QED BY <1>1, <1>4, <1>16, <2>5, <2>6 DEF CompilerInv
<1>17. CASE /\ n \in Agent!Inside
            /\ path' = Append(SubSeq(path, CHOOSE i \in DOMAIN path : path[i].node = n, L), p)
            /\ pc' = "idle" /\ result' = "cycle"
  <2>1. PICK from \in 1 .. L : path[from].node = n /\ path' = Append(SubSeq(path, from, L), p)
    <3>1. \E i \in DOMAIN path : path[i].node = n
      BY <1>5, <1>17
    <3> QED BY <1>5, <1>17, <3>1
  <2>2. PICK round : /\ round = SubSeq(path, from, L) /\ round \in Seq(E) /\ Len(round) = L - from + 1
                     /\ \A i \in 1 .. (L - from + 1) : round[i] = path[from + i - 1]
    <3>1. path \in Seq(E)
      BY <1>1 DEF Searching, E
    <3>2. L = Len(path) /\ L \in Nat
      BY <1>5 DEF L
    <3>3. Len(SubSeq(path, from, L)) = L - from + 1
      BY <3>1, <3>2
    <3>4. \A i \in 1 .. (L - from + 1) : SubSeq(path, from, L)[i] = path[from + i - 1]
      BY <3>1, <3>2
    <3>5. SubSeq(path, from, L) \in Seq(E)
      BY <3>1, <3>2
    <3> QED BY <3>3, <3>4, <3>5
  <2>3. PICK m \in Nat \ {0} : m = L - from + 1
    BY <1>5
  <2>4. /\ Len(path') = m + 1 /\ path'[m + 1] = p
        /\ \A i \in 1 .. m : path'[i] = round[i]
    BY <2>1, <2>2, <2>3
  <2>5. path'[1].node = n /\ path'[m + 1].node = n
    <3>1. 1 \in 1 .. m /\ from + 1 - 1 = from
      BY <2>3
    <3>2. path'[1] = path[from]
      BY <2>2, <2>3, <2>4, <3>1
    <3> QED BY <1>10, <2>1, <2>4, <3>2
  <2>6. ASSUME NEW i \in 1 .. m PROVE path'[i + 1].node \in Refers(path'[i].node)
    <3>1. CASE i = m
      <4>1. from + m - 1 = L
        BY <1>5, <2>3
      <4>2. path'[m] = path[L]
        BY <2>2, <2>3, <2>4, <3>1, <4>1
      <4> QED BY <1>7, <1>10, <2>4, <3>1, <4>2
    <3>2. CASE i # m
      <4>1. PICK j \in 1 .. (L - 1) : j = from + i - 1
        BY <1>5, <2>3, <3>2
      <4>2. i + 1 \in 1 .. m /\ from + (i + 1) - 1 = j + 1
        BY <2>3, <3>2, <4>1
      <4>3. path'[i] = path[j] /\ path'[i + 1] = path[j + 1]
        BY <2>2, <2>3, <2>4, <4>1, <4>2
      <4> QED BY <1>12, <4>3
    <3> QED BY <3>1, <3>2
  <2>7. IsCycle'
    <3>1. Len(path') > 1 /\ Len(path') - 1 = m
      BY <2>3, <2>4
    <3>2. path'[1].node = path'[Len(path')].node
      BY <2>4, <2>5
    <3> QED BY <1>3, <2>6, <3>1, <3>2 DEF IsCycle
  <2>8. CompilerTypes'
    BY <1>1, <1>2, <1>17 DEF CompilerTypes
  <2> QED BY <1>17, <2>7, <2>8 DEF CompilerInv
<1> QED BY <1>11, <1>15, <1>16, <1>17

-----------------------------------------------------------------------------
LEMMA CompilerStarts == ASSUME Agent!Init PROVE CompilerInv
<1>1. /\ registry = <<>> /\ pc = "idle" /\ spec \in Specs /\ agents = <<>> /\ result = "none"
  BY DEF Agent!Init
<1>2. DOMAIN registry = {} /\ DOMAIN agents = {}
  BY <1>1
<1> QED BY <1>1, <1>2 DEF CompilerInv, CompilerTypes

LEMMA CompilerStep == ASSUME CompilerInv, [Agent!Next]_(Agent!vars) PROVE CompilerInv'
<1>1. ASSUME UNCHANGED Agent!vars PROVE CompilerInv'
  <2>1. /\ UNCHANGED <<registry, pc, spec, queue, visited, agents, nodes, degree, sorted, path, result>>
    BY <1>1 DEF Agent!vars, Agent!search
  <2>2. Vertices' = Vertices /\ (\A n : Refers(n)' = Refers(n) /\ Agent!Edges(n)' = Agent!Edges(n))
        /\ \A S : Loose(S)' = Loose(S)
    BY <2>1, SameGraph
  <2>3. CompilerTypes' = CompilerTypes
    BY <2>1 DEF CompilerTypes
  <2>4. \A Q : Reaches(Q)' = Reaches(Q)
    <3>1. \A S : Agent!Closed(S)' = Agent!Closed(S)
      BY <2>1 DEF Agent!Closed
    <3> QED BY <2>1, <2>2, <3>1 DEF Reaches
  <2>5. Resolving => Resolving'
    BY <2>1, <2>2, <2>4 DEF Resolving
  <2>6. NodesAre => NodesAre'
    BY <2>1, <2>2 DEF NodesAre
  <2>7. Sorting => Sorting'
    <3>1. Taken' = Taken
      BY <2>1, <2>2 DEF Taken
    <3>2. Open' = Open
      BY <2>1, <3>1 DEF Open
    <3>3. \A x, I : Into(nodes, x, I)' = Into(nodes, x, I)
      BY <2>1 DEF Into, Row, Agent!Edges
    <3> QED BY <2>1, <2>2, <3>1, <3>2, <3>3 DEF Sorting
  <2>8. Searching => Searching'
    <3>1. Agent!Inside' = Agent!Inside /\ Searched' = Searched
      BY <2>1 DEF Agent!Inside, Searched
    <3> QED BY <2>1, <2>2, <3>1 DEF Searching
  <2>9. Ready => Ready'
    BY <2>1, SameGraph DEF Ready
  <2>10. IsCycle => IsCycle'
    BY <2>1, <2>2 DEF IsCycle
  <2> QED BY <2>1, <2>3, <2>4, <2>5, <2>6, <2>7, <2>8, <2>9, <2>10 DEF CompilerInv
<1>2. ASSUME Agent!Work PROVE CompilerInv'
  BY <1>2, ResolveKeeps, SkipResolvedKeeps, ResolveFailsKeeps, StartSortKeeps, SortStepKeeps,
     EndSortKeeps, SearchRootKeeps, SearchEdgeKeeps, SearchBackKeeps, CompleteKeeps DEF Agent!Work
<1> QED BY <1>1, <1>2, BeginKeeps DEF Agent!Next

LEMMA CompilerMoves ==
    ASSUME [Next]_vars, (part = "agent")'
    PROVE  part = "agent" /\ [Agent!Next]_(Agent!vars)
  BY DEF Next, InGraph, InAgent, InLoop, vars, agentVars, Agent!vars, Agent!search

\* The phases of a compilation hand on what the next one needs: the resolution what can be reached, the
\* sort and the search what is free of cycles, in any order of the nodes and for any definitions.
THEOREM CompilerInvariance == Spec => [](part = "agent" => CompilerInv)
<1> DEFINE Inv == part = "agent" => CompilerInv
<1>1. Init => Inv
  BY CompilerStarts DEF Init
<1>2. Inv /\ [Next]_vars => Inv'
  BY CompilerMoves, CompilerStep
<1> QED BY <1>1, <1>2, PTL DEF Spec

\* When a compilation is through, the agents it was given are those that can be reached.
LEMMA ResolvedIsReachable ==
    ASSUME CompilerTypes, Ready
    PROVE  DOMAIN agents = Agent!Reachable
<1>1. /\ Members(spec.agents) \subseteq DOMAIN agents
      /\ \A n \in DOMAIN agents : Members(agents[n]) \subseteq Vertices
      /\ \A S \in SUBSET Names : Members(spec.agents) \subseteq S /\ Agent!Closed(S) => DOMAIN agents \subseteq S
      /\ \A x \in DOMAIN agents : x \in Members(spec.agents) \/ \E m \in DOMAIN agents : x \in Members(agents[m])
      /\ spec.name \notin DOMAIN agents => Loose(Vertices)
      /\ DOMAIN agents \subseteq Names
  BY DEF Ready, Reaches, CompilerTypes
<1>2. ASSUME NEW k \in DOMAIN agents, spec.name \in Members(agents[k]) PROVE spec.name \in DOMAIN agents
  <2> SUFFICES ASSUME spec.name \notin DOMAIN agents PROVE FALSE
    OBVIOUS
  <2>1. Vertices # {} /\ \A m \in DOMAIN agents : m \in Vertices
    BY DEF Vertices
  <2>2. PICK n \in Vertices : \A m \in Vertices : n \notin Refers(m)
    BY <1>1, <2>1 DEF Loose
  <2>3. spec.name \in Vertices /\ Refers(spec.name) = Members(spec.agents)
        /\ \A m \in DOMAIN agents : Refers(m) = Members(agents[m])
    BY EdgesAre DEF Vertices
  <2>4. n # spec.name
    BY <1>2, <2>1, <2>2, <2>3
  <2>5. n \in DOMAIN agents
    BY <2>2, <2>4 DEF Vertices
  <2> QED BY <1>1, <2>1, <2>2, <2>3, <2>5
<1>3. Agent!Closed(DOMAIN agents)
  <2>1. ASSUME NEW n \in DOMAIN agents PROVE Members(agents[n]) \subseteq DOMAIN agents
    BY <1>1, <1>2 DEF Vertices
  <2> QED BY <2>1, SameMembers DEF Agent!Closed
<1>4. Agent!Reachable = {n \in Names : \A S \in SUBSET Names : (Members(spec.agents) \subseteq S /\ Agent!Closed(S)) => n \in S}
  BY SameMembers DEF Agent!Reachable
<1>5. Agent!Reachable \subseteq DOMAIN agents
  BY <1>1, <1>3, <1>4
<1>6. DOMAIN agents \subseteq Agent!Reachable
  BY <1>1, <1>4
<1> QED BY <1>5, <1>6

\* For any definitions, compiled and compiled again in any order, the agents that a compiled agent is
\* given are exactly those that can be reached from its list, and a reported cycle is one.
THEOREM ReferencesResolve == Spec => []ResolutionIsExact
<1>1. (part = "agent" => CompilerInv) => ResolutionIsExact
  <2> SUFFICES ASSUME CompilerInv PROVE Agent!ResolutionIsExact
    BY DEF ResolutionIsExact
  <2>1. ASSUME result = "compiled" PROVE DOMAIN agents = Agent!Reachable
    BY <2>1, ResolvedIsReachable DEF CompilerInv
  <2>2. ASSUME result = "cycle"
        PROVE  /\ Len(path) > 1 /\ path[1].node = path[Len(path)].node
               /\ \A i \in 1 .. (Len(path) - 1) : path[i + 1].node \in Agent!Members(Agent!Edges(path[i].node))
    BY <2>2, SameMembers DEF CompilerInv, IsCycle, Refers
  <2> QED BY <2>1, <2>2 DEF Agent!ResolutionIsExact
<1> QED BY <1>1, CompilerInvariance, PTL

\* Nor does any order let a cycle of agents through, but for an agent that names itself.
THEOREM CompiledIsAcyclic == Spec => []CyclesAreCaught
<1>1. (part = "agent" => CompilerInv) => CyclesAreCaught
  <2> SUFFICES ASSUME CompilerInv, result = "compiled", spec.name \notin Members(spec.agents)
               PROVE  Agent!Acyclic
    BY SameMembers DEF CyclesAreCaught, Agent!CyclesAreCaught
  <2>1. CompilerTypes /\ Ready
    BY DEF CompilerInv
  <2>2. spec.name \notin DOMAIN agents /\ Loose(Vertices)
    BY <2>1 DEF Ready, Reaches
  <2>3. Agent!Reachable \union {spec.name} = Vertices
    BY <2>1, ResolvedIsReachable DEF Vertices
  <2>4. ASSUME NEW m \in Vertices PROVE Agent!Members(Agent!Declared(m)) = Refers(m)
    <3>1. CASE m = spec.name
      BY <2>1, <2>2, <3>1, EdgesAre, SameMembers DEF Agent!Declared
    <3>2. CASE m \in DOMAIN agents
      BY <2>1, <2>2, <3>2, EdgesAre, SameMembers DEF Agent!Declared
    <3> QED BY <3>1, <3>2 DEF Vertices
  <2>5. ASSUME NEW S \in SUBSET Vertices, S # {}
        PROVE  \E n \in S : n \notin UNION {Agent!Members(Agent!Declared(m)) : m \in S}
    <3>1. PICK n \in S : \A m \in S : n \notin Refers(m)
      BY <2>2, <2>5 DEF Loose
    <3>2. \A m \in S : n \notin Agent!Members(Agent!Declared(m))
      BY <2>4, <3>1
    <3> QED BY <3>2
  <2> QED BY <2>3, <2>5 DEF Agent!Acyclic
<1> QED BY <1>1, CompilerInvariance, PTL

-----------------------------------------------------------------------------
(* WorkflowGraph: what a state, the open calls of Graph.Invoke and the     *)
(* outcome of the last run look like.                                      *)

Counters == Graph!Counters
Written == Graph!Written
Counts == {r.config.pos_key.is : r \in Counters}

\* A position that was handed out.
IsHandOut(w) ==
    w = [key |-> w.key, pos |-> w.pos, node |-> w.node, done |-> w.done] /\ w.pos \in Int

\* A state, whose values are of their types but for what the graph writes.
IsState(s) ==
    /\ s = [data |-> s.data, meta |-> s.meta, start |-> s.start, walk |-> s.walk, clean |-> s.clean]
    /\ IsList(s.walk) /\ \A i \in DOMAIN s.walk : IsHandOut(s.walk[i])
    /\ HoldsValues(s.meta)
    /\ \A k \in DOMAIN s.data \ Written : IsValue(s.data[k])

\* Its count of a key is past every position handed out under the key, and these go up.
Forward(s) ==
    /\ s.meta = Graph!NoMap => s.walk = <<>>
    /\ \A i \in DOMAIN s.walk : s.walk[i].pos < Graph!ToInt(s.meta, s.walk[i].key)
    /\ \A i, j \in DOMAIN s.walk :
        (i < j /\ s.walk[i].key = s.walk[j].key) => s.walk[i].pos < s.walk[j].pos

\* The state counts from 0 under one key, and nothing interferes.
Counted(s, key) ==
    s.meta # Graph!NoMap /\ Graph!ToInt(s.start, key) = 0 /\ Graph!KeptApart(key, s)

\* Then the positions are those up to the count, and no more than the list has.
InOrder(s, key) ==
    /\ Graph!ToInt(s.meta, key) = Len(s.walk)
    /\ \A i \in DOMAIN s.walk : s.walk[i].pos = i - 1 /\ s.walk[i].node # Graph!END
    /\ \A list \in Graph!Walked(s) :
        (Graph!Walked(s) = {list} /\ s.walk # <<>>) => Len(s.walk) <= Len(list.is)

Steady(s) == \A key \in Counts : Counted(s, key) => InOrder(s, key)

Good(s) == IsState(s) /\ Forward(s) /\ Steady(s)

\* No run has failed on the state, and what it handed out were nodes.
Smooth(s) == s.clean /\ \A i \in DOMAIN s.walk : s.walk[i].node # Graph!END

\* Nobody works on the state: all that was handed out is done.
Idle(s) == Smooth(s) => \A i \in DOMAIN s.walk : s.walk[i].done

\* The call fr works on the state: only the last position may be under way, at the call's node.
Busy(s, fr) ==
    Smooth(s) =>
        \A i \in DOMAIN s.walk :
            s.walk[i].done \/ (i = Len(s.walk) /\ fr.pc # "route" /\ s.walk[i].node = fr.at)

\* The list of the router r has no entry left for the state.
Exhausted(s, r) ==
    \A list \in Graph!ListOf(r, s) : IsList(list.is) /\ Len(list.is) <= Len(s.walk)

\* A call that a position router has sent to the end.
EndsRight(s, fr) ==
    (fr.pc = "run" /\ fr.at = Graph!END /\ fr.router.type \in Graph!PositionRouters) =>
        /\ fr.router \in Counters
        /\ Counted(s, fr.router.config.pos_key.is) => Exhausted(s, fr.router)

\* A call that has come to a node, of a graph there is.
OnNode(fr) == fr.at \in DOMAIN flows[fr.flow].nodes

IsCall(fr) ==
    /\ fr = [flow |-> fr.flow, at |-> fr.at, obj |-> fr.obj, pc |-> fr.pc, router |-> fr.router]
    /\ fr.flow \in DOMAIN flows
    /\ fr.pc # "run" => OnNode(fr)

Works(os, fr) == fr.obj \in DOMAIN os /\ Busy(os[fr.obj], fr) /\ EndsRight(os[fr.obj], fr)

\* The open calls fs, each with a state of its own; the outer ones are in the node that made the next.
CallsAre(os, fs) ==
    /\ IsList(fs)
    /\ \A f \in DOMAIN fs : IsCall(fs[f]) /\ Works(os, fs[f])
    /\ \A f \in DOMAIN fs : f < Len(fs) => OnNode(fs[f])
    /\ \A f, g \in DOMAIN fs : fs[f].obj = fs[g].obj => f = g

StatesAre(os, fs) ==
    /\ IsList(os)
    /\ \A o \in DOMAIN os : Good(os[o])
    /\ \A o \in DOMAIN os : (\A f \in DOMAIN fs : fs[f].obj # o) => Idle(os[o])

OutcomeIs(os, fs, how) ==
    how.error = "none" =>
        /\ how.state \in DOMAIN os /\ fs = <<>>
        /\ how.by.type \in Graph!PositionRouters =>
            how.by \in Counters /\ Graph!Processed(os[how.state], how.by)

GraphInv ==
    /\ verdict = "compiled" => Fits(flows)
    /\ frames # <<>> => verdict = "compiled"
    /\ StatesAre(objs, frames)
    /\ CallsAre(objs, frames)
    /\ OutcomeIs(objs, frames, outcome)

-----------------------------------------------------------------------------
(* Lists.                                                                  *)

\* A list has a length and its entries.
LEMMA ListIs ==
    ASSUME NEW q, IsList(q)
    PROVE  Len(q) \in Nat /\ DOMAIN q = 1..Len(q)
  BY DEF IsList

LEMMA EmptyIsList == IsList(<<>>) /\ Len(<<>>) = 0
  BY DEF IsList

LEMMA OneIsList ==
    ASSUME NEW e
    PROVE  IsList(<<e>>) /\ Len(<<e>>) = 1 /\ <<e>>[1] = e
  BY DEF IsList

\* A function from the places of a list is one.
LEMMA FunctionIsList ==
    ASSUME NEW n \in Nat, NEW q, q = [i \in 1..n |-> q[i]]
    PROVE  IsList(q) /\ Len(q) = n
<1>1. q \in Seq({q[i] : i \in 1..n}) /\ DOMAIN q = 1..n
  OBVIOUS
<1> QED BY <1>1 DEF IsList

LEMMA SequenceIsList ==
    ASSUME NEW S, NEW q \in Seq(S)
    PROVE  IsList(q)
<1>1. Len(q) \in Nat /\ q = [i \in 1..Len(q) |-> q[i]]
  OBVIOUS
<1> QED BY <1>1, FunctionIsList

\* The list r is q with one entry more; with another entry at k; the first n of q.
Extends(r, q, e) ==
    /\ IsList(r) /\ Len(r) = Len(q) + 1
    /\ \A i \in 1..Len(q) : r[i] = q[i]
    /\ r[Len(q) + 1] = e

Replaces(r, q, k, v) ==
    /\ IsList(r) /\ Len(r) = Len(q)
    /\ \A i \in 1..Len(q) : i # k => r[i] = q[i]
    /\ r[k] = v

Begins(r, q, n) == IsList(r) /\ Len(r) = n /\ \A i \in 1..n : r[i] = q[i]

LEMMA AppendIs ==
    ASSUME NEW q, IsList(q), NEW e, NEW r, r = Append(q, e)
    PROVE  Extends(r, q, e)
<1> DEFINE S == {q[i] : i \in DOMAIN q} \union {e}
<1>1. q \in Seq(S) /\ e \in S
  BY DEF IsList
<1> HIDE DEF S
<1>2. r \in Seq(S) /\ Len(r) = Len(q) + 1 /\ Len(q) \in Nat
  BY <1>1
<1>3. (\A i \in 1..Len(q) : r[i] = q[i]) /\ r[Len(q) + 1] = e
  BY <1>1
<1>5. IsList(r)
  BY <1>2, SequenceIsList
<1> QED BY <1>2, <1>3, <1>5 DEF Extends

LEMMA ReplaceIs ==
    ASSUME NEW q, IsList(q), NEW k \in 1..Len(q), NEW v, NEW r, r = [q EXCEPT ![k] = v]
    PROVE  Replaces(r, q, k, v)
<1> DEFINE S == {q[i] : i \in DOMAIN q} \union {v}
<1>1. q \in Seq(S) /\ v \in S
  BY DEF IsList
<1> HIDE DEF S
<1>2. r \in Seq(S) /\ Len(r) = Len(q) /\ Len(q) \in Nat /\ DOMAIN q = 1..Len(q)
  BY <1>1
<1>3. (\A i \in 1..Len(q) : i # k => r[i] = q[i]) /\ r[k] = v
  BY <1>2
<1>4. IsList(r)
  BY <1>2, SequenceIsList
<1> QED BY <1>2, <1>3, <1>4 DEF Replaces

\* What is left of a list without its last entry.
LEMMA FrontIs ==
    ASSUME NEW q, IsList(q), NEW n \in 0..Len(q), NEW r, r = SubSeq(q, 1, n)
    PROVE  Begins(r, q, n)
<1> DEFINE S == {q[i] : i \in DOMAIN q}
<1>1. q \in Seq(S) /\ Len(q) \in Nat
  BY DEF IsList
<1> HIDE DEF S
<1>2. r \in Seq(S) /\ Len(r) = n /\ \A i \in 1..n : r[i] = q[i]
  BY <1>1
<1>3. IsList(r)
  BY <1>2, SequenceIsList
<1> QED BY <1>2, <1>3 DEF Begins

-----------------------------------------------------------------------------
(* What a step leaves of a state.                                          *)

\* Data is as it was but for what the graph writes, and meta but for one key.
DataKept(s, t) ==
    \A k : k \notin Written =>
        /\ k \in DOMAIN s.data <=> k \in DOMAIN t.data
        /\ k \in DOMAIN s.data => t.data[k] = s.data[k]

MetaKept(s, t, key) ==
    \A k : k # key =>
        /\ k \in DOMAIN s.meta <=> k \in DOMAIN t.meta
        /\ k \in DOMAIN s.meta => t.meta[k] = s.meta[k]

\* The state t is s with other data, more of what was handed out done, or soiled.
Alike(s, t) ==
    /\ t = [data |-> t.data, meta |-> s.meta, start |-> s.start, walk |-> t.walk, clean |-> t.clean]
    /\ t.clean => s.clean
    /\ DataKept(s, t)
    /\ IsList(t.walk) /\ Len(t.walk) = Len(s.walk)
    /\ \A i \in DOMAIN s.walk :
        /\ IsHandOut(t.walk[i])
        /\ t.walk[i].key = s.walk[i].key /\ t.walk[i].pos = s.walk[i].pos
        /\ t.walk[i].node = s.walk[i].node
        /\ s.walk[i].done => t.walk[i].done

\* What the routers walk over is as it was, if the keys are kept apart in one of the two.
LEMMA SameLists ==
    ASSUME NEW s, NEW t, NEW key, DataKept(s, t), MetaKept(s, t, key),
           Graph!KeptApart(key, s) \/ Graph!KeptApart(key, t)
    PROVE  /\ \A r \in Counters : Graph!ListOf(r, t) = Graph!ListOf(r, s)
           /\ Graph!Walked(t) = Graph!Walked(s)
           /\ Graph!KeptApart(key, s) /\ Graph!KeptApart(key, t)
<1>1. ASSUME NEW r \in Counters
      PROVE  Graph!ListOf(r, t) = Graph!ListOf(r, s)
  <2>1. r.type \in {"routing_slip", "recipient_list", "splitter"}
    BY DEF Counters, Graph!Counters, Graph!PositionRouters
  <2>2. /\ r.type = "splitter" => r.config.input_key.is \notin Written
        /\ r.type = "routing_slip" => r.config.slip_key.is # key
    BY DEF Graph!KeptApart, Counters, Written
  <2>3. CASE r.type = "recipient_list"
    BY <2>3 DEF Graph!ListOf
  <2>4. CASE r.type = "splitter"
    <3> DEFINE k == r.config.input_key.is
    <3>1. {s.data[x] : x \in {k} \intersect DOMAIN s.data} = {t.data[x] : x \in {k} \intersect DOMAIN t.data}
      BY <2>2, <2>4 DEF DataKept
    <3> HIDE DEF k
    <3> QED BY <3>1, <2>4 DEF Graph!ListOf, k
  <2>5. CASE r.type = "routing_slip"
    <3> DEFINE k == r.config.slip_key.is
    <3>1. {s.meta[x] : x \in {k} \intersect DOMAIN s.meta} = {t.meta[x] : x \in {k} \intersect DOMAIN t.meta}
      BY <2>2, <2>5 DEF MetaKept
    <3> HIDE DEF k
    <3> QED BY <3>1, <2>5 DEF Graph!ListOf, k
  <2> QED BY <2>1, <2>3, <2>4, <2>5
<1>2. Graph!Walked(t) = Graph!Walked(s)
  BY <1>1 DEF Graph!Walked, Counters
<1>3. Graph!KeptApart(key, s) <=> Graph!KeptApart(key, t)
  BY <1>1 DEF Graph!KeptApart, Counters
<1> QED BY <1>1, <1>2, <1>3

LEMMA AlikeMeta == ASSUME NEW s, NEW t, Alike(s, t) PROVE \A key : MetaKept(s, t, key)
<1>1. t.meta = s.meta
  BY DEF Alike
<1> QED BY <1>1 DEF MetaKept

\* A state that is alike is as good; a list that is exhausted stays so.
LEMMA AlikeKeeps ==
    ASSUME NEW s, NEW t, Good(s), Alike(s, t)
    PROVE  /\ Good(t) /\ (Smooth(t) => Smooth(s))
           /\ \A key : Counted(t, key) => Counted(s, key)
           /\ \A r \in Counters :
                (Counted(t, r.config.pos_key.is) /\ Exhausted(s, r)) => Exhausted(t, r)
<1>1. /\ t.meta = s.meta /\ t.start = s.start /\ DOMAIN t.walk = DOMAIN s.walk
      /\ Len(t.walk) = Len(s.walk) /\ DOMAIN s.walk = 1..Len(s.walk) /\ Len(s.walk) \in Nat
  <2>1. IsList(s.walk) /\ IsList(t.walk) /\ Len(t.walk) = Len(s.walk)
    BY DEF Alike, Good, IsState
  <2> QED BY <2>1, ListIs DEF Alike
<1>2. IsState(t)
  <2>1. \A k \in DOMAIN t.data \ Written : IsValue(t.data[k])
    <3>1. DataKept(s, t) /\ IsState(s)
      BY DEF Alike, Good
    <3> QED BY <3>1 DEF IsState, DataKept
  <2>2. t = [data |-> t.data, meta |-> t.meta, start |-> t.start, walk |-> t.walk, clean |-> t.clean]
    BY <1>1 DEF Alike
  <2> QED BY <1>1, <2>1, <2>2 DEF IsState, Alike, Good
<1>3. \A i \in DOMAIN s.walk : t.walk[i].key = s.walk[i].key /\ t.walk[i].pos = s.walk[i].pos
                                /\ t.walk[i].node = s.walk[i].node
  BY DEF Alike
<1>4. t.walk = <<>> <=> s.walk = <<>>
  <2>1. IsList(s.walk) /\ IsList(t.walk)
    BY DEF Alike, Good, IsState
  <2> QED BY <2>1, <1>1, EmptyIsList DEF IsList
<1>5. Forward(t)
  <2>1. Forward(s)
    BY DEF Good
  <2> QED BY <2>1, <1>1, <1>3, <1>4 DEF Forward
<1>6. ASSUME NEW key, Counted(t, key)
      PROVE  /\ Counted(s, key) /\ Graph!Walked(t) = Graph!Walked(s)
             /\ \A r \in Counters : Graph!ListOf(r, t) = Graph!ListOf(r, s)
  <2>1. DataKept(s, t) /\ MetaKept(s, t, key) /\ Graph!KeptApart(key, t)
    BY <1>6, AlikeMeta DEF Alike, Counted
  <2>2. /\ Graph!Walked(t) = Graph!Walked(s) /\ Graph!KeptApart(key, s)
        /\ \A r \in Counters : Graph!ListOf(r, t) = Graph!ListOf(r, s)
    BY <2>1, SameLists
  <2> QED BY <2>2, <1>6, <1>1 DEF Counted
<1>7. Steady(t)
  <2> SUFFICES ASSUME NEW key \in Counts, Counted(t, key) PROVE InOrder(t, key)
    BY DEF Steady
  <2>1. InOrder(s, key) /\ Graph!Walked(t) = Graph!Walked(s)
    BY <1>6 DEF Good, Steady
  <2> QED BY <2>1, <1>1, <1>3, <1>4 DEF InOrder
<1>8. Smooth(t) => Smooth(s)
  BY <1>1, <1>3 DEF Smooth, Alike
<1>9. \A r \in Counters : (Counted(t, r.config.pos_key.is) /\ Exhausted(s, r)) => Exhausted(t, r)
  BY <1>6, <1>1 DEF Exhausted
<1> QED BY <1>2, <1>5, <1>6, <1>7, <1>8, <1>9 DEF Good

-----------------------------------------------------------------------------
(* Counting.                                                               *)

\* A count is an integer.
LEMMA CountIs == ASSUME NEW m, HoldsValues(m), NEW key PROVE Graph!ToInt(m, key) \in Int
  BY DEF HoldsValues, IsValue, Graph!ToInt, Graph!Has

\* What a map holds after a Put.
LEMMA PutIs ==
    ASSUME NEW m, NEW key, NEW n \in Int, NEW w, w = Graph!Put(m, key, Graph!Num(n))
    PROVE  /\ w # Graph!NoMap /\ Graph!ToInt(w, key) = n
           /\ \A k : k # key =>
                /\ k \in DOMAIN m <=> k \in DOMAIN w
                /\ k \in DOMAIN m => w[k] = m[k]
           /\ HoldsValues(m) => HoldsValues(w)
<1>1. /\ DOMAIN w = {key} \union DOMAIN m
      /\ w[key] = Graph!Num(n)
      /\ \A k \in DOMAIN m : k # key => w[k] = m[k]
  BY DEF Graph!Put
<1>2. w # Graph!NoMap
  BY <1>1 DEF Graph!NoMap
<1>3. Graph!ToInt(w, key) = n
  BY <1>1, <1>2 DEF Graph!ToInt, Graph!Has, Graph!Num
<1>4. HoldsValues(m) => HoldsValues(w)
  <2>1. IsValue(Graph!Num(n))
    BY DEF IsValue, Graph!Num
  <2> QED BY <1>1, <2>1 DEF HoldsValues
<1> QED BY <1>1, <1>2, <1>3, <1>4

LEMMA SameCount ==
    ASSUME NEW m, NEW w, NEW k, m # Graph!NoMap, w # Graph!NoMap,
           k \in DOMAIN m <=> k \in DOMAIN w, k \in DOMAIN m => w[k] = m[k]
    PROVE  Graph!ToInt(w, k) = Graph!ToInt(m, k)
  BY DEF Graph!ToInt, Graph!Has

\* A router that counts hands out the next position and leaves a good state,
\* in which that position is the only one that may be under way.
LEMMA AdvanceKeeps ==
    ASSUME NEW s, Good(s), Idle(s), NEW r \in Counters, NEW target,
           NEW key, key = r.config.pos_key.is,
           NEW t, t = Graph!Advance(s, key, target),
           Graph!KeptApart(key, s) =>
                /\ target # Graph!END
                /\ \E list \in Graph!ListOf(r, s) :
                    IsList(list.is) /\ Graph!ToInt(s.meta, key) < Len(list.is)
    PROVE  /\ Good(t) /\ \A fr : (fr.pc = "run" /\ fr.at = target) => Busy(t, fr)
           /\ Counted(t, key) => target # Graph!END
<1>1. CASE s.meta = Graph!NoMap
  <2>1. t = s
    BY <1>1 DEF Graph!Advance
  <2> QED BY <1>1, <2>1 DEF Idle, Busy, Counted
<1>2. CASE s.meta # Graph!NoMap
  <2> DEFINE n == Len(s.walk)
  <2>1. PICK pos : pos = Graph!ToInt(s.meta, key)
    OBVIOUS
  <2>2. pos \in Int
    BY <2>1, CountIs DEF Good, IsState
  <2>3. PICK e : e = [key |-> key, pos |-> pos, node |-> target, done |-> FALSE]
    OBVIOUS
  <2>4. PICK m : m = Graph!Put(s.meta, key, Graph!Num(pos + 1))
    OBVIOUS
  <2>5. PICK w : w = Append(s.walk, e)
    OBVIOUS
  <2>6. t = [data |-> s.data, meta |-> m, start |-> s.start, walk |-> w, clean |-> s.clean]
    <3>1. t = [s EXCEPT !.meta = m, !.walk = w]
      BY <1>2, <2>1, <2>3, <2>4, <2>5 DEF Graph!Advance
    <3>2. s = [data |-> s.data, meta |-> s.meta, start |-> s.start, walk |-> s.walk, clean |-> s.clean]
      BY DEF Good, IsState
    <3> QED BY <3>1, <3>2
  <2>7. /\ IsList(s.walk) /\ n \in Nat /\ DOMAIN s.walk = 1..n
        /\ IsList(w) /\ Len(w) = n + 1 /\ DOMAIN w = 1..(n + 1)
        /\ \A i \in 1..n : w[i] = s.walk[i]
        /\ w[n + 1] = e
    <3>1. IsList(s.walk)
      BY DEF Good, IsState
    <3>2. Extends(w, s.walk, e)
      BY <3>1, <2>5, AppendIs
    <3>3. IsList(w) /\ Len(w) = n + 1 /\ (\A i \in 1..n : w[i] = s.walk[i]) /\ w[n + 1] = e
      BY <3>2 DEF Extends
    <3> QED BY <3>1, <3>3, ListIs
  <2> HIDE DEF n
  <2>8. /\ m # Graph!NoMap /\ Graph!ToInt(m, key) = pos + 1 /\ HoldsValues(m)
        /\ \A k : k # key => /\ k \in DOMAIN s.meta <=> k \in DOMAIN m
                             /\ k \in DOMAIN s.meta => m[k] = s.meta[k]
    <3>1. HoldsValues(s.meta) /\ pos + 1 \in Int
      BY <2>2 DEF Good, IsState
    <3> QED BY <3>1, <2>4, PutIs
  <2>9. \A k : k # key => Graph!ToInt(m, k) = Graph!ToInt(s.meta, k)
    BY <2>8, <1>2, SameCount
  <2>10. IsState(t)
    <3>1. IsHandOut(e)
      BY <2>2, <2>3 DEF IsHandOut
    <3>2. \A i \in DOMAIN w : IsHandOut(w[i])
      <4>1. \A i \in 1..n : IsHandOut(s.walk[i])
        BY <2>7 DEF Good, IsState
      <4> QED BY <4>1, <3>1, <2>7
    <3>3. \A k \in DOMAIN s.data \ Written : IsValue(s.data[k])
      BY DEF Good, IsState
    <3> QED BY <2>6, <2>7, <2>8, <3>2, <3>3 DEF IsState
  <2>11. Forward(t)
    <3>1. /\ \A i \in 1..n : s.walk[i].pos < Graph!ToInt(s.meta, s.walk[i].key) /\ s.walk[i].pos \in Int
          /\ \A i, j \in 1..n : (i < j /\ s.walk[i].key = s.walk[j].key) => s.walk[i].pos < s.walk[j].pos
      BY <2>7 DEF Good, Forward, IsState, IsHandOut
    <3>2. e.key = key /\ e.pos = pos
      BY <2>3
    <3>3. ASSUME NEW i \in 1..(n + 1)
          PROVE  w[i].pos < Graph!ToInt(m, w[i].key)
      <4>1. CASE i = n + 1
        BY <4>1, <3>2, <2>7, <2>8, <2>2
      <4>2. CASE i # n + 1 /\ w[i].key = key
        <5>1. i \in 1..n /\ w[i] = s.walk[i]
          BY <4>2, <2>7
        <5>2. w[i].pos < pos /\ w[i].pos \in Int
          BY <5>1, <4>2, <3>1, <2>1
        <5> QED BY <5>2, <4>2, <2>8, <2>2
      <4>3. CASE i # n + 1 /\ w[i].key # key
        <5>1. i \in 1..n /\ w[i] = s.walk[i]
          BY <4>3, <2>7
        <5> QED BY <5>1, <4>3, <3>1, <2>9
      <4> QED BY <4>1, <4>2, <4>3
    <3>4. ASSUME NEW i \in 1..(n + 1), NEW j \in 1..(n + 1), i < j, w[i].key = w[j].key
          PROVE  w[i].pos < w[j].pos
      <4>1. i \in 1..n /\ w[i] = s.walk[i]
        BY <3>4, <2>7
      <4>2. CASE j = n + 1
        BY <4>1, <4>2, <3>1, <3>2, <3>4, <2>1, <2>7
      <4>3. CASE j # n + 1
        BY <4>1, <4>3, <3>1, <3>4, <2>7
      <4> QED BY <4>2, <4>3
    <3> QED BY <3>3, <3>4, <2>6, <2>7, <2>8 DEF Forward
  <2>12. Graph!KeptApart(key, t) => Graph!KeptApart(key, s) /\ Graph!Walked(t) = Graph!Walked(s)
    <3>1. DataKept(s, t)
      BY <2>6 DEF DataKept
    <3>2. MetaKept(s, t, key)
      BY <2>6, <2>8 DEF MetaKept
    <3> QED BY <3>1, <3>2, SameLists
  <2>13. Steady(t)
    <3> SUFFICES ASSUME NEW other \in Counts, Counted(t, other) PROVE InOrder(t, other)
      BY DEF Steady
    <3>1. other = key /\ Graph!KeptApart(key, t) /\ key \in Counts
      BY DEF Counted, Graph!KeptApart, Counters, Counts
    <3>2. /\ Graph!KeptApart(key, s) /\ Graph!Walked(t) = Graph!Walked(s)
      BY <2>12, <3>1
    <3>3. InOrder(s, key)
      <4>1. Counted(s, key)
        BY <3>1, <3>2, <1>2, <2>6 DEF Counted
      <4> QED BY <4>1, <3>1 DEF Good, Steady
    <3>4. pos = n /\ \A i \in 1..n : s.walk[i].pos = i - 1 /\ s.walk[i].node # Graph!END
      BY <3>3, <2>1, <2>7 DEF InOrder, n
    <3>5. PICK list \in Graph!ListOf(r, s) : IsList(list.is) /\ pos < Len(list.is)
      BY <3>2, <2>1
    <3>6. n + 1 <= Len(list.is)
      <4>1. Len(list.is) \in Nat
        BY <3>5, ListIs
      <4> QED BY <4>1, <3>5, <3>4, <2>7
    <3>7. list \in Graph!Walked(t)
      BY <3>2, <3>5 DEF Graph!Walked, Counters
    <3>8. \A l \in Graph!Walked(t) : (Graph!Walked(t) = {l}) => Len(w) <= Len(l.is)
      BY <3>6, <3>7, <2>7
    <3>9. target # Graph!END
      BY <3>2
    <3>10. e.pos = pos /\ e.node = target
      BY <2>3
    <3>11. \A i \in DOMAIN w : w[i].pos = i - 1 /\ w[i].node # Graph!END
      BY <3>4, <3>9, <3>10, <2>7
    <3> QED BY <3>1, <3>4, <3>8, <3>11, <2>6, <2>7, <2>8 DEF InOrder
  <2>14. ASSUME NEW fr, fr.pc = "run", fr.at = target
         PROVE  Busy(t, fr)
    <3> SUFFICES ASSUME Smooth(t), NEW i \in 1..(n + 1)
                 PROVE  w[i].done \/ (i = n + 1 /\ w[i].node = fr.at)
      BY <2>6, <2>7, <2>14 DEF Busy
    <3>1. CASE i = n + 1
      BY <3>1, <2>3, <2>7, <2>14
    <3>2. CASE i # n + 1
      <4>1. Smooth(s)
        <5>1. s.clean /\ \A k \in 1..(n + 1) : w[k].node # Graph!END
          BY <2>6, <2>7 DEF Smooth
        <5> QED BY <5>1, <2>7 DEF Smooth
      <4>2. i \in 1..n
        BY <3>2, <2>7
      <4> QED BY <4>1, <4>2, <2>7 DEF Idle
    <3> QED BY <3>1, <3>2
  <2>15. Counted(t, key) => target # Graph!END
    BY <2>12 DEF Counted
  <2> QED BY <2>10, <2>11, <2>13, <2>14, <2>15 DEF Good
<1> QED BY <1>1, <1>2

-----------------------------------------------------------------------------
(* What nodes and routers do to a state.                                   *)

LEMMA AlikeIdle == ASSUME NEW s, NEW t, Good(s), Alike(s, t), Idle(s) PROVE Idle(t)
<1>1. Smooth(t) => Smooth(s)
  BY AlikeKeeps
<1>2. DOMAIN t.walk = DOMAIN s.walk
  BY ListIs DEF Alike, Good, IsState
<1> QED BY <1>1, <1>2 DEF Idle, Alike

\* A write under a key of the graph's leaves a state alike; so does a failed run.
LEMMA WriteIsAlike ==
    ASSUME NEW s, Good(s), NEW k \in Written, NEW v,
           NEW t, t = [s EXCEPT !.data = Graph!Put(@, k, v)]
    PROVE  Alike(s, t)
<1>1. PICK d : d = Graph!Put(s.data, k, v)
  OBVIOUS
<1>2. s = [data |-> s.data, meta |-> s.meta, start |-> s.start, walk |-> s.walk, clean |-> s.clean]
  BY DEF Good, IsState
<1>3. t = [data |-> d, meta |-> s.meta, start |-> s.start, walk |-> s.walk, clean |-> s.clean]
  <2>1. t = [s EXCEPT !.data = d]
    BY <1>1
  <2> QED BY <2>1, <1>2
<1>4. DataKept(s, t)
  <2>1. DOMAIN d = {k} \union DOMAIN s.data /\ \A x \in DOMAIN s.data : x # k => d[x] = s.data[x]
    BY <1>1 DEF Graph!Put
  <2> QED BY <2>1, <1>3 DEF DataKept
<1> QED BY <1>3, <1>4 DEF Alike, Good, IsState

LEMMA SoilIsAlike ==
    ASSUME NEW s, Good(s), NEW t, t = [s EXCEPT !.clean = FALSE]
    PROVE  Alike(s, t) /\ ~t.clean
<1>1. s = [data |-> s.data, meta |-> s.meta, start |-> s.start, walk |-> s.walk, clean |-> s.clean]
  BY DEF Good, IsState
<1>2. t = [data |-> s.data, meta |-> s.meta, start |-> s.start, walk |-> s.walk, clean |-> FALSE]
  BY <1>1
<1> QED BY <1>2 DEF Alike, Good, IsState, DataKept

\* When its node has done its work, all that was handed out is done.
LEMMA WorkKeeps ==
    ASSUME NEW s, Good(s), NEW fr, Busy(s, fr), fr.at = Graph!Top.at, NEW t, t = Graph!Work(s)
    PROVE  Alike(s, t) /\ t.data = s.data /\ Good(t) /\ Idle(t)
<1> DEFINE n == Len(s.walk)
<1>1. IsList(s.walk) /\ n \in Nat /\ DOMAIN s.walk = 1..n
  BY ListIs DEF Good, IsState
<1>2. CASE n > 0 /\ s.walk[n].node = fr.at
  <2>1. PICK e : e = [s.walk[n] EXCEPT !.done = TRUE]
    OBVIOUS
  <2>2. PICK w : w = [s.walk EXCEPT ![n] = e]
    OBVIOUS
  <2>3. s = [data |-> s.data, meta |-> s.meta, start |-> s.start, walk |-> s.walk, clean |-> s.clean]
    BY DEF Good, IsState
  <2>4. t = [data |-> s.data, meta |-> s.meta, start |-> s.start, walk |-> w, clean |-> s.clean]
    <3>1. t = [s EXCEPT !.walk = w]
      BY <1>2, <2>1, <2>2 DEF Graph!Work
    <3> QED BY <3>1, <2>3
  <2>5. Replaces(w, s.walk, n, e)
    <3>1. n \in 1..Len(s.walk)
      BY <1>1, <1>2
    <3> QED BY <3>1, <1>1, <2>2, ReplaceIs
  <2>6. IsList(w) /\ Len(w) = n /\ DOMAIN w = 1..n /\ w[n] = e /\ \A i \in 1..n : i # n => w[i] = s.walk[i]
    BY <2>5, <1>1, ListIs DEF Replaces
  <2>7. /\ IsHandOut(e) /\ e.done
        /\ e.key = s.walk[n].key /\ e.pos = s.walk[n].pos /\ e.node = s.walk[n].node
    <3>1. IsHandOut(s.walk[n])
      BY <1>1, <1>2 DEF Good, IsState
    <3>2. PICK x : x = s.walk[n]
      OBVIOUS
    <3>3. e = [key |-> x.key, pos |-> x.pos, node |-> x.node, done |-> TRUE]
      BY <3>1, <3>2, <2>1 DEF IsHandOut
    <3> QED BY <3>1, <3>2, <3>3 DEF IsHandOut
  <2>8. \A i \in 1..n : IsHandOut(s.walk[i])
    BY <1>1 DEF Good, IsState
  <2>9. Alike(s, t)
    <3>1. DataKept(s, t)
      BY <2>4 DEF DataKept
    <3>2. ASSUME NEW i \in 1..n
          PROVE  /\ IsHandOut(w[i])
                 /\ w[i].key = s.walk[i].key /\ w[i].pos = s.walk[i].pos
                 /\ w[i].node = s.walk[i].node
                 /\ s.walk[i].done => w[i].done
      BY <2>6, <2>7, <2>8
    <3> HIDE DEF n
    <3> QED BY <3>1, <3>2, <1>1, <2>4, <2>6 DEF Alike, n
  <2>10. Idle(t)
    <3>1. Smooth(t) => Smooth(s)
      BY <2>9, AlikeKeeps
    <3>2. Smooth(s) => \A i \in 1..n : i # n => s.walk[i].done
      BY <1>1 DEF Busy
    <3> QED BY <3>1, <3>2, <2>4, <2>6, <2>7 DEF Idle
  <2> QED BY <2>4, <2>9, <2>10, AlikeKeeps
<1>3. CASE ~(n > 0 /\ s.walk[n].node = fr.at)
  <2>1. t = s
    BY <1>3 DEF Graph!Work
  <2>2. Alike(s, t)
    BY <2>1 DEF Alike, DataKept, Good, IsState
  <2>3. Idle(t)
    BY <2>1, <1>3, <1>1 DEF Idle, Busy
  <2> QED BY <2>1, <2>2, <2>3
<1> QED BY <1>2, <1>3

-----------------------------------------------------------------------------
(* What a router leaves.                                                   *)

\* The answer of a router that is no error can be followed.
Follows(s, r, x) ==
    /\ Good(x.state)
    /\ \A fr : (~x.failed /\ fr.pc = "run" /\ fr.at = x.next /\ fr.router = r) =>
        Busy(x.state, fr) /\ EndsRight(x.state, fr)

LEMMA RouterTypesAre ==
    /\ DOMAIN Graph!RequiredStrings =
        {"content_based", "filter", "routing_slip", "recipient_list", "splitter", "aggregator"}
    /\ Graph!PositionRouters = {"routing_slip", "recipient_list", "splitter"}
  BY DEF Graph!RequiredStrings, Graph!PositionRouters

LEMMA AnswersAre ==
    ASSUME NEW n, NEW s
    PROVE  /\ Graph!To(n, s).state = s /\ Graph!To(n, s).next = n /\ ~Graph!To(n, s).failed
           /\ Graph!RouterError(s).state = s /\ Graph!RouterError(s).failed
  BY DEF Graph!To, Graph!RouterError

\* A router that keeps no position leaves a state alike.
LEMMA PlainRouter ==
    ASSUME NEW s, Good(s), Idle(s), NEW r, r.type \notin Graph!PositionRouters,
           NEW x, Alike(s, x.state)
    PROVE  Follows(s, r, x)
<1>1. Good(x.state) /\ Idle(x.state)
  BY AlikeKeeps, AlikeIdle
<1>2. \A fr : fr.pc = "run" => Busy(x.state, fr)
  BY <1>1 DEF Busy, Idle
<1>3. \A fr : fr.router = r => EndsRight(x.state, fr)
  BY DEF EndsRight
<1> QED BY <1>1, <1>2, <1>3 DEF Follows

\* A position router that fails leaves the state as it was.
LEMMA RouterFails ==
    ASSUME NEW s, Good(s), NEW r, NEW x, x = Graph!RouterError(s)
    PROVE  Follows(s, r, x)
  BY AnswersAre DEF Follows

\* A position router that has nothing to hand out.
LEMMA RouterEnds ==
    ASSUME NEW s, Good(s), Idle(s), NEW r \in Counters, NEW x, x = Graph!To(Graph!END, s),
           Counted(s, r.config.pos_key.is) =>
                \A list \in Graph!ListOf(r, s) :
                    IsList(list.is) /\ ~(/\ Graph!ToInt(s.meta, r.config.pos_key.is) >= 0
                                         /\ Graph!ToInt(s.meta, r.config.pos_key.is) < Len(list.is))
    PROVE  Follows(s, r, x)
<1>1. x.state = s
  BY AnswersAre
<1>2. \A fr : fr.pc = "run" => Busy(s, fr)
  BY DEF Busy, Idle
<1>3. ASSUME Counted(s, r.config.pos_key.is)
      PROVE  Exhausted(s, r)
  <2>1. Graph!ToInt(s.meta, r.config.pos_key.is) = Len(s.walk)
    BY <1>3 DEF Good, Steady, Counts, InOrder
  <2>2. Len(s.walk) \in Nat
    BY ListIs DEF Good, IsState
  <2>3. ASSUME NEW list \in Graph!ListOf(r, s)
        PROVE  IsList(list.is) /\ Len(list.is) <= Len(s.walk)
    <3>1. IsList(list.is) /\ ~(Len(s.walk) >= 0 /\ Len(s.walk) < Len(list.is))
      BY <1>3, <2>1, <2>3
    <3>2. Len(list.is) \in Nat
      BY <3>1, ListIs
    <3> QED BY <3>1, <3>2, <2>2
  <2> QED BY <2>3 DEF Exhausted
<1>4. \A fr : fr.router = r => EndsRight(s, fr)
  BY <1>3 DEF EndsRight
<1> QED BY <1>1, <1>2, <1>4 DEF Follows

\* A position router that hands out the next entry.
LEMMA RouterHandsOut ==
    ASSUME NEW s, Good(s), Idle(s), NEW r \in Counters, NEW target,
           NEW x, x = Graph!To(target, Graph!Advance(s, r.config.pos_key.is, target)),
           Graph!KeptApart(r.config.pos_key.is, s) =>
                /\ target # Graph!END
                /\ \E list \in Graph!ListOf(r, s) :
                    IsList(list.is) /\ Graph!ToInt(s.meta, r.config.pos_key.is) < Len(list.is)
    PROVE  Follows(s, r, x)
<1> DEFINE key == r.config.pos_key.is
<1>1. PICK t : t = Graph!Advance(s, key, target)
  OBVIOUS
<1>2. x.state = t /\ x.next = target
  BY <1>1, AnswersAre
<1>3. /\ Good(t) /\ \A fr : (fr.pc = "run" /\ fr.at = target) => Busy(t, fr)
      /\ Counted(t, key) => target # Graph!END
  BY <1>1, AdvanceKeeps
<1>4. \A fr : (fr.router = r /\ fr.at = target) => EndsRight(t, fr)
  BY <1>3 DEF EndsRight
<1> QED BY <1>2, <1>3, <1>4 DEF Follows

\* The lists of a good state are lists, if nothing writes over them.
LEMMA WalkedAreLists ==
    ASSUME NEW s, Good(s), NEW r \in Counters, RouterFits(r), NEW key, Graph!KeptApart(key, s),
           NEW list \in Graph!ListOf(r, s)
    PROVE  IsList(list.is)
<1>1. r.type \in {"routing_slip", "recipient_list", "splitter"}
  BY RouterTypesAre DEF Counters, Graph!Counters
<1>2. CASE r.type = "recipient_list"
  BY <1>2 DEF Graph!ListOf, RouterFits, IsValue
<1>3. CASE r.type = "splitter"
  <2>1. r.config.input_key.is \notin Written
    BY <1>3 DEF Graph!KeptApart, Counters, Written
  <2>2. PICK k \in DOMAIN s.data \ Written : list = s.data[k] /\ list.tag = "list"
    BY <1>3, <2>1 DEF Graph!ListOf
  <2> QED BY <2>2 DEF Good, IsState, IsValue
<1>4. CASE r.type = "routing_slip"
  <2>1. PICK k \in DOMAIN s.meta : list = s.meta[k] /\ list.tag = "list"
    BY <1>4 DEF Graph!ListOf
  <2> QED BY <2>1 DEF Good, IsState, HoldsValues, IsValue
<1> QED BY <1>1, <1>2, <1>3, <1>4

\* The entry at the count of a list is one of it.
LEMMA EntryIs ==
    ASSUME NEW q, IsList(q), NEW n \in Int, n >= 0, n < Len(q)
    PROVE  n + 1 \in DOMAIN q
<1>1. Len(q) \in Nat /\ DOMAIN q = 1..Len(q)
  BY ListIs
<1> QED BY <1>1

\* A slip is walked in the order of its entries.
LEMMA SlipFollows ==
    ASSUME NEW s, Good(s), Idle(s), NEW r \in Counters, RouterFits(r), r.type = "routing_slip",
           NEW x, x = Graph!Route_routing_slip(r.config, s)
    PROVE  Follows(s, r, x)
<1> DEFINE key == r.config.pos_key.is
           k == r.config.slip_key.is
           slip == s.meta[k]
           target == slip.is[Graph!ToInt(s.meta, key) + 1].is
<1>1. Graph!ListOf(r, s) = {v \in {s.meta[y] : y \in {k} \intersect DOMAIN s.meta} : v.tag = "list"}
  BY DEF Graph!ListOf
<1>2. Graph!ToInt(s.meta, key) \in Int
  BY CountIs DEF Good, IsState
<1>3. CASE ~Graph!Has(s.meta, k)
  <2>1. x = Graph!To(Graph!END, s)
    BY <1>3 DEF Graph!Route_routing_slip
  <2>2. Counted(s, key) => Graph!ListOf(r, s) = {}
    BY <1>1, <1>3 DEF Graph!Has, Counted
  <2> QED BY <2>1, <2>2, RouterEnds
<1>4. CASE Graph!Has(s.meta, k) /\ ~Graph!IsStrings(slip)
  <2>1. x = Graph!RouterError(s)
    BY <1>4 DEF Graph!Route_routing_slip
  <2> QED BY <2>1, RouterFails
<1>5. ASSUME Graph!Has(s.meta, k), Graph!IsStrings(slip)
      PROVE  slip \in Graph!ListOf(r, s) /\ Graph!ListOf(r, s) = {slip} /\ IsList(slip.is)
  <2>1. k \in DOMAIN s.meta /\ slip.tag = "list"
    BY <1>5 DEF Graph!Has, Graph!IsStrings
  <2>2. IsValue(slip)
    BY <2>1 DEF Good, IsState, HoldsValues
  <2> QED BY <1>1, <2>1, <2>2 DEF IsValue
<1>6. CASE Graph!Has(s.meta, k) /\ Graph!IsStrings(slip) /\ ~Graph!Within(s, key, slip.is)
  <2>1. x = Graph!To(Graph!END, s)
    BY <1>6 DEF Graph!Route_routing_slip
  <2> HIDE DEF key, slip
  <2>2. \A list \in Graph!ListOf(r, s) :
            IsList(list.is) /\ ~(Graph!ToInt(s.meta, key) >= 0 /\ Graph!ToInt(s.meta, key) < Len(list.is))
    BY <1>5, <1>6 DEF Graph!Within
  <2> USE DEF key, slip
  <2> QED BY <2>1, <2>2, RouterEnds
<1>7. CASE Graph!Has(s.meta, k) /\ Graph!IsStrings(slip) /\ Graph!Within(s, key, slip.is)
  <2>1. x = Graph!To(target, Graph!Advance(s, key, target))
    BY <1>7 DEF Graph!Route_routing_slip
  <2>2. Graph!ToInt(s.meta, key) + 1 \in DOMAIN slip.is /\ Graph!ToInt(s.meta, key) < Len(slip.is)
    <3>1. Graph!ToInt(s.meta, key) >= 0 /\ Graph!ToInt(s.meta, key) < Len(slip.is)
      BY <1>7 DEF Graph!Within
    <3> HIDE DEF key, slip
    <3> QED BY <3>1, <1>2, <1>5, <1>7, EntryIs
  <2>3. Graph!KeptApart(key, s) => target # Graph!END
    BY <1>5, <1>7, <2>2 DEF Graph!KeptApart, Counters
  <2>4. Graph!KeptApart(key, s) =>
            \E list \in Graph!ListOf(r, s) : IsList(list.is) /\ Graph!ToInt(s.meta, key) < Len(list.is)
    BY <1>5, <1>7, <2>2
  <2> QED BY <2>1, <2>3, <2>4, RouterHandsOut
<1> QED BY <1>3, <1>4, <1>6, <1>7

\* So is a recipient list.
LEMMA RecipientsFollow ==
    ASSUME NEW s, Good(s), Idle(s), NEW r \in Counters, RouterFits(r), r.type = "recipient_list",
           NEW x, x = Graph!Route_recipient_list(r.config, s)
    PROVE  Follows(s, r, x)
<1> DEFINE key == r.config.pos_key.is
           list == r.config.recipients
           target == list.is[Graph!ToInt(s.meta, key) + 1].is
<1>1. Graph!ListOf(r, s) = {list} /\ IsList(list.is)
  BY DEF Graph!ListOf, RouterFits, IsValue
<1>2. Graph!ToInt(s.meta, key) \in Int
  BY CountIs DEF Good, IsState
<1>3. CASE ~Graph!Within(s, key, list.is)
  <2>1. x = Graph!To(Graph!END, s)
    BY <1>3 DEF Graph!Route_recipient_list
  <2> HIDE DEF key, list
  <2>2. \A l \in Graph!ListOf(r, s) :
            IsList(l.is) /\ ~(Graph!ToInt(s.meta, key) >= 0 /\ Graph!ToInt(s.meta, key) < Len(l.is))
    BY <1>1, <1>3 DEF Graph!Within
  <2> USE DEF key, list
  <2> QED BY <2>1, <2>2, RouterEnds
<1>4. CASE Graph!Within(s, key, list.is)
  <2>1. x = Graph!To(target, Graph!Advance(s, key, target))
    BY <1>4 DEF Graph!Route_recipient_list
  <2>2. Graph!ToInt(s.meta, key) + 1 \in DOMAIN list.is /\ Graph!ToInt(s.meta, key) < Len(list.is)
    <3>1. Graph!ToInt(s.meta, key) >= 0 /\ Graph!ToInt(s.meta, key) < Len(list.is)
      BY <1>4 DEF Graph!Within
    <3> HIDE DEF key, list
    <3> QED BY <3>1, <1>1, <1>2, EntryIs
  <2>3. Graph!KeptApart(key, s) => target # Graph!END
    BY <1>1, <2>2 DEF Graph!KeptApart, Counters
  <2>4. Graph!KeptApart(key, s) =>
            \E l \in Graph!ListOf(r, s) : IsList(l.is) /\ Graph!ToInt(s.meta, key) < Len(l.is)
    BY <1>1, <2>2
  <2> QED BY <2>1, <2>3, <2>4, RouterHandsOut
<1> QED BY <1>3, <1>4

\* A splitter also gives the item to the node, under a key of its own.
LEMMA SplitterFollows ==
    ASSUME NEW s, Good(s), Idle(s), NEW r \in Counters, RouterFits(r), r.type = "splitter",
           NEW x, x = Graph!Route_splitter(r.config, s)
    PROVE  Follows(s, r, x)
<1> DEFINE key == r.config.pos_key.is
           k == r.config.input_key.is
           items == s.data[k]
           item == items.is[Graph!ToInt(s.meta, key) + 1]
           target == r.config.next.is
<1>1. Graph!ListOf(r, s) = {v \in {s.data[y] : y \in {k} \intersect DOMAIN s.data} : v.tag = "list"}
  BY DEF Graph!ListOf
<1>2. Graph!ToInt(s.meta, key) \in Int
  BY CountIs DEF Good, IsState
<1>3. CASE ~Graph!Has(s.data, k)
  <2>1. x = Graph!To(Graph!END, s)
    BY <1>3 DEF Graph!Route_splitter
  <2>2. Graph!ListOf(r, s) = {}
    <3>1. k \notin DOMAIN s.data
      BY <1>3 DEF Graph!Has, Graph!NoMap
    <3> QED BY <1>1, <3>1
  <2> QED BY <2>1, <2>2, RouterEnds
<1>4. CASE Graph!Has(s.data, k) /\ items.tag # "list"
  <2>1. x = Graph!RouterError(s)
    BY <1>4 DEF Graph!Route_splitter
  <2> QED BY <2>1, RouterFails
<1>5. ASSUME Graph!Has(s.data, k), items.tag = "list"
      PROVE  Graph!ListOf(r, s) = {items}
  <2>1. k \in DOMAIN s.data
    BY <1>5 DEF Graph!Has
  <2> QED BY <1>1, <1>5, <2>1
<1>6. ASSUME Graph!Has(s.data, k), items.tag = "list", Graph!KeptApart(key, s)
      PROVE  IsList(items.is) /\ target # Graph!END
  <2>1. IsList(items.is)
    <3>1. items \in Graph!ListOf(r, s)
      BY <1>5, <1>6
    <3> QED BY <3>1, <1>6, WalkedAreLists
  <2> QED BY <2>1, <1>6 DEF Graph!KeptApart, Counters
<1>7. CASE Graph!Has(s.data, k) /\ items.tag = "list" /\ ~Graph!Within(s, key, items.is)
  <2>1. x = Graph!To(Graph!END, s)
    BY <1>7 DEF Graph!Route_splitter
  <2>2. Counted(s, key) => \A list \in Graph!ListOf(r, s) :
            IsList(list.is) /\ ~(Graph!ToInt(s.meta, key) >= 0 /\ Graph!ToInt(s.meta, key) < Len(list.is))
    <3> HIDE DEF key, items
    <3> QED BY <1>5, <1>6, <1>7 DEF Graph!Within, Counted
  <2> QED BY <2>1, <2>2, RouterEnds
<1>8. CASE Graph!Has(s.data, k) /\ items.tag = "list" /\ Graph!Within(s, key, items.is)
  <2>1. PICK given : given = [s EXCEPT !.data = Graph!Put(@, r.config.item_key.is, item)]
    OBVIOUS
  <2>2. x = Graph!To(target, Graph!Advance(given, key, target))
    BY <1>8, <2>1 DEF Graph!Route_splitter
  <2>3. Alike(s, given)
    <3>1. r.config.item_key.is \in Written
      BY DEF Written, Graph!Written, Counters, Graph!Counters
    <3> QED BY <2>1, <3>1, WriteIsAlike
  <2>4. Good(given) /\ Idle(given) /\ given.meta = s.meta
    BY <2>3, AlikeKeeps, AlikeIdle DEF Alike
  <2>5. ASSUME Graph!KeptApart(key, given)
        PROVE  /\ target # Graph!END
               /\ \E list \in Graph!ListOf(r, given) :
                    IsList(list.is) /\ Graph!ToInt(given.meta, key) < Len(list.is)
    <3>1. Graph!KeptApart(key, s) /\ Graph!ListOf(r, given) = Graph!ListOf(r, s)
      <4>1. DataKept(s, given) /\ MetaKept(s, given, key)
        BY <2>3, AlikeMeta DEF Alike
      <4> QED BY <4>1, <2>5, SameLists
    <3>2. Graph!ToInt(s.meta, key) < Len(items.is)
      BY <1>8 DEF Graph!Within
    <3> QED BY <3>1, <3>2, <2>4, <1>5, <1>6, <1>8
  <2>6. Follows(given, r, x)
    BY <2>2, <2>4, <2>5, RouterHandsOut
  <2> QED BY <2>6 DEF Follows
<1> QED BY <1>3, <1>4, <1>7, <1>8

\* Whatever the router, its answer can be followed.
LEMMA RouterKeeps ==
    ASSUME NEW s, Good(s), Idle(s), NEW r \in Graph!Routers, RouterFits(r), r.type # "none",
           NEW x \in Graph!Routed(r, s)
    PROVE  Follows(s, r, x)
<1>1. Alike(s, s)
  BY DEF Alike, DataKept, Good, IsState
<1>2. CASE r.type \in {"static", "custom", "conditional", "content_based", "filter"}
  <2>1. x.state = s
    <3>1. CASE r.type = "static"
      BY <3>1 DEF Graph!Routed, Graph!To
    <3>2. CASE r.type = "custom"
      BY <3>2 DEF Graph!Routed, Graph!To, Graph!RouterError
    <3>3. CASE r.type = "conditional"
      BY <3>3 DEF Graph!Routed, Graph!To, Graph!Route_conditional
    <3>4. CASE r.type = "content_based"
      BY <3>4 DEF Graph!Routed, Graph!To, Graph!Route_content_based
    <3>5. CASE r.type = "filter"
      <4>1. x = Graph!Route_filter(r.config, s)
        BY <3>5 DEF Graph!Routed
      <4>2. \/ x = Graph!RouterError(s) \/ x = Graph!To(r.config.next.is, s) \/ x = Graph!To(Graph!END, s)
        BY <4>1, Zenon DEF Graph!Route_filter
      <4> QED BY <4>2, AnswersAre
    <3> QED BY <1>2, <3>1, <3>2, <3>3, <3>4, <3>5
  <2>2. r.type \notin Graph!PositionRouters
    BY <1>2, RouterTypesAre
  <2> QED BY <1>1, <2>1, <2>2, PlainRouter
<1>3. CASE r.type = "aggregator"
  <2>1. Alike(s, x.state)
    <3>1. x = Graph!Route_aggregator(r.config, s)
      BY <1>3 DEF Graph!Routed
    <3>2. x.state = s \/ \E v : x.state = [s EXCEPT !.data = Graph!Put(@, r.config.output_key.is, v)]
      BY <3>1 DEF Graph!Route_aggregator, Graph!To, Graph!RouterError
    <3>3. r.config.output_key.is \in Written
      BY <1>3 DEF Written, Graph!Written
    <3>4. CASE x.state # s
      <4>1. PICK v : x.state = [s EXCEPT !.data = Graph!Put(@, r.config.output_key.is, v)]
        BY <3>2, <3>4
      <4> QED BY <4>1, <3>3, WriteIsAlike
    <3> QED BY <3>4, <1>1
  <2>2. r.type \notin Graph!PositionRouters
    BY <1>3, RouterTypesAre
  <2> QED BY <2>1, <2>2, PlainRouter
<1>4. CASE r.type \in Graph!PositionRouters
  <2>1. r \in Counters
    BY <1>4 DEF Counters, Graph!Counters
  <2>2. CASE r.type = "routing_slip"
    BY <2>1, <2>2, SlipFollows DEF Graph!Routed
  <2>3. CASE r.type = "recipient_list"
    BY <2>1, <2>3, RecipientsFollow DEF Graph!Routed
  <2>4. CASE r.type = "splitter"
    BY <2>1, <2>4, SplitterFollows DEF Graph!Routed
  <2> QED BY <1>4, <2>2, <2>3, <2>4, RouterTypesAre
<1> QED BY <1>2, <1>3, <1>4, RouterTypesAre DEF RouterFits

-----------------------------------------------------------------------------
(* Graph.Invoke, step by step.                                             *)

LEMMA TopIs ==
    ASSUME GraphInv, frames # <<>>
    PROVE  /\ Len(frames) \in Nat \ {0} /\ DOMAIN frames = 1..Len(frames)
           /\ Graph!Top = frames[Len(frames)] /\ Len(frames) \in DOMAIN frames
           /\ IsCall(Graph!Top) /\ Works(objs, Graph!Top) /\ Good(objs[Graph!Top.obj])
           /\ Graph!Top.obj \in DOMAIN objs
           /\ Fits(flows) /\ outcome.error # "none"
<1>1. Len(frames) \in Nat /\ DOMAIN frames = 1..Len(frames)
  BY ListIs DEF GraphInv, CallsAre
<1>2. Len(frames) # 0
  BY <1>1 DEF GraphInv, CallsAre, IsList
<1>3. IsCall(frames[Len(frames)]) /\ Works(objs, frames[Len(frames)])
  BY <1>1, <1>2 DEF GraphInv, CallsAre
<1>4. Fits(flows) /\ outcome.error # "none"
  BY DEF GraphInv, OutcomeIs
<1>5. Graph!Top = frames[Len(frames)]
  BY DEF Graph!Top
<1>6. frames[Len(frames)].obj \in DOMAIN objs /\ Good(objs[frames[Len(frames)].obj])
  BY <1>3 DEF Works, GraphInv, StatesAre
<1> QED BY <1>1, <1>2, <1>3, <1>4, <1>5, <1>6

\* A step of the n-th and innermost call, which works on the state o: the
\* outer ones and their states are as they were, and what is new works on the
\* state of the call or on one that is new.
StepsOn(n, o, os, fs) ==
    /\ IsList(os) /\ DOMAIN objs \subseteq DOMAIN os
    /\ \A p \in DOMAIN os : Good(os[p])
    /\ \A p \in DOMAIN objs : p # o => os[p] = objs[p]
    /\ \A p \in DOMAIN os : (p = o \/ p \notin DOMAIN objs) =>
            (Idle(os[p]) \/ \E f \in DOMAIN fs : fs[f].obj = p)
    /\ IsList(fs) /\ n <= Len(fs)
    /\ \A f \in 1..(n - 1) : fs[f] = frames[f]
    /\ \A f \in n..Len(fs) :
            /\ IsCall(fs[f]) /\ Works(os, fs[f]) /\ (f < Len(fs) => OnNode(fs[f]))
            /\ fs[f].obj = o \/ fs[f].obj \notin DOMAIN objs
    /\ \A f, g \in n..Len(fs) : fs[f].obj = fs[g].obj => f = g

LEMMA Moves ==
    ASSUME GraphInv, frames # <<>>, NEW n, n = Len(frames), NEW o, o = Graph!Top.obj,
           NEW os, NEW fs, StepsOn(n, o, os, fs)
    PROVE  StatesAre(os, fs) /\ CallsAre(os, fs)
<1> USE DEF StepsOn
<1>1. /\ n \in Nat \ {0} /\ DOMAIN frames = 1..n /\ frames[n].obj = o
      /\ Len(fs) \in Nat /\ DOMAIN fs = 1..Len(fs)
  BY TopIs, ListIs
<1>2. /\ \A f \in 1..n : IsCall(frames[f]) /\ Works(objs, frames[f])
      /\ \A f \in 1..n : f < n => OnNode(frames[f])
      /\ \A f, g \in 1..n : frames[f].obj = frames[g].obj => f = g
  BY <1>1 DEF GraphInv, CallsAre
<1>3. ASSUME NEW f \in 1..(n - 1)
      PROVE  /\ IsCall(fs[f]) /\ Works(os, fs[f]) /\ OnNode(fs[f])
             /\ fs[f].obj \in DOMAIN objs /\ fs[f].obj # o
  <2>1. f \in 1..n /\ f # n /\ n \in 1..n
    BY <1>1
  <2>2. fs[f] = frames[f] /\ fs[f].obj # o
    BY <2>1, <1>1, <1>2
  <2>3. fs[f].obj \in DOMAIN objs /\ Works(objs, fs[f])
    BY <2>1, <2>2, <1>2 DEF Works
  <2>4. os[fs[f].obj] = objs[fs[f].obj]
    BY <2>2, <2>3
  <2> QED BY <2>1, <2>2, <2>3, <2>4, <1>2, <1>1 DEF Works
<1>4. \A f \in DOMAIN fs : f \in 1..(n - 1) \/ f \in n..Len(fs)
  BY <1>1
<1>5. CallsAre(os, fs)
  <2>1. \A f \in DOMAIN fs : IsCall(fs[f]) /\ Works(os, fs[f])
    BY <1>3, <1>4
  <2>2. \A f \in DOMAIN fs : f < Len(fs) => OnNode(fs[f])
    BY <1>3, <1>4
  <2>3. ASSUME NEW f \in DOMAIN fs, NEW g \in DOMAIN fs, fs[f].obj = fs[g].obj
        PROVE  f = g
    <3>1. CASE f \in 1..(n - 1) /\ g \in 1..(n - 1)
      <4>1. f \in 1..n /\ g \in 1..n /\ frames[f].obj = frames[g].obj
        BY <1>1, <2>3, <3>1
      <4> QED BY <4>1, <1>2
    <3>2. CASE f \in n..Len(fs) /\ g \in n..Len(fs)
      BY <2>3, <3>2
    <3>3. CASE f \in 1..(n - 1) /\ g \in n..Len(fs)
      BY <2>3, <3>3, <1>3
    <3>4. CASE f \in n..Len(fs) /\ g \in 1..(n - 1)
      BY <2>3, <3>4, <1>3
    <3> QED BY <1>4, <3>1, <3>2, <3>3, <3>4
  <2> QED BY <2>1, <2>2, <2>3 DEF CallsAre
<1>6. StatesAre(os, fs)
  <2>1. ASSUME NEW p \in DOMAIN os, \A f \in DOMAIN fs : fs[f].obj # p
        PROVE  Idle(os[p])
    <3>1. CASE p \in DOMAIN objs /\ p # o
      <4>1. \A f \in DOMAIN frames : frames[f].obj # p
        <5> SUFFICES ASSUME NEW f \in 1..n, frames[f].obj = p PROVE FALSE
          BY <1>1
        <5>1. f # n
          BY <3>1, <1>1
        <5>2. f \in 1..(n - 1) /\ f \in DOMAIN fs
          BY <5>1, <1>1
        <5> QED BY <5>2, <2>1
      <4>2. Idle(objs[p])
        BY <3>1, <4>1 DEF GraphInv, StatesAre
      <4> QED BY <4>2, <3>1
    <3>2. CASE p \notin DOMAIN objs \/ p = o
      BY <3>2, <2>1
    <3> QED BY <3>1, <3>2
  <2> QED BY <2>1 DEF StatesAre
<1> QED BY <1>5, <1>6

\* A run that fails leaves the states of its calls soiled.
LEMMA Fails ==
    ASSUME GraphInv, NEW os, IsList(os), DOMAIN os = DOMAIN objs,
           \A p \in DOMAIN os : Good(os[p]),
           \A p \in DOMAIN os : (\A f \in DOMAIN frames : frames[f].obj # p) => os[p] = objs[p],
           NEW left, left = Graph!Soil(os)
    PROVE  StatesAre(left, <<>>) /\ CallsAre(left, <<>>)
<1>1. DOMAIN left = DOMAIN os /\ IsList(left)
  <2>1. DOMAIN os = 1..Len(os) /\ Len(os) \in Nat
    BY ListIs
  <2>2. left = [p \in 1..Len(os) |-> left[p]]
    BY <2>1 DEF Graph!Soil
  <2> QED BY <2>1, <2>2, FunctionIsList
<1>2. ASSUME NEW p \in DOMAIN left
      PROVE  Good(left[p]) /\ Idle(left[p])
  <2>1. CASE \E f \in DOMAIN frames : frames[f].obj = p
    <3>1. PICK s : s = os[p]
      OBVIOUS
    <3>2. left[p] = [s EXCEPT !.clean = FALSE] /\ Good(s)
      BY <2>1, <1>1, <1>2, <3>1 DEF Graph!Soil
    <3>3. Good(left[p]) /\ ~left[p].clean
      BY <3>2, SoilIsAlike, AlikeKeeps
    <3> QED BY <3>3 DEF Idle, Smooth
  <2>2. CASE \A f \in DOMAIN frames : frames[f].obj # p
    <3>1. left[p] = os[p] /\ os[p] = objs[p]
      BY <2>2, <1>1, <1>2 DEF Graph!Soil
    <3>2. Idle(objs[p])
      BY <2>2, <1>1, <1>2 DEF GraphInv, StatesAre
    <3> QED BY <3>1, <3>2, <1>1, <1>2
  <2> QED BY <2>1, <2>2
<1> QED BY <1>1, <1>2, EmptyIsList DEF StatesAre, CallsAre

\* The graph that is run stays as it was loaded, and so does what depends on it.
LEMMA FlowsStay ==
    ASSUME UNCHANGED <<flows, verdict>>, GraphInv,
           NEW os, NEW fs, NEW how, os = objs', fs = frames', how = outcome',
           StatesAre(os, fs), CallsAre(os, fs), OutcomeIs(os, fs, how),
           fs # <<>> => verdict = "compiled"
    PROVE  GraphInv'
<1>1. Graph!Counters' = Graph!Counters /\ Graph!Written' = Graph!Written
  BY DEF Graph!Counters, Graph!Written, Graph!Routers, Graph!Nodes
<1>2. Counters' = Counters /\ Written' = Written /\ Counts' = Counts
  BY <1>1 DEF Counters, Written, Counts
<1>3. \A s, key : Graph!KeptApart(key, s)' <=> Graph!KeptApart(key, s)
  BY <1>1 DEF Graph!KeptApart
<1>4. \A s : Graph!Walked(s)' = Graph!Walked(s)
  BY <1>1 DEF Graph!Walked
<1>5. \A s, key : (Counted(s, key)' <=> Counted(s, key)) /\ (InOrder(s, key)' <=> InOrder(s, key))
  BY <1>3, <1>4 DEF Counted, InOrder
<1>6. \A s : Good(s)' <=> Good(s)
  BY <1>2, <1>5 DEF Good, IsState, Forward, Steady
<1>7. \A s, fr : EndsRight(s, fr)' <=> EndsRight(s, fr)
  BY <1>2, <1>5 DEF EndsRight
<1>8. \A fr : (IsCall(fr)' <=> IsCall(fr)) /\ (OnNode(fr)' <=> OnNode(fr))
  BY DEF IsCall, OnNode
<1>9. StatesAre(objs, frames)'
  BY <1>6 DEF StatesAre
<1>10. CallsAre(objs, frames)'
  BY <1>7, <1>8 DEF CallsAre, Works
<1>11. OutcomeIs(objs, frames, outcome)'
  <2>1. \A s, r : Graph!Processed(s, r)' <=> Graph!Processed(s, r)
    BY <1>3, <1>4 DEF Graph!Processed
  <2> QED BY <1>2, <2>1 DEF OutcomeIs
<1>12. (verdict = "compiled" => Fits(flows))' /\ (frames # <<>> => verdict = "compiled")'
  BY DEF GraphInv, Fits
<1> QED BY <1>9, <1>10, <1>11, <1>12 DEF GraphInv

\* A step that fails gives the run up.
LEMMA FailKeeps ==
    ASSUME GraphInv, frames # <<>>, UNCHANGED <<flows, verdict>>,
           NEW os, IsList(os), DOMAIN os = DOMAIN objs,
           \A p \in DOMAIN os : Good(os[p]),
           \A p \in DOMAIN os : (\A f \in DOMAIN frames : frames[f].obj # p) => os[p] = objs[p],
           objs' = Graph!Soil(os),
           NEW error, error # "none", NEW router, Graph!Give(Graph!Top.obj, error, router)
    PROVE  GraphInv'
<1>1. PICK left : left = objs'
  OBVIOUS
<1>2. StatesAre(left, <<>>) /\ CallsAre(left, <<>>)
  BY <1>1, Fails
<1>3. frames' = <<>> /\ outcome'.error = error
  BY DEF Graph!Give
<1>4. PICK how : how = outcome'
  OBVIOUS
<1>5. OutcomeIs(left, <<>>, how)
  BY <1>3, <1>4 DEF OutcomeIs
<1> QED BY <1>1, <1>2, <1>3, <1>4, <1>5, FlowsStay

\* A call that ends gives its state back to the one that made it, or to the caller of the workflow.
LEMMA GiveKeeps ==
    ASSUME GraphInv, frames # <<>>, UNCHANGED <<flows, verdict, objs>>,
           NEW router, Graph!Give(Graph!Top.obj, "none", router),
           Idle(objs[Graph!Top.obj]),
           router.type \in Graph!PositionRouters =>
                router \in Counters /\ Graph!Processed(objs[Graph!Top.obj], router)
    PROVE  GraphInv'
<1> DEFINE o == Graph!Top.obj
<1>0. PICK n : n = Len(frames)
  OBVIOUS
<1>1. /\ n \in Nat \ {0} /\ DOMAIN frames = 1..n /\ frames[n].obj = o
      /\ o \in DOMAIN objs /\ outcome.error # "none"
  BY <1>0, TopIs
<1>2. PICK fs, how : fs = frames' /\ how = outcome'
  OBVIOUS
<1>3. \A p \in DOMAIN objs : (\A f \in 1..(n - 1) : frames[f].obj # p) => Idle(objs[p])
  <2> SUFFICES ASSUME NEW p \in DOMAIN objs, \A f \in 1..(n - 1) : frames[f].obj # p, p # o
               PROVE  Idle(objs[p])
    OBVIOUS
  <2>1. \A f \in DOMAIN frames : frames[f].obj # p
    <3>1. \A f \in 1..n : f = n \/ f \in 1..(n - 1)
      BY <1>1
    <3> QED BY <3>1, <1>1
  <2> QED BY <2>1 DEF GraphInv, StatesAre
<1>4. CASE n = 1
  <2>1. fs = <<>> /\ how.error = "none" /\ how.state = o /\ how.by = router
    BY <1>0, <1>2, <1>4 DEF Graph!Give
  <2>2. StatesAre(objs, fs)
    <3>1. \A f \in 1..(n - 1) : FALSE
      BY <1>4
    <3> QED BY <3>1, <1>3 DEF GraphInv, StatesAre
  <2>3. CallsAre(objs, fs)
    BY <2>1, EmptyIsList DEF CallsAre
  <2>4. OutcomeIs(objs, fs, how)
    BY <2>1, <1>1 DEF OutcomeIs
  <2> QED BY <1>2, <2>1, <2>2, <2>3, <2>4, FlowsStay
<1>5. CASE n # 1
  <2>1. PICK q : q = SubSeq(frames, 1, n - 1)
    OBVIOUS
  <2>2. PICK fr : fr = frames[n - 1]
    OBVIOUS
  <2>3. PICK e : e = [fr EXCEPT !.pc = "extract"]
    OBVIOUS
  <2>4. Begins(q, frames, n - 1)
    <3>1. IsList(frames) /\ n - 1 \in 0..Len(frames)
      BY <1>0, <1>1 DEF GraphInv, CallsAre
    <3> QED BY <3>1, <2>1, FrontIs
  <2>5. IsList(q) /\ Len(q) = n - 1 /\ \A f \in 1..(n - 1) : q[f] = frames[f]
    BY <2>4 DEF Begins
  <2>6. n - 1 \in 1..(n - 1) /\ n - 1 \in 1..n /\ n - 1 < n
    BY <1>1, <1>5
  <2>7. fs = [q EXCEPT ![n - 1] = e] /\ how = outcome
    <3>1. fs = [q EXCEPT ![n - 1].pc = "extract"] /\ how = outcome
      BY <1>0, <1>2, <1>5, <2>1 DEF Graph!Give
    <3>2. q[n - 1] = fr
      BY <2>2, <2>5, <2>6
    <3> QED BY <3>1, <3>2, <2>3
  <2>8. Replaces(fs, q, n - 1, e)
    <3>1. n - 1 \in 1..Len(q)
      BY <2>5, <2>6
    <3> QED BY <3>1, <2>5, <2>7, ReplaceIs
  <2>9. /\ IsList(fs) /\ Len(fs) = n - 1 /\ DOMAIN fs = 1..(n - 1) /\ fs[n - 1] = e
        /\ \A f \in 1..(n - 1) : f # n - 1 => fs[f] = frames[f]
    <3>1. IsList(fs) /\ Len(fs) = n - 1 /\ fs[n - 1] = e /\ \A f \in 1..(n - 1) : f # n - 1 => fs[f] = q[f]
      BY <2>8, <2>5 DEF Replaces
    <3> QED BY <3>1, <2>5, ListIs
  <2>10. /\ \A f \in 1..n : IsCall(frames[f]) /\ Works(objs, frames[f])
         /\ \A f \in 1..n : f < n => OnNode(frames[f])
         /\ \A f, g \in 1..n : frames[f].obj = frames[g].obj => f = g
    BY <1>1 DEF GraphInv, CallsAre
  <2>11. /\ e.flow = fr.flow /\ e.at = fr.at /\ e.obj = fr.obj /\ e.pc = "extract"
         /\ IsCall(e) /\ OnNode(e) /\ Works(objs, e)
    <3>1. IsCall(fr) /\ Works(objs, fr) /\ OnNode(fr)
      BY <2>2, <2>6, <2>10
    <3>2. e = [flow |-> fr.flow, at |-> fr.at, obj |-> fr.obj, pc |-> "extract", router |-> fr.router]
      BY <3>1, <2>3 DEF IsCall
    <3>3. IsCall(e) /\ OnNode(e)
      BY <3>1, <3>2 DEF IsCall, OnNode
    <3>4. Works(objs, e)
      BY <3>1, <3>2 DEF Works, Busy, EndsRight
    <3> QED BY <3>2, <3>3, <3>4
  <2>12. \A f \in 1..(n - 1) : f \in 1..n /\ fs[f].obj = frames[f].obj
    BY <1>1, <2>2, <2>9, <2>11
  <2>13. CallsAre(objs, fs)
    <3>1. \A f \in 1..(n - 1) : IsCall(fs[f]) /\ Works(objs, fs[f]) /\ OnNode(fs[f])
      <4>1. \A f \in 1..(n - 1) : f \in 1..n /\ f < n
        BY <1>1
      <4> QED BY <4>1, <2>9, <2>10, <2>11
    <3>2. \A f, g \in 1..(n - 1) : fs[f].obj = fs[g].obj => f = g
      BY <2>10, <2>12
    <3> QED BY <3>1, <3>2, <2>9 DEF CallsAre
  <2>14. StatesAre(objs, fs)
    <3>1. ASSUME NEW p \in DOMAIN objs, \A f \in DOMAIN fs : fs[f].obj # p
          PROVE  Idle(objs[p])
      BY <3>1, <2>9, <2>12, <1>3
    <3> QED BY <3>1 DEF GraphInv, StatesAre
  <2>15. OutcomeIs(objs, fs, how)
    BY <2>7, <1>1 DEF OutcomeIs
  <2>16. verdict = "compiled"
    BY DEF GraphInv
  <2> QED BY <1>2, <2>13, <2>14, <2>15, <2>16, FlowsStay
<1> QED BY <1>4, <1>5

\* A node that has worked leaves the call at its router.
LEMMA RouteNext ==
    ASSUME GraphInv, frames # <<>>, OnNode(Graph!Top), NEW o, NEW fs, fs = frames', Graph!GotoRoute(o)
    PROVE  \E fr : /\ Replaces(fs, frames, Len(frames), fr) /\ IsCall(fr)
                   /\ fr.pc = "route" /\ fr.obj = o
<1> DEFINE n == Len(frames)
<1>1. IsList(frames) /\ n \in 1..Len(frames) /\ IsCall(Graph!Top) /\ Graph!Top = frames[n]
  BY TopIs DEF GraphInv, CallsAre
<1>2. PICK top : top = Graph!Top
  OBVIOUS
<1>3. PICK fr : fr = [flow |-> top.flow, at |-> top.at, obj |-> o, pc |-> "route", router |-> top.router]
  OBVIOUS
<1>4. fs = [frames EXCEPT ![n] = fr]
  <2>1. top = [flow |-> top.flow, at |-> top.at, obj |-> top.obj, pc |-> top.pc, router |-> top.router]
    BY <1>1, <1>2 DEF IsCall
  <2>2. fs = [frames EXCEPT ![n].pc = "route", ![n].obj = o]
    BY DEF Graph!GotoRoute
  <2>3. fs = [frames EXCEPT ![n] = [top EXCEPT !.pc = "route", !.obj = o]]
    BY <2>2, <1>1, <1>2
  <2>4. PICK e : e = [top EXCEPT !.pc = "route", !.obj = o]
    OBVIOUS
  <2>5. e = [flow |-> top.flow, at |-> top.at, obj |-> o, pc |-> "route", router |-> top.router]
    BY <2>1, <2>4
  <2> QED BY <2>3, <2>4, <2>5, <1>3
<1>5. Replaces(fs, frames, n, fr)
  BY <1>1, <1>4, ReplaceIs
<1>6. IsCall(fr)
  BY <1>1, <1>2, <1>3 DEF IsCall, OnNode
<1> QED BY <1>3, <1>5, <1>6

LEMMA TopWorks ==
    ASSUME GraphInv, frames # <<>>, OnNode(Graph!Top), UNCHANGED <<flows, verdict, outcome>>,
           NEW t, Good(t), Idle(t), objs' = [objs EXCEPT ![Graph!Top.obj] = t],
           Graph!GotoRoute(Graph!Top.obj)
    PROVE  GraphInv'
<1> DEFINE o == Graph!Top.obj
<1>0. PICK n : n = Len(frames)
  OBVIOUS
<1>1. n \in Nat \ {0} /\ DOMAIN frames = 1..n /\ o \in DOMAIN objs /\ outcome.error # "none"
  BY <1>0, TopIs
<1>2. PICK os, fs : os = objs' /\ fs = frames'
  OBVIOUS
<1>3. PICK fr : Replaces(fs, frames, n, fr) /\ IsCall(fr) /\ fr.pc = "route" /\ fr.obj = o
  BY <1>0, <1>2, RouteNext
<1>4. /\ IsList(fs) /\ Len(fs) = n /\ DOMAIN fs = 1..n /\ fs[n] = fr
      /\ \A f \in 1..n : f # n => fs[f] = frames[f]
  BY <1>0, <1>1, <1>3, ListIs DEF Replaces
<1>5. IsList(os) /\ DOMAIN os = DOMAIN objs /\ os[o] = t /\ \A p \in DOMAIN objs : p # o => os[p] = objs[p]
  <2>1. IsList(objs) /\ DOMAIN objs = 1..Len(objs)
    BY ListIs DEF GraphInv, StatesAre
  <2>2. Replaces(os, objs, o, t)
    BY <2>1, <1>1, <1>2, ReplaceIs
  <2> QED BY <2>1, <2>2, ListIs DEF Replaces
<1>6. \A p \in DOMAIN os : Good(os[p])
  BY <1>5 DEF GraphInv, StatesAre
<1>7. Works(os, fr)
  BY <1>1, <1>3, <1>5 DEF Works, Busy, Idle, EndsRight
<1>8. StatesAre(os, fs) /\ CallsAre(os, fs)
  <2>1. \A f \in n..Len(fs) : f = n
    BY <1>1, <1>4
  <2>2. \A f \in n..Len(fs) : /\ IsCall(fs[f]) /\ Works(os, fs[f]) /\ (f < Len(fs) => OnNode(fs[f]))
                              /\ fs[f].obj = o
    BY <2>1, <1>1, <1>3, <1>4, <1>7
  <2>3. \A f \in 1..(n - 1) : fs[f] = frames[f]
    BY <1>1, <1>4
  <2>4. n <= Len(fs) /\ \A p \in DOMAIN os : (p = o \/ p \notin DOMAIN objs) => Idle(os[p])
    BY <1>1, <1>4, <1>5
  <2>5. \A f, g \in n..Len(fs) : f = g
    BY <2>1
  <2>6. DOMAIN objs \subseteq DOMAIN os
    BY <1>5
  <2>7. StepsOn(n, o, os, fs)
    BY <2>2, <2>3, <2>4, <2>5, <2>6, <1>4, <1>5, <1>6 DEF StepsOn
  <2> QED BY <1>0, <2>7, Moves
<1>9. OutcomeIs(os, fs, outcome') /\ verdict = "compiled"
  BY <1>1 DEF OutcomeIs, GraphInv
<1> QED BY <1>2, <1>8, <1>9, FlowsStay

-----------------------------------------------------------------------------
(* One lemma for each step.                                                *)

LEMMA InvokeKeeps == ASSUME GraphInv, NEW o \in DOMAIN objs, Graph!Invoke(o) PROVE GraphInv'
<1>1. PICK fr : fr = [flow |-> "main", at |-> flows.main.entry, obj |-> o, pc |-> "run",
                      router |-> Graph!Unrouted]
  OBVIOUS
<1>2. PICK fs : fs = <<fr>>
  OBVIOUS
<1>3. /\ frames = <<>> /\ frames' = fs /\ verdict = "compiled"
      /\ UNCHANGED <<flows, verdict, objs>> /\ outcome' = Graph!NotRun
  BY <1>1, <1>2 DEF Graph!Invoke, Graph!Running
<1>4. IsList(fs) /\ DOMAIN fs = 1..1 /\ fs[1] = fr /\ Len(fs) = 1
  BY <1>2, OneIsList
<1>5. "main" \in DOMAIN flows
  BY <1>3 DEF GraphInv, Fits
<1>6. IsCall(fr)
  BY <1>1, <1>5 DEF IsCall
<1>7. Works(objs, fr)
  <2>1. Idle(objs[o])
    BY <1>3 DEF GraphInv, StatesAre
  <2>2. fr.router.type \notin Graph!PositionRouters
    BY <1>1, RouterTypesAre DEF Graph!Unrouted
  <2> QED BY <1>1, <2>1, <2>2 DEF Works, Busy, Idle, EndsRight
<1>8. CallsAre(objs, fs)
  BY <1>4, <1>6, <1>7 DEF CallsAre
<1>9. StatesAre(objs, fs)
  BY <1>3 DEF GraphInv, StatesAre
<1>10. OutcomeIs(objs, fs, Graph!NotRun)
  BY DEF OutcomeIs, Graph!NotRun
<1> QED BY <1>3, <1>8, <1>9, <1>10, FlowsStay

LEMMA CancelKeeps == ASSUME GraphInv, Graph!Cancel PROVE GraphInv'
<1>1. UNCHANGED <<flows, verdict, objs, frames, outcome>>
  BY DEF Graph!Cancel
<1> QED BY <1>1, FlowsStay DEF GraphInv

LEMMA StepFails ==
    ASSUME GraphInv, Graph!Running, NEW error, error # "none", Graph!Fail(error), UNCHANGED <<flows, verdict>>
    PROVE  GraphInv'
<1>1. /\ frames # <<>> /\ objs' = Graph!Soil(objs)
      /\ Graph!Give(Graph!Top.obj, error, Graph!Top.router)
  BY DEF Graph!Running, Graph!Fail
<1>2. IsList(objs) /\ \A p \in DOMAIN objs : Good(objs[p])
  BY DEF GraphInv, StatesAre
<1> QED BY <1>1, <1>2, FailKeeps

LEMMA ChecksKeep ==
    ASSUME GraphInv, Graph!CheckContext \/ Graph!MissingNode \/ Graph!NodeFails
    PROVE  GraphInv'
<1>1. CASE Graph!CheckContext
  <2>1. Graph!Running /\ Graph!Fail("cancelled") /\ UNCHANGED <<flows, verdict>>
    BY <1>1 DEF Graph!CheckContext
  <2> QED BY <2>1, StepFails
<1>2. CASE Graph!MissingNode
  <2>1. Graph!Running /\ Graph!Fail("missing") /\ UNCHANGED <<flows, verdict>>
    BY <1>2 DEF Graph!MissingNode
  <2> QED BY <2>1, StepFails
<1>3. CASE Graph!NodeFails
  <2>1. Graph!Running /\ Graph!Fail("node") /\ UNCHANGED <<flows, verdict>>
    BY <1>3 DEF Graph!NodeFails, Graph!Enter
  <2> QED BY <2>1, StepFails
<1> QED BY <1>1, <1>2, <1>3

LEMMA EnterIs ==
    ASSUME GraphInv, NEW kinds, Graph!Enter(kinds)
    PROVE  /\ frames # <<>> /\ OnNode(Graph!Top) /\ Graph!Here \in Graph!Nodes
           /\ Graph!Here.run \in kinds
<1>1. frames # <<>> /\ Graph!Top.at \in DOMAIN Graph!Flow.nodes /\ Graph!Here.run \in kinds
  BY DEF Graph!Enter, Graph!Running
<1>2. Graph!Top.flow \in DOMAIN flows
  BY <1>1, TopIs DEF IsCall
<1> QED BY <1>1, <1>2 DEF OnNode, Graph!Nodes, Graph!Here, Graph!Flow

\* The state the innermost call works on, when its node has done its work.
LEMMA TopWorked ==
    ASSUME GraphInv, frames # <<>>, NEW t, t = Graph!Work(objs[Graph!Top.obj])
    PROVE  Good(t) /\ Idle(t)
<1>1. Good(objs[Graph!Top.obj]) /\ Busy(objs[Graph!Top.obj], Graph!Top)
  BY TopIs DEF Works
<1> QED BY <1>1, WorkKeeps

LEMMA RunLeafKeeps == ASSUME GraphInv, Graph!RunLeaf PROVE GraphInv'
<1>1. /\ frames # <<>> /\ OnNode(Graph!Top) /\ Graph!Here \in Graph!Nodes
      /\ UNCHANGED <<flows, verdict, outcome>> /\ Graph!GotoRoute(Graph!Top.obj)
  BY EnterIs DEF Graph!RunLeaf
<1>2. PICK worked : worked = Graph!Work(objs[Graph!Top.obj])
  OBVIOUS
<1>3. Good(worked) /\ Idle(worked)
  BY <1>1, <1>2, TopWorked
<1>4. PICK written : written = IF Graph!Here.output = Graph!Blank THEN worked.data
                               ELSE Graph!Put(worked.data, Graph!Here.output, Graph!Str("out"))
  OBVIOUS
<1>5. PICK t : t = [worked EXCEPT !.data = written]
  OBVIOUS
<1>6. objs' = [objs EXCEPT ![Graph!Top.obj] = t]
  BY <1>2, <1>4, <1>5 DEF Graph!RunLeaf
<1>7. Good(t) /\ Idle(t)
  <2>1. CASE Graph!Here.output = Graph!Blank
    <3>1. worked = [data |-> worked.data, meta |-> worked.meta, start |-> worked.start,
                    walk |-> worked.walk, clean |-> worked.clean]
      BY <1>3 DEF Good, IsState
    <3>2. t = worked
      BY <2>1, <1>4, <1>5, <3>1
    <3> QED BY <3>2, <1>3
  <2>2. CASE Graph!Here.output # Graph!Blank
    <3>1. t = [worked EXCEPT !.data = Graph!Put(@, Graph!Here.output, Graph!Str("out"))]
      BY <2>2, <1>4, <1>5
    <3>2. Graph!Here.output \in Written
      BY <1>1 DEF Written, Graph!Written
    <3>3. Alike(worked, t)
      BY <3>1, <3>2, <1>3, WriteIsAlike
    <3> QED BY <3>3, <1>3, AlikeKeeps, AlikeIdle
  <2> QED BY <2>1, <2>2
<1> QED BY <1>1, <1>6, <1>7, TopWorks

LEMMA ExtractKeeps == ASSUME GraphInv, Graph!Extract PROVE GraphInv'
<1>1. Graph!Running /\ Graph!Top.pc = "extract" /\ UNCHANGED <<flows, verdict>> /\ frames # <<>>
  BY DEF Graph!Extract, Graph!Running
<1>2. CASE Graph!Fail("node")
  BY <1>1, <1>2, StepFails
<1>3. CASE ~Graph!Fail("node")
  <2>1. /\ objs' = [objs EXCEPT ![Graph!Top.obj] = Graph!Work(@)]
        /\ Graph!GotoRoute(Graph!Top.obj) /\ UNCHANGED outcome
    BY <1>3 DEF Graph!Extract
  <2>2. OnNode(Graph!Top)
    BY <1>1, TopIs DEF IsCall
  <2>3. PICK t : t = Graph!Work(objs[Graph!Top.obj])
    OBVIOUS
  <2>4. Good(t) /\ Idle(t)
    BY <1>1, <2>3, TopWorked
  <2>5. objs' = [objs EXCEPT ![Graph!Top.obj] = t]
    BY <2>1, <2>3
  <2> QED BY <1>1, <2>1, <2>2, <2>4, <2>5, TopWorks
<1> QED BY <1>2, <1>3

\* One more state u, the m-th, and the state o has become t.
Grows(os, m, o, t, u) ==
    /\ IsList(os) /\ m \in Nat \ {0} /\ DOMAIN objs = 1..(m - 1)
    /\ DOMAIN os = 1..m /\ m \notin DOMAIN objs
    /\ os[o] = t /\ os[m] = u
    /\ \A p \in DOMAIN objs : p # o => os[p] = objs[p]
    /\ \A p \in DOMAIN os : Good(os[p])

LEMMA StateAdded ==
    ASSUME GraphInv, frames # <<>>, NEW o, o = Graph!Top.obj,
           NEW t, Good(t), NEW u, Good(u),
           NEW os, os = Append([objs EXCEPT ![o] = t], u)
    PROVE  Grows(os, Len(objs) + 1, o, t, u)
<1>1. PICK n : n = Len(objs)
  OBVIOUS
<1>2. IsList(objs) /\ n \in Nat /\ DOMAIN objs = 1..n /\ o \in 1..n /\ \A p \in 1..n : Good(objs[p])
  BY <1>1, TopIs, ListIs DEF GraphInv, StatesAre
<1>3. PICK q : q = [objs EXCEPT ![o] = t]
  OBVIOUS
<1>4. Replaces(q, objs, o, t)
  BY <1>1, <1>2, <1>3, ReplaceIs
<1>5. IsList(q) /\ Len(q) = n /\ q[o] = t /\ \A p \in 1..n : p # o => q[p] = objs[p]
  BY <1>1, <1>2, <1>4 DEF Replaces
<1>6. Extends(os, q, u)
  BY <1>3, <1>5, AppendIs
<1>7. IsList(os) /\ Len(os) = n + 1 /\ os[n + 1] = u /\ \A p \in 1..n : os[p] = q[p]
  BY <1>5, <1>6 DEF Extends
<1>8. DOMAIN os = 1..(n + 1) /\ n + 1 \notin 1..n
  BY <1>2, <1>7, ListIs
<1>9. \A p \in 1..(n + 1) : Good(os[p])
  BY <1>2, <1>5, <1>7
<1>10. n + 1 \in Nat \ {0} /\ (n + 1) - 1 = n /\ os[o] = t
  BY <1>2, <1>5, <1>7
<1> QED BY <1>1, <1>2, <1>5, <1>7, <1>8, <1>9, <1>10 DEF Grows

LEMMA RunCustomKeeps == ASSUME GraphInv, NEW copies \in BOOLEAN, Graph!RunCustom(copies) PROVE GraphInv'
<1>1. frames # <<>> /\ OnNode(Graph!Top) /\ UNCHANGED <<flows, verdict, outcome>>
  BY EnterIs DEF Graph!RunCustom
<1>2. PICK t : t = Graph!Work(objs[Graph!Top.obj])
  OBVIOUS
<1>3. Good(t) /\ Idle(t)
  BY <1>1, <1>2, TopWorked
<1>4. CASE ~copies
  <2>1. objs' = [objs EXCEPT ![Graph!Top.obj] = t] /\ Graph!GotoRoute(Graph!Top.obj)
    BY <1>2, <1>4 DEF Graph!RunCustom
  <2> QED BY <2>1, <1>1, <1>3, TopWorks
<1>5. CASE copies
  <2> DEFINE o == Graph!Top.obj
  <2>1. PICK n, m : n = Len(frames) /\ m = Len(objs) + 1
    OBVIOUS
  <2>2. PICK os, fs : os = objs' /\ fs = frames'
    OBVIOUS
  <2>3. os = Append([objs EXCEPT ![o] = t], t) /\ Graph!GotoRoute(m)
    BY <1>2, <1>5, <2>1, <2>2 DEF Graph!RunCustom
  <2>4. Grows(os, m, o, t, t)
    BY <1>1, <1>3, <2>1, <2>3, StateAdded
  <2>5. PICK fr : Replaces(fs, frames, n, fr) /\ IsCall(fr) /\ fr.pc = "route" /\ fr.obj = m
    BY <1>1, <2>1, <2>2, <2>3, RouteNext
  <2>6. n \in Nat \ {0} /\ DOMAIN frames = 1..n /\ outcome.error # "none"
    BY <1>1, <2>1, TopIs
  <2>7. /\ IsList(fs) /\ Len(fs) = n /\ fs[n] = fr
        /\ \A f \in 1..n : f # n => fs[f] = frames[f]
    BY <2>1, <2>5, <2>6 DEF Replaces
  <2>8. Works(os, fr)
    BY <1>3, <2>4, <2>5 DEF Works, Busy, Idle, EndsRight, Grows
  <2>9. StepsOn(n, o, os, fs)
    <3>1. \A f \in n..Len(fs) : f = n
      BY <2>6, <2>7
    <3>2. \A f \in n..Len(fs) : /\ IsCall(fs[f]) /\ Works(os, fs[f]) /\ (f < Len(fs) => OnNode(fs[f]))
                                /\ fs[f].obj \notin DOMAIN objs
      BY <3>1, <2>4, <2>5, <2>6, <2>7, <2>8 DEF Grows
    <3>3. \A f \in 1..(n - 1) : fs[f] = frames[f]
      BY <2>6, <2>7
    <3>4. \A p \in DOMAIN os : (p = o \/ p \notin DOMAIN objs) => Idle(os[p])
      <4>1. \A p \in 1..m : p \in 1..(m - 1) \/ p = m
        BY <2>4 DEF Grows
      <4> QED BY <4>1, <1>3, <2>4 DEF Grows
    <3>5. \A f, g \in n..Len(fs) : f = g
      BY <3>1
    <3>6. DOMAIN objs \subseteq DOMAIN os
      BY <2>4 DEF Grows
    <3>7. n <= Len(fs)
      BY <2>6, <2>7
    <3> QED BY <3>2, <3>3, <3>4, <3>5, <3>6, <3>7, <2>4, <2>7 DEF StepsOn, Grows
  <2>10. StatesAre(os, fs) /\ CallsAre(os, fs)
    BY <1>1, <2>1, <2>9, Moves
  <2>11. OutcomeIs(os, fs, outcome') /\ verdict = "compiled"
    BY <1>1, <2>6 DEF OutcomeIs, GraphInv
  <2> QED BY <1>1, <2>2, <2>10, <2>11, FlowsStay
<1> QED BY <1>4, <1>5

\* A new state is good, and nobody works on it.
LEMMA FreshKeeps ==
    ASSUME NEW data, NEW meta, HoldsValues(meta), \A k \in DOMAIN data : IsValue(data[k]),
           NEW u, u = Graph!Fresh(data, meta)
    PROVE  Good(u) /\ Idle(u)
<1>1. u = [data |-> data, meta |-> meta, start |-> meta, walk |-> <<>>, clean |-> TRUE]
  BY DEF Graph!Fresh
<1>2. IsList(<<>>) /\ Len(<<>>) = 0 /\ DOMAIN <<>> = {}
  BY EmptyIsList
<1>3. IsState(u) /\ Forward(u) /\ Idle(u)
  BY <1>1, <1>2 DEF IsState, Forward, Idle
<1>4. Steady(u)
  BY <1>1, <1>2 DEF Steady, Counted, InOrder
<1> QED BY <1>3, <1>4 DEF Good

LEMMA EnterSubgraphKeeps == ASSUME GraphInv, Graph!EnterSubgraph PROVE GraphInv'
<1>1. /\ frames # <<>> /\ OnNode(Graph!Top) /\ Graph!Here \in Graph!Nodes /\ Graph!Here.run = "sub"
      /\ UNCHANGED <<flows, verdict, outcome>>
  <2>1. Graph!Enter({"sub"}) /\ UNCHANGED <<flows, verdict, outcome>>
    BY DEF Graph!EnterSubgraph
  <2> QED BY <2>1, EnterIs
<1> DEFINE o == Graph!Top.obj
<1>2. PICK n, m : n = Len(frames) /\ m = Len(objs) + 1
  OBVIOUS
<1>3. PICK os, fs : os = objs' /\ fs = frames'
  OBVIOUS
<1>4. PICK meta : meta = [k \in {"pos"} |-> Graph!Num(0)]
  OBVIOUS
<1>5. PICK u : u = Graph!Fresh(Graph!NoMap, meta)
  OBVIOUS
<1>6. PICK fr : fr = [flow |-> "inner", at |-> flows["inner"].entry, obj |-> m, pc |-> "run",
                      router |-> Graph!Unrouted]
  OBVIOUS
<1>7. os = Append(objs, u) /\ fs = Append(frames, fr)
  BY <1>2, <1>3, <1>4, <1>5, <1>6 DEF Graph!EnterSubgraph
<1>8. /\ n \in Nat \ {0} /\ DOMAIN frames = 1..n /\ IsList(frames) /\ outcome.error # "none"
      /\ frames[n] = Graph!Top /\ o \in DOMAIN objs /\ Fits(flows)
      /\ IsCall(Graph!Top)
  BY <1>1, <1>2, TopIs DEF GraphInv, CallsAre
<1>9. "inner" \in DOMAIN flows
  <2>1. Graph!Top.flow \in DOMAIN flows /\ Graph!Top.at \in DOMAIN flows[Graph!Top.flow].nodes
    BY <1>1, <1>8 DEF IsCall, OnNode
  <2>2. flows[Graph!Top.flow].nodes[Graph!Top.at].run = "sub"
    BY <1>1 DEF Graph!Here, Graph!Flow
  <2> QED BY <2>1, <2>2, <1>8 DEF Fits
<1>10. Good(u) /\ Idle(u)
  <2>1. HoldsValues(meta)
    BY <1>4 DEF HoldsValues, IsValue, Graph!Num
  <2>2. \A k \in DOMAIN Graph!NoMap : IsValue(Graph!NoMap[k])
    BY DEF Graph!NoMap
  <2> QED BY <1>5, <2>1, <2>2, FreshKeeps
<1>11. Grows(os, m, o, objs[o], u)
  <2>1. objs = [objs EXCEPT ![o] = objs[o]]
    <3>1. IsList(objs)
      BY DEF GraphInv, StatesAre
    <3> QED BY <3>1 DEF IsList
  <2>2. os = Append([objs EXCEPT ![o] = objs[o]], u)
    BY <2>1, <1>7
  <2>3. Good(objs[o])
    BY <1>1, TopIs
  <2> QED BY <2>2, <2>3, <1>1, <1>2, <1>10, StateAdded
<1>12. /\ IsList(fs) /\ Len(fs) = n + 1 /\ fs[n + 1] = fr /\ fs[n] = Graph!Top
       /\ \A f \in 1..(n - 1) : fs[f] = frames[f]
  <2>1. Extends(fs, frames, fr)
    BY <1>7, <1>8, AppendIs
  <2>2. IsList(fs) /\ Len(fs) = n + 1 /\ fs[n + 1] = fr /\ \A f \in 1..n : fs[f] = frames[f]
    BY <2>1, <1>2 DEF Extends
  <2> QED BY <2>2, <1>8
<1>13. IsCall(fr)
  BY <1>6, <1>9 DEF IsCall
<1>14. Works(os, fr)
  <2>1. fr.router.type \notin Graph!PositionRouters
    BY <1>6, RouterTypesAre DEF Graph!Unrouted
  <2>2. fr.obj = m /\ m \in DOMAIN os /\ os[m] = u
    BY <1>6, <1>11 DEF Grows
  <2> QED BY <2>1, <2>2, <1>10 DEF Works, Busy, Idle, EndsRight
<1>15. Works(os, Graph!Top)
  <2>1. Works(objs, Graph!Top)
    BY <1>1, TopIs
  <2>2. o \in DOMAIN os /\ os[o] = objs[o]
    <3>1. \A p \in 1..(m - 1) : p \in 1..m
      BY <1>11 DEF Grows
    <3> QED BY <3>1, <1>8, <1>11 DEF Grows
  <2> QED BY <2>1, <2>2 DEF Works
<1>16. StepsOn(n, o, os, fs)
  <2>1. \A f \in n..Len(fs) : f = n \/ f = n + 1
    BY <1>8, <1>12
  <2>2. fr.obj = m /\ m \notin DOMAIN objs
    BY <1>6, <1>11 DEF Grows
  <2>3. \A f \in n..Len(fs) : /\ IsCall(fs[f]) /\ Works(os, fs[f]) /\ (f < Len(fs) => OnNode(fs[f]))
                              /\ fs[f].obj = o \/ fs[f].obj \notin DOMAIN objs
    <3>1. ~(n + 1 < Len(fs))
      BY <1>8, <1>12
    <3> QED BY <3>1, <2>1, <2>2, <1>1, <1>8, <1>12, <1>13, <1>14, <1>15
  <2>4. \A f, g \in n..Len(fs) : fs[f].obj = fs[g].obj => f = g
    BY <2>1, <2>2, <1>8, <1>12
  <2>5. \A p \in DOMAIN os : (p = o \/ p \notin DOMAIN objs) =>
            (Idle(os[p]) \/ \E f \in DOMAIN fs : fs[f].obj = p)
    <3>1. \A p \in 1..m : p \in 1..(m - 1) \/ p = m
      BY <1>11 DEF Grows
    <3>2. n \in DOMAIN fs
      BY <1>8, <1>12, ListIs
    <3> QED BY <3>1, <3>2, <1>10, <1>11, <1>12 DEF Grows
  <2>6. n <= Len(fs)
    BY <1>8, <1>12
  <2>7. DOMAIN objs \subseteq DOMAIN os
    BY <1>11 DEF Grows
  <2> QED BY <2>3, <2>4, <2>5, <2>6, <2>7, <1>11, <1>12 DEF StepsOn, Grows
<1>17. StatesAre(os, fs) /\ CallsAre(os, fs)
  BY <1>1, <1>2, <1>16, Moves
<1>18. OutcomeIs(os, fs, outcome') /\ verdict = "compiled"
  BY <1>1, <1>8 DEF OutcomeIs, GraphInv
<1> QED BY <1>1, <1>3, <1>17, <1>18, FlowsStay

LEMMA RouteNodeKeeps == ASSUME GraphInv, Graph!RouteNode PROVE GraphInv'
<1> DEFINE o == Graph!Top.obj
           r == Graph!Here.router
<1>1. frames # <<>> /\ Graph!Top.pc = "route" /\ UNCHANGED <<flows, verdict>>
  BY DEF Graph!RouteNode, Graph!Running
<1>2. PICK n : n = Len(frames)
  OBVIOUS
<1>3. /\ n \in Nat \ {0} /\ DOMAIN frames = 1..n /\ IsList(frames) /\ outcome.error # "none"
      /\ frames[n] = Graph!Top /\ o \in DOMAIN objs /\ Good(objs[o]) /\ Fits(flows)
      /\ IsCall(Graph!Top) /\ Works(objs, Graph!Top) /\ verdict = "compiled"
  BY <1>1, <1>2, TopIs DEF GraphInv, CallsAre
<1>4. r \in Graph!Routers /\ RouterFits(r)
  <2>1. Graph!Top.flow \in DOMAIN flows /\ Graph!Top.at \in DOMAIN flows[Graph!Top.flow].nodes
    BY <1>1, <1>3 DEF IsCall, OnNode
  <2>2. Graph!Here = flows[Graph!Top.flow].nodes[Graph!Top.at]
    BY DEF Graph!Here, Graph!Flow
  <2> QED BY <2>1, <2>2, <1>3 DEF Graph!Routers, Graph!Nodes, Fits
<1>5. Idle(objs[o])
  BY <1>1, <1>3 DEF Works, Busy, Idle
<1>6. CASE r.type = "none"
  <2>1. Graph!Give(o, "none", Graph!Unrouted) /\ UNCHANGED objs
    BY <1>6 DEF Graph!RouteNode
  <2>2. Graph!Unrouted.type \notin Graph!PositionRouters
    BY RouterTypesAre DEF Graph!Unrouted
  <2> QED BY <2>1, <2>2, <1>1, <1>5, GiveKeeps
<1>7. CASE r.type # "none"
  <2>1. PICK x \in Graph!Routed(r, objs[o]) :
            IF x.failed
            THEN Graph!Give(o, "router", r) /\ objs' = Graph!Soil([objs EXCEPT ![o] = x.state])
            ELSE /\ objs' = [objs EXCEPT ![o] = x.state]
                 /\ frames' = [frames EXCEPT ![Len(frames)].at = x.next,
                                             ![Len(frames)].pc = "run",
                                             ![Len(frames)].router = r]
                 /\ UNCHANGED outcome
    BY <1>7 DEF Graph!RouteNode
  <2>2. Follows(objs[o], r, x)
    BY <2>1, <1>3, <1>4, <1>5, <1>7, RouterKeeps
  <2>3. PICK t : t = x.state
    OBVIOUS
  <2>4. Good(t)
    BY <2>2, <2>3 DEF Follows
  <2>5. PICK os : os = [objs EXCEPT ![o] = t]
    OBVIOUS
  <2>6. IsList(os) /\ DOMAIN os = DOMAIN objs /\ os[o] = t /\ \A p \in DOMAIN objs : p # o => os[p] = objs[p]
    <3>1. IsList(objs) /\ DOMAIN objs = 1..Len(objs)
      BY ListIs DEF GraphInv, StatesAre
    <3>2. Replaces(os, objs, o, t)
      BY <3>1, <2>5, <1>3, ReplaceIs
    <3> QED BY <3>1, <3>2, ListIs DEF Replaces
  <2>7. \A p \in DOMAIN os : Good(os[p])
    BY <2>4, <2>6 DEF GraphInv, StatesAre
  <2>8. CASE x.failed
    <3>1. objs' = Graph!Soil(os) /\ Graph!Give(o, "router", r)
      BY <2>1, <2>3, <2>5, <2>8
    <3>2. \A p \in DOMAIN os : (\A f \in DOMAIN frames : frames[f].obj # p) => os[p] = objs[p]
      <4>1. n \in DOMAIN frames /\ frames[n].obj = o
        BY <1>3
      <4> QED BY <4>1, <2>6
    <3> QED BY <3>1, <3>2, <2>6, <2>7, <1>1, FailKeeps
  <2>9. CASE ~x.failed
    <3>1. PICK top, fs : top = Graph!Top /\ fs = frames'
      OBVIOUS
    <3>2. PICK fr : fr = [flow |-> top.flow, at |-> x.next, obj |-> o, pc |-> "run", router |-> r]
      OBVIOUS
    <3>3. fs = [frames EXCEPT ![n] = fr]
      <4>1. top = [flow |-> top.flow, at |-> top.at, obj |-> o, pc |-> top.pc, router |-> top.router]
        BY <1>3, <3>1 DEF IsCall
      <4>2. PICK e : e = [top EXCEPT !.at = x.next, !.pc = "run", !.router = r]
        OBVIOUS
      <4>3. fs = [frames EXCEPT ![n] = e]
        BY <2>1, <2>9, <3>1, <4>2, <1>2, <1>3
      <4>4. e = [flow |-> top.flow, at |-> x.next, obj |-> o, pc |-> "run", router |-> r]
        <5>1. PICK at, p, q : at = x.next /\ p = o /\ q = r
          OBVIOUS
        <5>2. e = [top EXCEPT !.at = at, !.pc = "run", !.router = q]
          BY <4>2, <5>1
        <5>3. top = [flow |-> top.flow, at |-> top.at, obj |-> p, pc |-> top.pc, router |-> top.router]
          BY <4>1, <5>1
        <5> HIDE DEF o, r
        <5>4. PICK e1 : e1 = [top EXCEPT !.at = at]
          OBVIOUS
        <5>5. e1 = [flow |-> top.flow, at |-> at, obj |-> p, pc |-> top.pc, router |-> top.router]
          BY <5>3, <5>4
        <5>6. e = [e1 EXCEPT !.pc = "run", !.router = q]
          BY <5>2, <5>4
        <5>7. e = [flow |-> top.flow, at |-> at, obj |-> p, pc |-> "run", router |-> q]
          BY <5>5, <5>6
        <5> QED BY <5>1, <5>7
      <4> QED BY <4>3, <4>4, <3>2
    <3>4. /\ IsList(fs) /\ Len(fs) = n /\ fs[n] = fr
          /\ \A f \in 1..n : f # n => fs[f] = frames[f]
      <4>1. n \in 1..Len(frames)
        BY <1>2, <1>3
      <4>2. Replaces(fs, frames, n, fr)
        BY <4>1, <3>3, <1>3, ReplaceIs
      <4> QED BY <4>2, <1>2 DEF Replaces
    <3>5. IsCall(fr)
      BY <1>3, <3>1, <3>2 DEF IsCall
    <3>6. Works(os, fr)
      <4>1. Busy(t, fr) /\ EndsRight(t, fr)
        BY <2>2, <2>3, <2>9, <3>2 DEF Follows
      <4> QED BY <4>1, <3>2, <2>6, <1>3 DEF Works
    <3>7. StepsOn(n, o, os, fs)
      <4>1. \A f \in n..Len(fs) : f = n
        BY <1>3, <3>4
      <4>2. \A f \in n..Len(fs) : /\ IsCall(fs[f]) /\ Works(os, fs[f]) /\ (f < Len(fs) => OnNode(fs[f]))
                                  /\ fs[f].obj = o
        BY <4>1, <1>3, <3>2, <3>4, <3>5, <3>6
      <4>3. \A f \in 1..(n - 1) : fs[f] = frames[f]
        BY <1>3, <3>4
      <4>4. \A p \in DOMAIN os : (p = o \/ p \notin DOMAIN objs) => \E f \in DOMAIN fs : fs[f].obj = p
        <5>1. n \in DOMAIN fs
          BY <1>3, <3>4, ListIs
        <5> QED BY <5>1, <2>6, <3>2, <3>4
      <4>5. n <= Len(fs) /\ \A f, g \in n..Len(fs) : f = g
        BY <4>1, <1>3, <3>4
      <4> QED BY <4>2, <4>3, <4>4, <4>5, <2>6, <2>7, <3>4 DEF StepsOn
    <3>8. StatesAre(os, fs) /\ CallsAre(os, fs)
      BY <1>1, <1>2, <3>7, Moves
    <3>9. OutcomeIs(os, fs, outcome') /\ objs' = os
      BY <2>1, <2>3, <2>5, <2>9, <1>3 DEF OutcomeIs
    <3> QED BY <1>1, <1>3, <3>1, <3>8, <3>9, FlowsStay
  <2> QED BY <2>8, <2>9
<1> QED BY <1>6, <1>7

\* A run that a position router has sent to the end has had every entry processed.
LEMMA ReachEndKeeps == ASSUME GraphInv, Graph!ReachEnd PROVE GraphInv'
<1> DEFINE o == Graph!Top.obj
           s == objs[o]
           r == Graph!Top.router
<1>1. /\ frames # <<>> /\ Graph!Top.pc = "run" /\ Graph!Top.at = Graph!END
      /\ UNCHANGED <<flows, verdict, objs>> /\ Graph!Give(o, "none", r)
  BY DEF Graph!ReachEnd, Graph!Running
<1>2. Good(s) /\ Busy(s, Graph!Top) /\ EndsRight(s, Graph!Top)
  BY <1>1, TopIs DEF Works
<1>3. Idle(s)
  BY <1>1, <1>2 DEF Idle, Busy, Smooth
<1>4. ASSUME r.type \in Graph!PositionRouters
      PROVE  r \in Counters /\ Graph!Processed(s, r)
  <2> DEFINE key == r.config.pos_key.is
  <2>1. r \in Counters /\ (Counted(s, key) => Exhausted(s, r))
    BY <1>1, <1>2, <1>4 DEF EndsRight
  <2>2. ASSUME s.clean, Counted(s, key)
        PROVE  /\ \A i \in DOMAIN s.walk : s.walk[i].pos = i - 1 /\ s.walk[i].done
               /\ \A list \in Graph!ListOf(r, s) :
                    (Graph!Walked(s) = {list}) => Len(s.walk) = Len(list.is)
    <3>1. InOrder(s, key) /\ Exhausted(s, r)
      BY <2>1, <2>2, <1>2 DEF Good, Steady, Counts
    <3>2. Smooth(s)
      BY <2>2, <3>1 DEF InOrder, Smooth
    <3>3. \A i \in DOMAIN s.walk : s.walk[i].pos = i - 1 /\ s.walk[i].done
      BY <3>1, <3>2, <1>3 DEF InOrder, Idle
    <3>4. ASSUME NEW list \in Graph!ListOf(r, s), Graph!Walked(s) = {list}
          PROVE  Len(s.walk) = Len(list.is)
      <4>1. IsList(s.walk) /\ IsList(list.is) /\ Len(list.is) <= Len(s.walk)
        BY <3>1, <1>2 DEF Exhausted, Good, IsState
      <4>2. Len(s.walk) \in Nat /\ Len(list.is) \in Nat
        BY <4>1, ListIs
      <4>3. CASE s.walk = <<>>
        <5>1. Len(s.walk) = 0
          BY <4>3, EmptyIsList
        <5> QED BY <5>1, <4>1, <4>2
      <4>4. CASE s.walk # <<>>
        <5>1. Len(s.walk) <= Len(list.is)
          BY <3>1, <3>4, <4>4 DEF InOrder
        <5> QED BY <5>1, <4>1, <4>2
      <4> QED BY <4>3, <4>4
    <3> QED BY <3>3, <3>4
  <2>3. Graph!Processed(s, r)
    BY <2>2 DEF Graph!Processed, Counted
  <2> QED BY <2>1, <2>3
<1> QED BY <1>1, <1>3, <1>4, GiveKeeps

-----------------------------------------------------------------------------
(* The workflow graph as a whole.                                          *)

\* What Compile builds fits: a router is one a factory has accepted.
LEMMA CompiledFits ==
    ASSUME NEW input \in Inputs, Graph!NodesBuild(input.spec, input.regs),
           NEW fs, fs = [main |-> Graph!Compiled(input.spec)]
    PROVE  Fits(fs)
<1> DEFINE list == input.spec.nodes
<1>1. DOMAIN fs = {"main"} /\ fs["main"] = Graph!Compiled(input.spec)
  OBVIOUS
<1>2. ASSUME NEW i \in DOMAIN list
      PROVE  RouterFits(Graph!RouterOf(input.spec, i)) /\ list[i].type # "sub"
  <2>1. /\ Graph!RunnableBuilds(list[i], input.regs)
        /\ Graph!RouterBuilds(list[i].router, input.regs)
    BY <1>2 DEF Graph!NodesBuild
  <2>2. list[i].type # "sub"
    BY <2>1 DEF Graph!RunnableBuilds
  <2>3. CASE list[i].router.type = "none"
    <3>1. PICK next : Graph!RouterOf(input.spec, i) = [type |-> "static", next |-> next]
      BY <2>3 DEF Graph!RouterOf
    <3> QED BY <3>1, <2>2 DEF RouterFits
  <2>4. CASE list[i].router.type # "none"
    <3>1. PICK r : r = list[i].router
      OBVIOUS
    <3>2. Graph!RouterOf(input.spec, i) = r
      BY <2>4, <3>1 DEF Graph!RouterOf
    <3>3. \/ r.type = "custom"
          \/ r.type \in DOMAIN Graph!RequiredStrings /\ Graph!FactoryAccepts(r.type, r.config)
      BY <2>1, <2>4, <3>1 DEF Graph!RouterBuilds
    <3>4. ASSUME r.type = "recipient_list"
          PROVE  r.config.recipients.tag = "list" /\ IsValue(r.config.recipients)
      <4>1. Graph!Has(r.config, "recipients") /\ Graph!IsStrings(r.config.recipients)
        BY <3>3, <3>4 DEF Graph!FactoryAccepts
      <4>2. IsValue(r.config.recipients)
        BY <1>2, <3>1, <3>4, <4>1, InputsAssumption
      <4> QED BY <4>1, <4>2 DEF Graph!IsStrings
    <3> QED BY <2>2, <3>2, <3>3, <3>4 DEF RouterFits
  <2> QED BY <2>3, <2>4
<1>3. ASSUME NEW id \in DOMAIN fs["main"].nodes
      PROVE  /\ RouterFits(fs["main"].nodes[id].router)
             /\ fs["main"].nodes[id].run # "sub"
  <2>1. DOMAIN fs["main"].nodes = Graph!NodeIds(input.spec)
    BY <1>1 DEF Graph!Compiled
  <2>2. PICK j \in DOMAIN list : list[j].id = id
    BY <2>1, <1>3 DEF Graph!NodeIds
  <2>3. PICK k : k = CHOOSE i \in DOMAIN list : list[i].id = id
    OBVIOUS
  <2>4. k \in DOMAIN list
    BY <2>2, <2>3
  <2>5. fs["main"].nodes[id] = [run |-> list[k].type, output |-> list[k].output,
                                router |-> Graph!RouterOf(input.spec, k)]
    BY <1>1, <1>3, <2>1, <2>3 DEF Graph!Compiled
  <2> QED BY <2>4, <2>5, <1>2
<1> QED BY <1>1, <1>3 DEF Fits

LEMMA GraphStarts == ASSUME Graph!Init PROVE GraphInv
<1>1. verdict = "compiled" => Fits(flows)
  <2>1. CASE \E input \in Inputs : Graph!Load(input)
    <3>1. PICK input \in Inputs : Graph!Load(input)
      BY <2>1
    <3> SUFFICES ASSUME verdict = "compiled" PROVE Fits(flows)
      OBVIOUS
    <3>2. Graph!NodesBuild(input.spec, input.regs) /\ flows = [main |-> Graph!Compiled(input.spec)]
      BY <3>1 DEF Graph!Load
    <3> QED BY <3>2, CompiledFits
  <2>2. CASE flows \in Built
    BY <2>2, BuiltAssumption
  <2> QED BY <2>1, <2>2 DEF Graph!Init
<1>2. PICK s \in States : objs = <<Graph!Fresh(s.data, s.meta)>>
  BY DEF Graph!Init
<1>3. PICK u : u = Graph!Fresh(s.data, s.meta)
  OBVIOUS
<1>4. Good(u) /\ Idle(u)
  <2>1. HoldsValues(s.meta) /\ \A k \in DOMAIN s.data : IsValue(s.data[k])
    BY StatesAssumption DEF HoldsValues
  <2> QED BY <2>1, <1>3, FreshKeeps
<1>5. IsList(objs) /\ DOMAIN objs = 1..1 /\ objs[1] = u
  BY <1>2, <1>3, OneIsList
<1>6. frames = <<>> /\ outcome = Graph!NotRun
  BY DEF Graph!Init
<1>7. StatesAre(objs, frames)
  BY <1>4, <1>5 DEF StatesAre
<1>8. CallsAre(objs, frames)
  BY <1>6, EmptyIsList DEF CallsAre
<1>9. OutcomeIs(objs, frames, outcome)
  BY <1>6 DEF OutcomeIs, Graph!NotRun
<1> QED BY <1>1, <1>6, <1>7, <1>8, <1>9 DEF GraphInv

LEMMA GraphNextKeeps == ASSUME GraphInv, [Graph!Next]_(Graph!vars) PROVE GraphInv'
<1>1. CASE Graph!CheckContext \/ Graph!MissingNode \/ Graph!NodeFails
  BY <1>1, ChecksKeep
<1>2. CASE Graph!RunLeaf
  BY <1>2, RunLeafKeeps
<1>3. CASE \E copies \in BOOLEAN : Graph!RunCustom(copies)
  BY <1>3, RunCustomKeeps
<1>4. CASE Graph!EnterSubgraph
  BY <1>4, EnterSubgraphKeeps
<1>5. CASE Graph!Extract
  BY <1>5, ExtractKeeps
<1>6. CASE Graph!RouteNode
  BY <1>6, RouteNodeKeeps
<1>7. CASE Graph!ReachEnd
  BY <1>7, ReachEndKeeps
<1>8. CASE Graph!Cancel
  BY <1>8, CancelKeeps
<1>9. CASE \E o \in DOMAIN objs : Graph!Invoke(o)
  BY <1>9, InvokeKeeps
<1>10. CASE UNCHANGED Graph!vars
  <2>1. UNCHANGED <<flows, verdict, objs, frames, outcome>>
    BY <1>10 DEF Graph!vars
  <2> QED BY <2>1, FlowsStay DEF GraphInv
<1> QED BY <1>1, <1>2, <1>3, <1>4, <1>5, <1>6, <1>7, <1>8, <1>9, <1>10 DEF Graph!Next, Graph!Step

\* A step of the whole is a step of the graph, or leaves it.
LEMMA GraphMoves ==
    ASSUME [Next]_vars, part' = "graph"
    PROVE  part = "graph" /\ [Graph!Next]_(Graph!vars)
<1>1. CASE InGraph
  BY <1>1 DEF InGraph
<1>2. CASE InAgent
  BY <1>2 DEF InAgent
<1>3. CASE InLoop
  BY <1>3 DEF InLoop
<1>4. CASE UNCHANGED vars
  BY <1>4 DEF vars, graphVars, Graph!vars
<1> QED BY <1>1, <1>2, <1>3, <1>4 DEF Next

\* Every state of the graph's keeps its count past what was handed out, in
\* order while the keys are kept apart, and only the innermost call of a chain
\* of calls has a position under way (Graph.Invoke, the routers of eip.go).
THEOREM GraphInvariance == Spec => [](part = "graph" => GraphInv)
<1> DEFINE Inv == part = "graph" => GraphInv
<1>1. Init => Inv
  BY GraphStarts DEF Init
<1>2. Inv /\ [Next]_vars => Inv'
  BY GraphMoves, GraphNextKeeps
<1> QED BY <1>1, <1>2, PTL DEF Spec

LEMMA EntriesAreProcessed == ASSUME GraphInv PROVE Graph!ExactlyOnceUnlessFailed
<1>1. \A o \in DOMAIN objs : Forward(objs[o])
  BY DEF GraphInv, StatesAre, Good
<1>2. (outcome.error = "none" /\ outcome.by.type \in Graph!PositionRouters) =>
            Graph!Processed(objs[outcome.state], outcome.by)
  BY DEF GraphInv, OutcomeIs
<1> QED BY <1>1, <1>2 DEF Graph!ExactlyOnceUnlessFailed, Forward

\* Whatever graph is run, on whatever states, and however its runs fail or are
\* run again: no entry of a slip, no recipient and no item is handed out twice
\* for one state, and a run on a state no run has failed on that ends because
\* its list is exhausted has had every entry processed, in order.
THEOREM EntriesOnce == Spec => []ExactlyOnceUnlessFailed
<1>1. (part = "graph" => GraphInv) => ExactlyOnceUnlessFailed
  BY EntriesAreProcessed DEF ExactlyOnceUnlessFailed
<1> QED BY <1>1, GraphInvariance, PTL
=============================================================================
