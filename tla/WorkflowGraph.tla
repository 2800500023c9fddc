---------------------------- MODULE WorkflowGraph ----------------------------
(***************************************************************************)
(* From a workflow definition to the end of its runs: workflow.Parse and   *)
(* Compile (pkg/workflow), the routers they instantiate                    *)
(* (pkg/graph/router/eip, pkg/graph/routers.go) and the execution of       *)
(* graphs, sub-agent nodes and chains (pkg/graph, pkg/chain).              *)
(*                                                                         *)
(* A core.State holds two maps, and copying the struct copies references:  *)
(* the routers write positions and items into the maps the caller holds.   *)
(* So states are objects here (objs), a run works on the object it was     *)
(* given, and the next run on the same object, a retry for one, meets what *)
(* the last run left in it.                                                *)
(***************************************************************************)
EXTENDS Integers, Sequences, FiniteSets, TLC

CONSTANTS
    Inputs,        \* the definitions: [spec, regs] of Parse and Compile
    Built,         \* graphs and chains built in Go: functions of graph names
    States,        \* the states callers start with
    CustomTargets, \* what registered custom routers answer
    MaxRuns,       \* bound on the runs of one behaviour
    MaxCopies      \* bound on the states custom nodes make

VARIABLES
    flows,     \* the graphs loaded: name |-> [entry, nodes]; "main" is run
    verdict,   \* "compiled", "rejected" or "panicked"
    parsed,    \* the definition went through Parse
    objs,      \* the states, each [data, meta, start, walk, clean]: start is the
               \* meta it was made with, walk the positions handed out for it
    frames,    \* the Graph.Invoke calls that are open, innermost last
    cancelled, \* the context of the run is done
    outcome,   \* how the last run ended
    runs

vars == <<flows, verdict, parsed, objs, frames, cancelled, outcome, runs>>

END == "__end__"
NoMap == <<>>      \* a nil map; a map is a function from strings
Blank == ""        \* a string field that is not set

Str(s) == [tag |-> "str", is |-> s]
Num(n) == [tag |-> "num", is |-> n]
Bool(b) == [tag |-> "bool", is |-> b]
List(q) == [tag |-> "list", is |-> q]
Map(f) == [tag |-> "map", is |-> f]

Has(map, key) == map # NoMap /\ key \in DOMAIN map
Put(map, key, value) == [k \in {key} \union DOMAIN map |-> IF k = key THEN value ELSE map[k]]
HasStr(map, key) == Has(map, key) /\ map[key].tag = "str"
IsStrings(value) == value.tag = "list" /\ \A i \in DOMAIN value.is : value.is[i].tag = "str"

\* Numbers of any type count; what is absent or no number reads as 0.
ToInt(map, key) == IF Has(map, key) /\ map[key].tag = "num" THEN map[key].is ELSE 0

\* fmt.Sprintf("%v"): a number and the string of its digits look the same.
Text(value) == CASE value.tag = "str" -> value.is
                 [] value.tag \in {"num", "bool"} -> ToString(value.is)
                 [] OTHER -> "[...]"

IsTruthy(value) == CASE value.tag = "bool" -> value.is
                     [] value.tag = "num" -> value.is # 0
                     [] value.tag = "str" -> value.is \notin {"", "false", "0"}
                     [] OTHER -> TRUE

-----------------------------------------------------------------------------
(* Routers: each takes its configuration and the state and gives the next  *)
(* node and the state as it leaves it, or an error.                        *)

To(next, s) == [next |-> next, state |-> s, failed |-> FALSE]
RouterError(s) == [next |-> END, state |-> s, failed |-> TRUE]

\* Mutant: the position is read and not advanced.
KeepPosition(s, key, target) == s

\* The position moves on before the node runs.  ensureMeta makes a nil Meta
\* in the router's own copy of the struct: what is written there is lost.
Advance(s, key, target) ==
    LET pos == ToInt(s.meta, key)
    IN  IF s.meta = NoMap THEN s
        ELSE [s EXCEPT !.meta = Put(@, key, Num(pos + 1)),
                       !.walk = Append(@, [key |-> key, pos |-> pos, node |-> target, done |-> FALSE])]

\* Mutant: the last entry is never reached.
WithinShort(s, key, list) == ToInt(s.meta, key) >= 0 /\ ToInt(s.meta, key) < Len(list) - 1

Within(s, key, list) == ToInt(s.meta, key) >= 0 /\ ToInt(s.meta, key) < Len(list)

Route_content_based(c, s) ==
    LET otherwise == IF Has(c, "default") THEN c["default"].is ELSE END
        text == Text(s.meta[c.key.is])
    IN  IF Has(s.meta, c.key.is) /\ Has(c.cases.is, text)
        THEN To(c.cases.is[text].is, s)
        ELSE To(otherwise, s)

Route_filter(c, s) ==
    LET there == Has(s.data, c.key.is)
        v == s.data[c.key.is]
        rhs == IF HasStr(c, "value") THEN c.value.is ELSE Blank
        pass == CASE c.op.is = "exists" -> there
                  [] c.op.is = "eq" -> there /\ Text(v) = rhs
                  [] c.op.is = "neq" -> ~there \/ Text(v) # rhs
                  [] c.op.is = "truthy" -> there /\ IsTruthy(v)
    IN  IF c.op.is \notin {"exists", "eq", "neq", "truthy"} THEN RouterError(s)
        ELSE IF pass THEN To(c.next.is, s)
        ELSE To(END, s)

Route_routing_slip(c, s) ==
    LET slip == s.meta[c.slip_key.is]
        target == slip.is[ToInt(s.meta, c.pos_key.is) + 1].is
    IN  IF ~Has(s.meta, c.slip_key.is) THEN To(END, s)
        ELSE IF ~IsStrings(slip) THEN RouterError(s)
        ELSE IF ~Within(s, c.pos_key.is, slip.is) THEN To(END, s)
        ELSE To(target, Advance(s, c.pos_key.is, target))

Route_recipient_list(c, s) ==
    LET target == c.recipients.is[ToInt(s.meta, c.pos_key.is) + 1].is
    IN  IF ~Within(s, c.pos_key.is, c.recipients.is) THEN To(END, s)
        ELSE To(target, Advance(s, c.pos_key.is, target))

Route_splitter(c, s) ==
    LET items == s.data[c.input_key.is]
        item == items.is[ToInt(s.meta, c.pos_key.is) + 1]
        given == [s EXCEPT !.data = Put(@, c.item_key.is, item)]
    IN  IF ~Has(s.data, c.input_key.is) THEN To(END, s)
        ELSE IF items.tag # "list" THEN RouterError(s)
        ELSE IF ~Within(s, c.pos_key.is, items.is) THEN To(END, s)
        ELSE To(c.next.is, Advance(given, c.pos_key.is, c.next.is))

\* Until the expected number is there, the graph ends.
Route_aggregator(c, s) ==
    LET out == c.output_key.is
        acc == IF Has(s.data, out) THEN s.data[out] ELSE List(<<>>)
        more == Append(acc.is, s.data[c.item_key.is])
        expected == ToInt(s.meta, c.count_key.is)
        collected == [s EXCEPT !.data = Put(@, out, List(more))]
    IN  IF ~Has(s.data, c.item_key.is) THEN To(END, s)
        ELSE IF acc.tag # "list" THEN RouterError(s)
        ELSE To(IF expected > 0 /\ Len(more) >= expected THEN c.next.is ELSE END, collected)

\* graph.ConditionalRouter: no route for the key ends the graph.
Route_conditional(c, s) ==
    LET key == IF Has(s.data, "flag") THEN Text(s.data.flag) ELSE Blank
    IN  To(IF Has(c.routes, key) THEN c.routes[key] ELSE END, s)

\* The results a router may give; a custom one runs registered code, which
\* answers with a node, with an error, or with something that is no string.
Routed(router, s) ==
    CASE router.type \in {"static", "none"} -> {To(router.next, s)}
      [] router.type = "custom" -> {To(t, s) : t \in CustomTargets} \union {RouterError(s)}
      [] router.type = "conditional" -> {Route_conditional(router.config, s)}
      [] router.type = "content_based" -> {Route_content_based(router.config, s)}
      [] router.type = "filter" -> {Route_filter(router.config, s)}
      [] router.type = "routing_slip" -> {Route_routing_slip(router.config, s)}
      [] router.type = "recipient_list" -> {Route_recipient_list(router.config, s)}
      [] router.type = "splitter" -> {Route_splitter(router.config, s)}
      [] router.type = "aggregator" -> {Route_aggregator(router.config, s)}

-----------------------------------------------------------------------------
(* Parse and Compile.                                                      *)

NodeIds(spec) == {spec.nodes[i].id : i \in DOMAIN spec.nodes}

\* The targets of routers are not looked up: their configuration is opaque.
ParseAccepts(spec) ==
    /\ spec.name # Blank /\ spec.nodes # <<>>
    /\ \A i \in DOMAIN spec.nodes : spec.nodes[i].id # Blank /\ spec.nodes[i].type # Blank
    /\ Cardinality(NodeIds(spec)) = Len(spec.nodes)
    /\ \A i \in DOMAIN spec.nodes : spec.nodes[i].next \in NodeIds(spec) \union {Blank, END}

RequiredStrings ==
    [content_based |-> {"key"}, filter |-> {"key", "op", "next"},
     routing_slip |-> {"slip_key", "pos_key"}, recipient_list |-> {"pos_key"},
     splitter |-> {"input_key", "item_key", "pos_key", "next"},
     aggregator |-> {"item_key", "output_key", "count_key", "next"}]

FactoryAccepts(type, c) ==
    /\ \A key \in RequiredStrings[type] : HasStr(c, key)
    /\ type = "content_based" =>
        /\ Has(c, "cases") /\ c.cases.tag = "map"
        /\ \A k \in DOMAIN c.cases.is : c.cases.is[k].tag = "str"
        /\ Has(c, "default") => HasStr(c, "default")
    /\ type = "recipient_list" => Has(c, "recipients") /\ IsStrings(c.recipients)

\* regs holds for each registry the names in it, or {"nil"} when it is nil.
Nil == {"nil"}

LLMBuilds(n, regs) ==
    /\ regs.llm # Nil
    /\ IF n.tier # Blank THEN n.tier \in regs.tiers ELSE n.provider \in regs.llm
    /\ n.prompt # Blank => regs.prompts # Nil /\ n.prompt \in regs.prompts

RunnableBuilds(n, regs) ==
    \/ n.type = "llm" /\ LLMBuilds(n, regs)
    \/ n.type = "tool" /\ n.name \in regs.tools
    \/ n.type = "custom" /\ n.name \in regs.custom

RouterBuilds(r, regs) ==
    \/ r.type = "none"
    \/ /\ regs.routers # Nil
       /\ \/ r.type = "custom" /\ r.name # Blank /\ r.name \in regs.custom
          \/ /\ r.type \in DOMAIN RequiredStrings \intersect regs.routers
             /\ FactoryAccepts(r.type, r.config)

NodesBuild(spec, regs) ==
    \A i \in DOMAIN spec.nodes :
        RunnableBuilds(spec.nodes[i], regs) /\ RouterBuilds(spec.nodes[i].router, regs)

\* RouterRegistry.buildCustom looks a custom router up in a registry that may
\* be nil, and AddNode panics on a name that is there.
CompilePanics(spec, regs) ==
    \/ NodesBuild(spec, regs) /\ Cardinality(NodeIds(spec)) < Len(spec.nodes)
    \/ \E i \in DOMAIN spec.nodes :
        /\ spec.nodes[i].router.type = "custom" /\ spec.nodes[i].router.name # Blank
        /\ regs.routers # Nil /\ regs.custom = Nil
        /\ RunnableBuilds(spec.nodes[i], regs)
        /\ \A j \in 1..(i - 1) :
            RunnableBuilds(spec.nodes[j], regs) /\ RouterBuilds(spec.nodes[j].router, regs)

\* A router goes before Next; without either the order of the list decides.
RouterOf(spec, i) ==
    LET n == spec.nodes[i]
        next == IF n.next # Blank THEN n.next
                ELSE IF i = Len(spec.nodes) THEN END ELSE spec.nodes[i + 1].id
    IN  IF n.router.type # "none" THEN n.router ELSE [type |-> "static", next |-> next]

Compiled(spec) ==
    LET at(id) == CHOOSE i \in DOMAIN spec.nodes : spec.nodes[i].id = id
    IN  [entry |-> spec.nodes[1].id,
         nodes |-> [id \in NodeIds(spec) |->
            [run |-> spec.nodes[at(id)].type, output |-> spec.nodes[at(id)].output,
             router |-> RouterOf(spec, at(id))]]]

\* A chain is a graph whose steps are linked in order.
ChainOf(steps) ==
    [entry |-> steps[1],
     nodes |-> [id \in {steps[i] : i \in DOMAIN steps} |->
        LET i == CHOOSE i \in DOMAIN steps : steps[i] = id
        IN  [run |-> "custom", output |-> Blank,
             router |-> [type |-> "static",
                         next |-> IF i = Len(steps) THEN END ELSE steps[i + 1]]]]]

-----------------------------------------------------------------------------
Unrouted == [type |-> "none"]
NotRun == [state |-> 0, error |-> "not run", by |-> Unrouted]

\* A state as its maker leaves it.
Fresh(data, meta) == [data |-> data, meta |-> meta, start |-> meta, walk |-> <<>>, clean |-> TRUE]

Load(input) ==
    LET accepted == input.parse => ParseAccepts(input.spec)
        builds == input.spec.nodes # <<>> /\ NodesBuild(input.spec, input.regs)
    IN  /\ parsed = input.parse
        /\ verdict = IF ~accepted THEN "rejected"
                     ELSE IF CompilePanics(input.spec, input.regs) THEN "panicked"
                     ELSE IF builds THEN "compiled" ELSE "rejected"
        /\ flows = IF verdict = "compiled" THEN [main |-> Compiled(input.spec)] ELSE NoMap

Init ==
    /\ \/ \E input \in Inputs : Load(input)
       \/ parsed = FALSE /\ verdict = "compiled" /\ flows \in Built
    /\ \E s \in States : objs = <<Fresh(s.data, s.meta)>>
    /\ frames = <<>>
    /\ cancelled = FALSE
    /\ outcome = NotRun
    /\ runs = 0

Running == frames # <<>>
Top == frames[Len(frames)]
Flow == flows[Top.flow]
Here == Flow.nodes[Top.at]

\* A caller runs the workflow: on a new state, on the one it holds, which is
\* what WithRetry does, or on one a run has returned.
Invoke(o) ==
    /\ verdict = "compiled" /\ ~Running
    /\ runs < MaxRuns
    /\ runs' = runs + 1
    /\ frames' = <<[flow |-> "main", at |-> flows.main.entry, obj |-> o, pc |-> "run",
                    router |-> Unrouted]>>
    /\ cancelled' = FALSE
    /\ outcome' = NotRun
    /\ UNCHANGED <<flows, verdict, parsed, objs>>

Cancel ==
    /\ Running /\ ~cancelled
    /\ cancelled' = TRUE
    /\ UNCHANGED <<flows, verdict, parsed, objs, frames, outcome, runs>>

\* The innermost Graph.Invoke returns with the state o.  An error passes
\* through every SubagentNode, each giving back its own input; a state that
\* was in the hands of a run that failed is no longer clean.
Give(o, error, router) ==
    IF Len(frames) = 1 \/ error # "none"
    THEN /\ frames' = <<>>
         /\ outcome' = [state |-> IF Len(frames) = 1 THEN o ELSE frames[1].obj,
                        error |-> error, by |-> router]
    ELSE /\ frames' = [SubSeq(frames, 1, Len(frames) - 1) EXCEPT ![Len(frames) - 1].pc = "extract"]
         /\ UNCHANGED outcome

Soil(os) ==
    [o \in DOMAIN os |-> IF \E f \in DOMAIN frames : frames[f].obj = o
                        THEN [os[o] EXCEPT !.clean = FALSE] ELSE os[o]]

Fail(error) == Give(Top.obj, error, Top.router) /\ objs' = Soil(objs)

CheckContext ==
    /\ Running /\ Top.pc = "run" /\ Top.at # END
    /\ cancelled
    /\ Fail("cancelled")
    /\ UNCHANGED <<flows, verdict, parsed, cancelled, runs>>

MissingNode ==
    /\ Running /\ Top.pc = "run" /\ Top.at # END
    /\ ~cancelled
    /\ Top.at \notin DOMAIN Flow.nodes
    /\ Fail("missing")
    /\ UNCHANGED <<flows, verdict, parsed, cancelled, runs>>

Enter(kinds) ==
    /\ Running /\ Top.pc = "run" /\ Top.at # END
    /\ ~cancelled
    /\ Top.at \in DOMAIN Flow.nodes
    /\ Here.run \in kinds

\* History: the node the last position was handed out for has done its work.
Work(s) ==
    LET n == Len(s.walk)
    IN  IF n > 0 /\ s.walk[n].node = Top.at THEN [s EXCEPT !.walk[n].done = TRUE] ELSE s

GotoRoute(o) == frames' = [frames EXCEPT ![Len(frames)].pc = "route", ![Len(frames)].obj = o]

\* A node fails: rendering, the provider, the tool, the custom code, or the
\* custom code has returned something that is no State.
NodeFails ==
    /\ Enter({"llm", "tool", "custom", "sub"})
    /\ Fail("node")
    /\ UNCHANGED <<flows, verdict, parsed, cancelled, runs>>

\* An llm or a tool node writes what it got under output_key, in place.
RunLeaf ==
    /\ Enter({"llm", "tool"})
    /\ LET worked == Work(objs[Top.obj])
           written == IF Here.output = Blank THEN worked.data
                      ELSE Put(worked.data, Here.output, Str("out"))
       IN  objs' = [objs EXCEPT ![Top.obj] = [worked EXCEPT !.data = written]]
    /\ GotoRoute(Top.obj)
    /\ UNCHANGED <<flows, verdict, parsed, cancelled, outcome, runs>>

\* A custom node returns the state it was given or a copy, as WithMeta does.
RunCustom(copies) ==
    /\ Enter({"custom"})
    /\ IF copies
       THEN /\ Len(objs) <= MaxCopies
            /\ objs' = Append([objs EXCEPT ![Top.obj] = Work(@)], Work(objs[Top.obj]))
            /\ GotoRoute(Len(objs) + 1)
       ELSE /\ objs' = [objs EXCEPT ![Top.obj] = Work(@)]
            /\ GotoRoute(Top.obj)
    /\ UNCHANGED <<flows, verdict, parsed, cancelled, outcome, runs>>

\* SubagentNode: a state of its own for the inner graph, then its result
\* merged into a new outer state; either function may fail (NodeFails).
EnterSubgraph ==
    /\ Enter({"sub"})
    /\ Len(objs) <= MaxCopies
    /\ objs' = Append(objs, Fresh(NoMap, [k \in {"pos"} |-> Num(0)]))
    /\ frames' = Append(frames, [flow |-> "inner", at |-> flows["inner"].entry,
                                 obj |-> Len(objs) + 1, pc |-> "run", router |-> Unrouted])
    /\ UNCHANGED <<flows, verdict, parsed, cancelled, outcome, runs>>

Extract ==
    /\ Running /\ Top.pc = "extract"
    /\ \/ /\ objs' = [objs EXCEPT ![Top.obj] = Work(@)]
          /\ GotoRoute(Top.obj)
          /\ UNCHANGED outcome
       \/ Fail("node")
    /\ UNCHANGED <<flows, verdict, parsed, cancelled, runs>>

RouteNode ==
    /\ Running /\ Top.pc = "route"
    /\ IF Here.router.type = "none"
       THEN Give(Top.obj, "none", Unrouted) /\ UNCHANGED objs
       ELSE \E r \in Routed(Here.router, objs[Top.obj]) :
            LET left == [objs EXCEPT ![Top.obj] = r.state]
            IN  IF r.failed
                THEN Give(Top.obj, "router", Here.router) /\ objs' = Soil(left)
                ELSE /\ objs' = left
                     /\ frames' = [frames EXCEPT ![Len(frames)].at = r.next,
                                                 ![Len(frames)].pc = "run",
                                                 ![Len(frames)].router = Here.router]
                     /\ UNCHANGED outcome
    /\ UNCHANGED <<flows, verdict, parsed, cancelled, runs>>

ReachEnd ==
    /\ Running /\ Top.pc = "run" /\ Top.at = END
    /\ Give(Top.obj, "none", Top.router)
    /\ UNCHANGED <<flows, verdict, parsed, objs, cancelled, runs>>

Step ==
    \/ CheckContext \/ MissingNode \/ NodeFails \/ RunLeaf
    \/ \E copies \in BOOLEAN : RunCustom(copies)
    \/ EnterSubgraph \/ Extract \/ RouteNode \/ ReachEnd

Next == Step \/ Cancel \/ \E o \in DOMAIN objs : Invoke(o)

Spec == Init /\ [][Next]_vars
FairSpec == Spec /\ WF_vars(Step)

-----------------------------------------------------------------------------
(* Properties.                                                             *)

PositionRouters == {"routing_slip", "recipient_list", "splitter"}

Nodes == UNION {{flows[f].nodes[n] : n \in DOMAIN flows[f].nodes} : f \in DOMAIN flows}
Routers == {n.router : n \in Nodes}
Counters == {r \in Routers : r.type \in PositionRouters}

\* The list a position router walks over in the state s, if it is there.
ListOf(r, s) ==
    LET found == CASE r.type = "recipient_list" -> {r.config.recipients}
                   [] r.type = "splitter" -> {s.data[k] : k \in {r.config.input_key.is} \intersect DOMAIN s.data}
                   [] r.type = "routing_slip" -> {s.meta[k] : k \in {r.config.slip_key.is} \intersect DOMAIN s.meta}
    IN  {v \in found : v.tag = "list"}

Walked(s) == UNION {ListOf(r, s) : r \in Counters}

\* The keys of Data that nodes and routers write.
Written ==
    {n.output : n \in Nodes}
    \union {r.config.item_key.is : r \in {q \in Routers : q.type = "splitter"}}
    \union {r.config.output_key.is : r \in {q \in Routers : q.type = "aggregator"}}

\* The position routers count with one key and walk over what nothing writes,
\* and END, which is no node, is not an entry.
KeptApart(key, s) ==
    \A r \in Counters :
        /\ r.config.pos_key.is = key
        /\ r.type = "splitter" => r.config.input_key.is \notin Written /\ r.config.next.is # END
        /\ r.type = "routing_slip" => r.config.slip_key.is # key
        /\ r.type # "splitter" =>
            \A list \in ListOf(r, s) : \A i \in DOMAIN list.is : list.is[i].is # END

\* Every entry of the list that the router r has exhausted has been processed,
\* in order, if the state has a map to count in, its count started at 0, no
\* run has failed on it and the routers' keys are kept apart.
Processed(s, r) ==
    LET key == r.config.pos_key.is IN
    (s.clean /\ s.meta # NoMap /\ ToInt(s.start, key) = 0 /\ KeptApart(key, s)) =>
        /\ \A i \in DOMAIN s.walk : s.walk[i].pos = i - 1 /\ s.walk[i].done
        /\ \A list \in ListOf(r, s) : (Walked(s) = {list}) => Len(s.walk) = Len(list.is)

\* No entry of a slip, no recipient and no item is handed out twice for one
\* state, whatever runs, fails and is run again on it; and when no run has
\* failed on the state, a run that ends because its list is exhausted has had
\* every entry processed, in order: the positions live in the state (eip.go),
\* the order of run and route in Graph.Invoke.
ExactlyOnceUnlessFailed ==
    /\ \A o \in DOMAIN objs : \A i, j \in DOMAIN objs[o].walk :
        (i < j /\ objs[o].walk[i].key = objs[o].walk[j].key) => objs[o].walk[i].pos < objs[o].walk[j].pos
    /\ (outcome.error = "none" /\ outcome.by.type \in PositionRouters) =>
        Processed(objs[outcome.state], outcome.by)

\* A definition that went through Parse never sends a run to a node that does
\* not exist by its order or by Next; only a router can.
OnlyRoutersMissNodes ==
    (parsed /\ outcome.error = "missing") => outcome.by.type \notin {"static", "none"}

\* "Collects N outputs from a Recipient List or Splitter into a single slice"
\* (CONTEXT.md:132): a run on a state no run has failed on, that was handed
\* items and ends without an error at an aggregator, has collected as many as
\* expected.
OneRunCollects ==
    LET s == objs[outcome.state]
    IN  (outcome.error = "none" /\ outcome.by.type = "aggregator" /\ s.clean /\ Len(s.walk) > 0) =>
            Has(s.data, "acc") /\ Len(s.data["acc"].is) >= ToInt(s.meta, "count")

\* What a router with a fixed choice of targets may choose.
Targets(r) ==
    CASE r.type = "static" -> {r.next}
      [] r.type = "custom" -> CustomTargets
      [] r.type = "conditional" -> {r.config.routes[k] : k \in DOMAIN r.config.routes}
      [] r.type = "content_based" ->
            {r.config.cases.is[k].is : k \in DOMAIN r.config.cases.is}
            \union (IF Has(r.config, "default") THEN {r.config["default"].is} ELSE {})
      [] r.type \in {"filter", "aggregator"} -> {r.config.next.is}
      [] OTHER -> {}

\* Cycles lead through a router that counts, and it has a map to count in.
Bounded(order) ==
    /\ \A n \in DOMAIN flows.main.nodes : \A t \in Targets(flows.main.nodes[n].router) :
        (t \in DOMAIN order /\ n \in DOMAIN order) => order[n] < order[t]
    /\ \A o \in DOMAIN objs : objs[o].meta # NoMap
======================================================================================================================================================
