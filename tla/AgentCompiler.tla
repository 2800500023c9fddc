---------------------------- MODULE AgentCompiler ----------------------------
(***************************************************************************)
(* agent.Compile (pkg/agent/compiler.go): the references of a definition   *)
(* are resolved, and the agents it can reach are searched for cycles, by   *)
(* a breadth-first resolution, Kahn's sort, and a depth-first search that  *)
(* names the cycle when the sort stops short.  Each loop iteration is an   *)
(* action; the edges are lists, a name may be in one twice.                *)
(*                                                                         *)
(* The resolver holds what has been compiled before, by name: a definition *)
(* may be compiled again under its name with other references.             *)
(***************************************************************************)
EXTENDS Integers, Sequences, FiniteSets

CONSTANTS
    Names,     \* names of agents
    Specs,     \* definitions: [name, agents, prompt, tools, skills, tags]
    Known,     \* the registries: [prompts, tools, skills, providers]
    MaxTurns   \* bound on the compilations of one behaviour

VARIABLES
    registry,  \* the resolver: name |-> the agents its compiled agent declares
    pc,        \* where Compile is
    spec,      \* the definition being compiled
    queue,     \* names to resolve; then the nodes Kahn's sort has freed
    visited,   \* names that have been put in the queue; then: seen by the search
    agents,    \* the agents resolved: name |-> the agents it declares
    nodes,     \* allNodes: the parent, then the resolved agents in any order
    degree,    \* edges into each node that the sort has not taken away
    sorted,    \* how many nodes the sort has taken
    path,      \* the search: [node, at] for each node it is in
    result,    \* how the last compilation ended
    turns

search == <<queue, visited, agents, nodes, degree, sorted, path>>
vars == <<registry, pc, spec, search, result, turns>>

Members(q) == {q[i] : i \in DOMAIN q}

\* The entries of q at the places P, in order.
Picked(q, P) ==
    [k \in 1..Cardinality(P) |-> q[CHOOSE i \in P : Cardinality({j \in P : j <= i}) = k]]

\* The names of q that are not in seen, each once, in order.
Unseen(q, seen) ==
    Picked(q, {i \in DOMAIN q : q[i] \notin seen /\ \A j \in 1..(i - 1) : q[j] # q[i]})

Times(x, q) == Cardinality({i \in DOMAIN q : q[i] = x})

Init ==
    /\ registry = << >>
    /\ pc = "idle"
    /\ spec \in Specs
    /\ queue = <<>> /\ visited = {} /\ agents = <<>>
    /\ nodes = <<>> /\ degree = <<>> /\ sorted = 0 /\ path = <<>>
    /\ result = "none"
    /\ turns = 0

\* Edges for the search: what each resolved agent declares, and the parent's
\* own list only as long as no resolved agent has the parent's name.
Edges(n) == IF n \in DOMAIN agents THEN agents[n] ELSE spec.agents

ToolsResolve(s) == s.tools \subseteq Known.tools
SkillsResolve(s) == s.skills \subseteq Known.skills

\* A provider has the tier and every tag asked for; the first such is taken.
ProviderFound(s) == \E p \in Known.providers : s.tags \subseteq p

Finish(how) == pc' = "idle" /\ result' = how

-----------------------------------------------------------------------------
\* What Parse and Compile want of a definition.
Parsed(s) == s.name # "" /\ s.prompt # ""

\* Compile loads the prompt and resolves the tools, all of them or none.
Begin(s) ==
    /\ pc = "idle" /\ turns < MaxTurns
    /\ turns' = turns + 1
    /\ spec' = s
    /\ IF Parsed(s) /\ s.prompt \in Known.prompts /\ ToolsResolve(s)
       THEN pc' = (IF s.agents = <<>> THEN "last" ELSE "resolve") /\ result' = "none"
       ELSE Finish("error")
    /\ queue' = s.agents /\ visited' = {s.name} /\ agents' = <<>>
    /\ nodes' = <<>> /\ degree' = <<>> /\ sorted' = 0 /\ path' = <<>>
    /\ UNCHANGED registry

\* One turn of the breadth-first resolution.  Mutant: only the agents the
\* definition itself names are resolved.
ResolveDirect ==
    /\ pc = "resolve" /\ queue # <<>>
    /\ Head(queue) \notin DOMAIN agents /\ Head(queue) \in DOMAIN registry
    /\ agents' = [n \in DOMAIN agents \union {Head(queue)} |->
                    IF n \in DOMAIN agents THEN agents[n] ELSE registry[n]]
    /\ queue' = Tail(queue)
    /\ UNCHANGED <<registry, pc, spec, visited, nodes, degree, sorted, path, result, turns>>

Resolve ==
    /\ pc = "resolve" /\ queue # <<>>
    /\ LET name == Head(queue) IN
       /\ name \notin DOMAIN agents /\ name \in DOMAIN registry
       /\ agents' = [n \in DOMAIN agents \union {name} |->
                        IF n \in DOMAIN agents THEN agents[n] ELSE registry[n]]
       /\ queue' = Tail(queue) \o Unseen(registry[name], visited)
       /\ visited' = visited \union Members(registry[name])
    /\ UNCHANGED <<registry, pc, spec, nodes, degree, sorted, path, result, turns>>

SkipResolved ==
    /\ pc = "resolve" /\ queue # <<>>
    /\ Head(queue) \in DOMAIN agents
    /\ queue' = Tail(queue)
    /\ UNCHANGED <<registry, pc, spec, visited, agents, nodes, degree, sorted, path, result, turns>>

\* The resolver does not know the name, or fails.
ResolveFails ==
    /\ pc = "resolve" /\ queue # <<>>
    /\ Head(queue) \notin DOMAIN agents
    /\ Finish("error")
    /\ UNCHANGED <<registry, spec, search, turns>>

Orders(S) == {f \in [1..Cardinality(S) -> S] : \A i, j \in DOMAIN f : f[i] = f[j] => i = j}

\* The graph is built; a node that is listed twice has its edges counted twice.
StartSort ==
    /\ pc = "resolve" /\ queue = <<>>
    /\ \E order \in Orders(DOMAIN agents) :
        LET all == <<spec.name>> \o order
            into(x) == UNION {{<<i, j>> : j \in {k \in DOMAIN Edges(all[i]) : Edges(all[i])[k] = x}} :
                                i \in DOMAIN all}
        IN  /\ nodes' = all
            /\ degree' = [x \in Members(all) |-> Cardinality(into(x))]
            /\ queue' = Picked(all, {i \in DOMAIN all : into(all[i]) = {}})
    /\ visited' = {}
    /\ pc' = "sort"
    /\ UNCHANGED <<registry, spec, agents, sorted, path, result, turns>>

\* Mutant: a node is freed when its first edge is taken away.
SortStepEager ==
    /\ pc = "sort" /\ queue # <<>>
    /\ LET edges == Edges(Head(queue)) IN
       /\ degree' = [x \in DOMAIN degree |-> IF Times(x, edges) > 0 THEN 0 ELSE degree[x]]
       /\ queue' = Tail(queue) \o Unseen(edges, {x \in DOMAIN degree : degree[x] = 0})
    /\ sorted' = sorted + 1
    /\ UNCHANGED <<registry, pc, spec, visited, agents, nodes, path, result, turns>>

SortStep ==
    /\ pc = "sort" /\ queue # <<>>
    /\ LET edges == Edges(Head(queue))
           left == [x \in DOMAIN degree |-> degree[x] - Times(x, edges)]
       IN  /\ degree' = left
           /\ queue' = Tail(queue) \o Unseen(edges, {x \in DOMAIN degree : left[x] # 0})
    /\ sorted' = sorted + 1
    /\ UNCHANGED <<registry, pc, spec, visited, agents, nodes, path, result, turns>>

EndSort ==
    /\ pc = "sort" /\ queue = <<>>
    /\ pc' = IF sorted < Len(nodes) THEN "search" ELSE "last"
    /\ UNCHANGED <<registry, spec, search, result, turns>>

Inside == {path[i].node : i \in DOMAIN path}
Push(n) == path' = Append(path, [node |-> n, at |-> 1]) /\ visited' = visited \union {n}

\* Roots are tried in the order of the nodes; without a cycle the search ends
\* with nothing, and Compile goes on.
SearchRoot ==
    /\ pc = "search" /\ path = <<>>
    /\ LET fresh == {i \in DOMAIN nodes : nodes[i] \notin visited}
       IN  IF fresh = {} THEN pc' = "last" /\ UNCHANGED <<path, visited>>
           ELSE \E i \in fresh : (\A j \in fresh : i <= j) /\ Push(nodes[i]) /\ UNCHANGED pc
    /\ UNCHANGED <<registry, spec, queue, agents, nodes, degree, sorted, result, turns>>

Last == path[Len(path)]

Advanced == [path EXCEPT ![Len(path)].at = @ + 1]

SearchEdge ==
    /\ pc = "search" /\ path # <<>>
    /\ Last.at <= Len(Edges(Last.node))
    /\ LET n == Edges(Last.node)[Last.at] IN
       \/ /\ n \notin visited
          /\ path' = Append(Advanced, [node |-> n, at |-> 1])
          /\ visited' = visited \union {n}
          /\ UNCHANGED <<pc, result>>
       \/ /\ n \in visited \ Inside
          /\ path' = Advanced
          /\ UNCHANGED <<visited, pc, result>>
       \/ /\ n \in Inside
          /\ LET start == CHOOSE i \in DOMAIN path : path[i].node = n
             IN  path' = Append(SubSeq(path, start, Len(path)), [node |-> n, at |-> 1])
          /\ Finish("cycle")
          /\ UNCHANGED visited
    /\ UNCHANGED <<registry, spec, queue, agents, nodes, degree, sorted, turns>>

SearchBack ==
    /\ pc = "search" /\ path # <<>>
    /\ Last.at > Len(Edges(Last.node))
    /\ path' = SubSeq(path, 1, Len(path) - 1)
    /\ UNCHANGED <<registry, pc, spec, queue, visited, agents, nodes, degree, sorted, result, turns>>

\* The skills and the provider; then the compiled agent is there, and the
\* caller's resolver has it under its name.
Complete ==
    /\ pc = "last"
    /\ IF SkillsResolve(spec) /\ ProviderFound(spec)
       THEN /\ Finish("compiled")
            /\ registry' = [n \in DOMAIN registry \union {spec.name} |->
                                IF n = spec.name THEN spec.agents ELSE registry[n]]
       ELSE Finish("error") /\ UNCHANGED registry
    /\ UNCHANGED <<spec, search, turns>>

Work == \/ Resolve \/ SkipResolved \/ ResolveFails \/ StartSort \/ SortStep \/ EndSort
        \/ SearchRoot \/ SearchEdge \/ SearchBack \/ Complete

Next == Work \/ \E s \in Specs : Begin(s)

Spec == Init /\ [][Next]_vars
FairSpec == Spec /\ WF_vars(Work)

-----------------------------------------------------------------------------
(* What the searches must find, stated without them.                       *)

\* A set of names with everything its members refer to.
Closed(S) == \A n \in S \intersect DOMAIN agents : Members(agents[n]) \subseteq S

\* The names that cannot be avoided from the definition's own list.
Reachable ==
    {n \in Names : \A S \in SUBSET Names : (Members(spec.agents) \subseteq S /\ Closed(S)) => n \in S}

\* No way round from a name back to it: no set of reachable names in which
\* every one is referred to by another.
Declared(n) == IF n = spec.name THEN spec.agents ELSE agents[n]
Acyclic ==
    \A S \in SUBSET (Reachable \union {spec.name}) :
        (S # {}) => \E n \in S : n \notin UNION {Members(Declared(m)) : m \in S}

TypeOK ==
    /\ DOMAIN registry \subseteq Names /\ \A n \in DOMAIN registry : registry[n] \in Seq(Names)
    /\ pc \in {"idle", "resolve", "sort", "search", "last"}
    /\ spec \in Specs
    /\ queue \in Seq(Names) /\ visited \subseteq Names
    /\ DOMAIN agents \subseteq Names /\ \A n \in DOMAIN agents : agents[n] \in Seq(Names)
    /\ result \in {"none", "compiled", "cycle", "error"}
    /\ turns \in 0..MaxTurns

\* The agents a compiled agent is given are exactly those reachable from its
\* list, and a cycle that is reported is one: its nodes follow each other and
\* it ends where it begins (resolveAgentsTopological, findCycleDFS).
ResolutionIsExact ==
    /\ (result = "compiled" /\ spec.agents # <<>>) =>
        DOMAIN agents = Reachable
    /\ result = "cycle" =>
        /\ Len(path) > 1 /\ path[1].node = path[Len(path)].node
        /\ \A i \in 1..(Len(path) - 1) : path[i + 1].node \in Members(Edges(path[i].node))

\* No order of compiling and compiling again lets a cycle of agents through,
\* but for an agent that names itself (kahnTopologicalSort).
CyclesAreCaught ==
    (result = "compiled" /\ spec.name \notin Members(spec.agents)) => Acyclic

\* "Agents that reference other agents are subject to topological sort + cycle
\* detection" (compiler.go:24): nor an agent that names itself.
SelfReferenceIsCaught == result = "compiled" => Acyclic

\* Every compilation ends.
CompileEnds == (pc # "idle") ~> (pc = "idle")
=============================================================================
