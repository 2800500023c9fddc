-------------------------- MODULE MCWorkflowGraph --------------------------
(***************************************************************************)
(* Definitions of one to three nodes with every pair of routers on the     *)
(* first two, definitions Parse or Compile must refuse, and a graph built  *)
(* in Go with a sub-agent; states with and without a Meta map; two runs.   *)
(***************************************************************************)
EXTENDS WorkflowGraph

\* Every router of the catalogue: config values are as YAML decodes them.
Slip == [type |-> "routing_slip",
         config |-> [slip_key |-> Str("slip"), pos_key |-> Str("pos")]]
Recipients == [type |-> "recipient_list",
               config |-> [recipients |-> List(<<Str("b"), Str("c")>>), pos_key |-> Str("pos")]]
Splitter == [type |-> "splitter",
             config |-> [input_key |-> Str("items"), item_key |-> Str("item"),
                         pos_key |-> Str("pos"), next |-> Str("b")]]
Aggregator == [type |-> "aggregator",
               config |-> [item_key |-> Str("item"), output_key |-> Str("acc"),
                           count_key |-> Str("count"), next |-> Str("c")]]
Branch == [type |-> "content_based",
           config |-> [key |-> Str("count"), cases |-> Map([x \in {"2"} |-> Str("c")]),
                       default |-> Str("nowhere")]]
Filter(op) == [type |-> "filter",
               config |-> [key |-> Str("item"), op |-> Str(op), value |-> Str("x"), next |-> Str("c")]]
Custom == [type |-> "custom", name |-> "choose"]
None == [type |-> "none"]

Catalogue == {Slip, Recipients, Splitter, Aggregator, Branch, Custom, None, Filter("eq")}

Node(id, type, router, next) ==
    [id |-> id, type |-> type, name |-> "work", output |-> IF type = "llm" THEN "said" ELSE "",
     tier |-> "fast", provider |-> "", prompt |-> "", router |-> router, next |-> next]

AllTypes == {"content_based", "filter", "routing_slip", "recipient_list", "splitter", "aggregator"}
Full == [llm |-> {"p1"}, tiers |-> {"fast"}, prompts |-> {"hello"}, tools |-> {"work"},
         custom |-> {"work", "choose"}, routers |-> AllTypes]

Definition(nodes) == [name |-> "w", nodes |-> nodes]
Yaml(nodes, regs) == [parse |-> TRUE, spec |-> Definition(nodes), regs |-> regs]
InGo(nodes, regs) == [parse |-> FALSE, spec |-> Definition(nodes), regs |-> regs]

Pairs ==
    {Yaml(<<Node("a", "tool", r, ""), Node("b", t, q, ""), Node("c", "llm", None, "")>>, Full) :
        r \in Catalogue, q \in Catalogue, t \in {"tool", "custom"}}

Links ==
    {Yaml(<<Node("a", "tool", None, x), Node("b", "tool", f, y)>>, Full) :
        x \in {"", END, "b", "nowhere"}, y \in {"", "a"},
        f \in {None, Filter("exists"), Filter("neq"), Filter("truthy"), Filter("like")}}

\* One thing wrong, or one registry short, at a time.
LLMNode(tier, provider, prompt) ==
    [Node("a", "llm", None, "") EXCEPT !.tier = tier, !.provider = provider, !.prompt = prompt]

Refused ==
    {Yaml(q, Full) : q \in {<<>>, <<Node("", "tool", None, "")>>, <<Node("a", "", None, "")>>,
                            <<Node("a", "shell", None, "")>>,
                            <<Node("a", "tool", None, ""), Node("a", "tool", None, "")>>,
                            <<Node("a", "tool", [type |-> "throttler", config |-> NoMap], "")>>}}
    \union {Yaml(<<Node("a", "tool", [r EXCEPT !.config = NoMap], "")>>, Full) :
                r \in {Slip, Recipients, Splitter, Aggregator, Branch, Filter("eq")}}
    \union {InGo(<<LLMNode(t, p, h)>>, g) : t \in {"", "fast", "smart"}, p \in {"", "p1"},
                h \in {"", "hello", "unknown"}, g \in {Full, [Full EXCEPT !.llm = Nil]}}
    \union {InGo(<<Node("a", t, Custom, "")>>, [Full EXCEPT !.custom = Nil]) : t \in {"tool", "custom"}}
    \union {InGo(<<Node("a", "tool", None, ""), Node("a", "tool", None, "")>>, Full)}

Definitions == Pairs \union Links \union Refused

Conditional == [type |-> "conditional", config |-> [routes |-> [k \in {"2"} |-> "b"]]]
Plain(run, router) == [run |-> run, output |-> "", router |-> router]
GoGraphs ==
    {[main |-> [entry |-> "a", nodes |-> [n \in {"a", "b"} |->
                    IF n = "a" THEN Plain("sub", r) ELSE Plain("tool", Slip)]],
      inner |-> i] :
        r \in {None, Slip, Conditional}, i \in {ChainOf(<<"a">>), ChainOf(<<"a", "b">>)}}

Meta(slip, count, pos) ==
    [k \in {"slip", "count", "pos"} |->
        CASE k = "slip" -> slip [] k = "count" -> count [] k = "pos" -> pos]
Data == [k \in {"items", "flag"} |-> IF k = "items" THEN List(<<Str("x"), Str("y")>>) ELSE Num(2)]
TwoStops == List(<<Str("b"), Str("a")>>)

Start ==
    {[data |-> Data, meta |-> NoMap],
     [data |-> Data, meta |-> Meta(TwoStops, Num(2), Num(0))],
     [data |-> NoMap, meta |-> Meta(Num(1), Str("2"), Num(-1))],
     [data |-> [k \in {"item", "acc", "items"} |-> IF k = "item" THEN Str("0") ELSE Num(0)],
      meta |-> Meta(TwoStops, Num(1), Bool(TRUE))]}

Answers == {"c", END}
Order == [n \in {"a", "b", "c"} |-> IF n = "a" THEN 1 ELSE IF n = "b" THEN 2 ELSE 3]

\* A run returns once its context is done, and without that when its cycles
\* lead through routers that count in a Meta map there is (Graph.Invoke leaves
\* termination to the routers): no retry can hang in a graph.
RunsReturn == (Running /\ (cancelled \/ Bounded(Order))) ~> ~Running
=============================================================================
