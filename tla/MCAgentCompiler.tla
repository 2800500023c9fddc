-------------------------- MODULE MCAgentCompiler --------------------------
(***************************************************************************)
(* Three agents, compiled and compiled again in any order, each with any   *)
(* list of up to two others or itself; references that do not resolve.     *)
(***************************************************************************)
EXTENDS AgentCompiler

CONSTANTS a, b, c

Lists == {<<>>} \union {<<x>> : x \in Names} \union {<<x, y>> : x, y \in Names}

Whole(n, q) == [name |-> n, agents |-> q, prompt |-> "p", tools |-> {"t"}, skills |-> {"s"},
                tags |-> {"fast"}]

Definitions ==
    {Whole(n, q) : n \in Names, q \in Lists}
    \union {[Whole(a, <<>>) EXCEPT !.prompt = "q"], [Whole(a, <<b>>) EXCEPT !.prompt = ""],
            [Whole(a, <<>>) EXCEPT !.tools = {"t", "u"}],
            [Whole(a, <<b>>) EXCEPT !.skills = {"u"}], [Whole(a, <<b>>) EXCEPT !.tags = {"fast", "eu"}]}

Registries == [prompts |-> {"p"}, tools |-> {"t"}, skills |-> {"s"},
               providers |-> {{"fast", "us"}, {"smart", "eu"}}]
=============================================================================
