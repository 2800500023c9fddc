---------------------------- MODULE MCAgentLoop ----------------------------
(***************************************************************************)
(* A chain of three agents with a depth limit of one, so that the guard    *)
(* fires; the resolver gives an agent all the agents it reaches.  Two      *)
(* concurrent runs, or two in a row.                                       *)
(***************************************************************************)
EXTENDS AgentLoop

CONSTANTS a1, a2, a3

Reaches == [a \in {a1, a2, a3} |-> IF a = a1 THEN {a2, a3} ELSE IF a = a2 THEN {a3} ELSE {}]
=============================================================================
