----------------------------- MODULE MCStreams -----------------------------
(***************************************************************************)
(* Every order of an adapter, a relay and a timeout that the code can      *)
(* build from one or two middlewares, and the pipelines of three that nest *)
(* a timeout or enclose it.                                                *)
(***************************************************************************)
EXTENDS Streams

MCPipelines == {
    <<>>, <<"relay">>, <<"timeout">>, <<"adapter">>,
    <<"relay", "timeout">>, <<"timeout", "relay">>, <<"timeout", "timeout">>,
    <<"adapter", "relay">>, <<"adapter", "timeout">>,
    <<"adapter", "timeout", "relay">>, <<"timeout", "relay", "timeout">> }

Deadlines == { <<"timeout">>, <<"adapter", "timeout">> }
=============================================================================
