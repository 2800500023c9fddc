---------------------------- MODULE MCCallGuards ----------------------------
EXTENDS CallGuards
MCChains == {<<"recover", "budget", "iterations", "retry">>,
             <<"retry", "timeout", "budget", "iterations", "logging">>}
=============================================================================
