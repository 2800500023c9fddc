---------------------------- MODULE MCPromptCache ----------------------------
(***************************************************************************)
(* One node serving two requests at once, while its poll goroutine pulls:  *)
(* a second node would act on this one through Redis and the rows only,    *)
(* which the two requests already do between the steps of the pull.        *)
(* The table is empty or holds an active fragment that is not in Redis, as *)
(* before the first refresh after Redis has been replaced.                 *)
(***************************************************************************)
EXTENDS PromptCache

CONSTANTS s1, v1

Seeded == {<<>>, <<[id |-> MaxPuts + 1, slug |-> s1, version |-> v1, status |-> "active"]>>}
=============================================================================
