----------------------------- MODULE SpecStore -----------------------------
(***************************************************************************)
(* The contract of workflow.Store (pkg/workflow/interfaces.go), which the  *)
(* agent and skill stores repeat: a name has immutable, content-addressed  *)
(* versions, at most one of them active; Create adds a draft and revives a *)
(* deleted name, Activate moves the active mark, Delete hides the name and *)
(* drops the mark.  A backend implements this specification when, under a  *)
(* refinement mapping, each of its calls is one of these steps and answers *)
(* what the step answers.                                                  *)
(***************************************************************************)
CONSTANTS
    Names,     \* (tenant, name) pairs: every method is confined to one pair
    Versions,  \* content hashes
    None       \* "no version is active"; also the answer before any call

VARIABLES
    live,      \* names created and not deleted
    versions,  \* versions[n]: every version ever created under n
    active,    \* active[n]: the version Get returns, or None
    reply      \* what the last call answered

vars == <<live, versions, active, reply>>

Answer(op, n, result) == [op |-> op, name |-> n, result |-> result]

Init ==
    /\ live = {}
    /\ versions = [n \in Names |-> {}]
    /\ active = [n \in Names |-> None]
    /\ reply = Answer("none", None, None)

\* A draft is added; the name is live afterwards; the active mark stays.
Create(n, v) ==
    /\ live' = live \union {n}
    /\ versions' = [versions EXCEPT ![n] = @ \union {v}]
    /\ reply' = Answer("Create", n, v)
    /\ UNCHANGED active

Get(n) ==
    /\ reply' = Answer("Get", n, IF n \in live /\ active[n] # None
                                 THEN active[n] ELSE "ErrNotFound")
    /\ UNCHANGED <<live, versions, active>>

GetVersion(n, v) ==
    /\ reply' = Answer("GetVersion", n, IF n \in live /\ v \in versions[n]
                                        THEN v ELSE "ErrNotFound")
    /\ UNCHANGED <<live, versions, active>>

Activate(n, v) ==
    \/ /\ n \in live
       /\ v \in versions[n]
       /\ active' = [active EXCEPT ![n] = v]
       /\ reply' = Answer("Activate", n, "ok")
       /\ UNCHANGED <<live, versions>>
    \/ /\ n \in live
       /\ v \notin versions[n]
       /\ reply' = Answer("Activate", n, "ErrVersionConflict")
       /\ UNCHANGED <<live, versions, active>>
    \/ /\ n \notin live
       /\ reply' = Answer("Activate", n, "ErrNotFound")
       /\ UNCHANGED <<live, versions, active>>

Delete(n) ==
    \/ /\ n \in live
       /\ live' = live \ {n}
       /\ active' = [active EXCEPT ![n] = None]
       /\ reply' = Answer("Delete", n, "ok")
       /\ UNCHANGED versions
    \/ /\ n \notin live
       /\ reply' = Answer("Delete", n, "ErrNotFound")
       /\ UNCHANGED <<live, versions, active>>

Next ==
    \E n \in Names :
        \/ Get(n)
        \/ Delete(n)
        \/ \E v \in Versions : Create(n, v) \/ GetVersion(n, v) \/ Activate(n, v)

Spec == Init /\ [][Next]_vars
=============================================================================
