------------------------ MODULE WorkflowMemoryStore ------------------------
(***************************************************************************)
(* pkg/workflow/store/memory: the in-process workflow store (the skill     *)
(* store of pkg/skill/store/memory is the same code for another type).     *)
(* Every method holds Store.mu for its whole body, so a call is one step.  *)
(* An entry keeps its versions with a Status of their own, the order they  *)
(* were created in, the active version and the soft-delete flag: the same  *)
(* fact -- which version is live -- is written in two places.              *)
(***************************************************************************)
EXTENDS Sequences, Naturals

CONSTANTS Names, Versions, None

VARIABLES
    entries,      \* names with an entry in their tenant's bucket
    status,       \* status[n][v]: "absent", or Status of the stored spec
    versionList,  \* versionList[n]: versions in creation order
    active,       \* active[n]: entry.active
    deleted,      \* deleted[n]: entry.deleted
    reply,        \* what the last call answered
    everDeleted   \* history: names some Delete has succeeded for

vars == <<entries, status, versionList, active, deleted, reply, everDeleted>>

Stored(n) == {v \in Versions : status[n][v] # "absent"}

\* findEntry succeeds.
Found(n) == n \in entries /\ ~deleted[n]

Live == {n \in Names : Found(n)}

Answer(op, n, result) == [op |-> op, name |-> n, result |-> result]

Init ==
    /\ entries = {}
    /\ status = [n \in Names |-> [v \in Versions |-> "absent"]]
    /\ versionList = [n \in Names |-> <<>>]
    /\ active = [n \in Names |-> None]
    /\ deleted = [n \in Names |-> FALSE]
    /\ reply = Answer("none", None, None)
    /\ everDeleted = {}

\* The entry is revived before the version is looked up; a version already
\* stored keeps whatever Status it has.
Create(n, v) ==
    /\ entries' = entries \union {n}
    /\ deleted' = [deleted EXCEPT ![n] = FALSE]
    /\ reply' = Answer("Create", n, v)
    /\ \/ /\ v \in Stored(n)
          /\ UNCHANGED <<status, versionList>>
       \/ /\ v \notin Stored(n)
          /\ status' = [status EXCEPT ![n][v] = "draft"]
          /\ versionList' = [versionList EXCEPT ![n] = Append(@, v)]
    /\ UNCHANGED <<active, everDeleted>>

Get(n) ==
    /\ reply' = Answer("Get", n, IF Found(n) /\ active[n] # None
                                 THEN active[n] ELSE "ErrNotFound")
    /\ UNCHANGED <<entries, status, versionList, active, deleted, everDeleted>>

GetVersion(n, v) ==
    /\ reply' = Answer("GetVersion", n, IF Found(n) /\ v \in Stored(n)
                                        THEN v ELSE "ErrNotFound")
    /\ UNCHANGED <<entries, status, versionList, active, deleted, everDeleted>>

\* Mutant: the previously active version is not sent back to draft.
ActivateWithoutDemotion(n, v) ==
    /\ Found(n)
    /\ v \in Stored(n)
    /\ status' = [status EXCEPT ![n][v] = "active"]
    /\ active' = [active EXCEPT ![n] = v]
    /\ reply' = Answer("Activate", n, "ok")
    /\ UNCHANGED <<entries, versionList, deleted, everDeleted>>

\* The Status fields of n after versions[e.active], if there is one, is demoted.
Demoted(n) ==
    [w \in Versions |-> IF w = active[n] /\ w \in Stored(n)
                        THEN "draft" ELSE status[n][w]]

\* The previous version is demoted only when entry.active still names it.
Activate(n, v) ==
    \/ /\ Found(n)
       /\ v \in Stored(n)
       /\ status' = [status EXCEPT ![n] = [Demoted(n) EXCEPT ![v] = "active"]]
       /\ active' = [active EXCEPT ![n] = v]
       /\ reply' = Answer("Activate", n, "ok")
       /\ UNCHANGED <<entries, versionList, deleted, everDeleted>>
    \/ /\ Found(n)
       /\ v \notin Stored(n)
       /\ reply' = Answer("Activate", n, "ErrVersionConflict")
       /\ UNCHANGED <<entries, status, versionList, active, deleted, everDeleted>>
    \/ /\ ~Found(n)
       /\ reply' = Answer("Activate", n, "ErrNotFound")
       /\ UNCHANGED <<entries, status, versionList, active, deleted, everDeleted>>

\* Mutant: the active mark survives the soft delete.
DeleteKeepingActive(n) ==
    /\ Found(n)
    /\ deleted' = [deleted EXCEPT ![n] = TRUE]
    /\ reply' = Answer("Delete", n, "ok")
    /\ everDeleted' = everDeleted \union {n}
    /\ UNCHANGED <<entries, status, versionList, active>>

\* Only the entry is touched: the Status of the version that was active stays.
Delete(n) ==
    \/ /\ Found(n)
       /\ deleted' = [deleted EXCEPT ![n] = TRUE]
       /\ active' = [active EXCEPT ![n] = None]
       /\ reply' = Answer("Delete", n, "ok")
       /\ everDeleted' = everDeleted \union {n}
       /\ UNCHANGED <<entries, status, versionList>>
    \/ /\ ~Found(n)
       /\ reply' = Answer("Delete", n, "ErrNotFound")
       /\ UNCHANGED <<entries, status, versionList, active, deleted, everDeleted>>

Next ==
    \E n \in Names :
        \/ Get(n)
        \/ Delete(n)
        \/ \E v \in Versions : Create(n, v) \/ GetVersion(n, v) \/ Activate(n, v)

Spec == Init /\ [][Next]_vars
-----------------------------------------------------------------------------
\* The entry's fields have the shape the struct declares.
TypeOK ==
    /\ entries \subseteq Names
    /\ status \in [Names -> [Versions -> {"absent", "draft", "active"}]]
    /\ versionList \in [Names -> Seq(Versions)]
    /\ active \in [Names -> Versions \union {None}]
    /\ deleted \in [Names -> BOOLEAN]
    /\ everDeleted \subseteq Names

\* The version Get hands out exists, says of itself that it is active, and
\* belongs to a name that is neither deleted nor missing: Get never follows a
\* dangling mark (memory.go:82 dereferences it unchecked).
ActiveIsServed ==
    \A n \in Names : active[n] # None =>
        /\ Found(n)
        /\ status[n][active[n]] = "active"

\* As long as a name has never been deleted, the Status fields and the active
\* mark agree: exactly the active version calls itself active.
StatusAgreesUntilDelete ==
    \A n \in Names \ everDeleted : \A v \in Versions :
        status[n][v] = "active" => active[n] = v

\* versionList and the version map describe the same set, without repetition,
\* so ListVersions shows each version once -- also after delete and re-create.
ListIsExact ==
    \A n \in Names :
        /\ \A i \in 1..Len(versionList[n]) : versionList[n][i] \in Stored(n)
        /\ \A v \in Stored(n) : \E i \in 1..Len(versionList[n]) : versionList[n][i] = v
        /\ \A i, j \in 1..Len(versionList[n]) :
               versionList[n][i] = versionList[n][j] => i = j

\* A name without an entry has nothing stored, and has never been deleted.
AbsentIsEmpty ==
    \A n \in Names \ entries :
        /\ Stored(n) = {}
        /\ ~deleted[n]
        /\ n \notin everDeleted

\* The store implements the contract of workflow.Store, answers included.
Contract == INSTANCE SpecStore WITH
    live <- Live,
    versions <- [n \in Names |-> Stored(n)]

ImplementsContract == Contract!Spec
=============================================================================
