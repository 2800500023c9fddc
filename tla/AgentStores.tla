---------------------------- MODULE AgentStores ----------------------------
(***************************************************************************)
(* pkg/agent/store: the in-memory and the PostgreSQL store of agents, on   *)
(* the versions of one (tenant, name).                                     *)
(*                                                                         *)
(* A method of MemoryStore holds its mutex and is one action.  A method of *)
(* PostgresStore sends its statements one by one, outside a transaction:   *)
(* each takes its snapshot (Send) and takes effect later, on the rows of    *)
(* the snapshot that its WHERE clause still selects then, as PostgreSQL    *)
(* does at READ COMMITTED.  Between the two, and between two statements,   *)
(* other callers' statements come.  A caller may give up; the statement it *)
(* has sent may then still take effect, at any time, or never.             *)
(***************************************************************************)
EXTENDS FiniteSets

CONSTANTS
    Versions,  \* content hashes of the agent's specs
    Callers,   \* connections on which goroutines and processes call
    None

ASSUME NoneIsNoVersion == None \notin Versions

VARIABLES
    backend,   \* whose code runs: "memory" or "postgres"
    entry,     \* MemoryStore: the versions, the active one, the deleted flag
    table,      \* PostgresStore: table[w] is the status column of version w
    call,      \* call[p]: the method p is in, its statement and its snapshot
    allowed,   \* history: the active sets that the calls so far allow
    contended  \* history: an Activate or Delete began while a statement of another could take effect

agentVars == <<backend, entry, table, call, allowed, contended>>

Statuses == {"none", "draft", "active", "deleted"}
Idle == [op |-> "idle", version |-> None, stmt |-> "none", sent |-> FALSE, hit |-> {}]
Writers == {"Activate", "Delete"}

Lost(p) == call[p].op = "lost"

\* An Activate or Delete is under way, or was given up and left a statement.
Unsettled(c) == c.op \in Writers \/ (c.op = "lost" /\ c.stmt \in {"demote", "promote", "delete"})

Init ==
    /\ backend \in {"memory", "postgres"}
    /\ entry = [stored |-> {}, active |-> None, deleted |-> FALSE]
    /\ table = [w \in Versions |-> "none"]
    /\ call = [p \in Callers |-> Idle]
    /\ allowed = {{}}
    /\ contended = FALSE

-----------------------------------------------------------------------------
\* MemoryStore.findEntry.
Found == entry.stored # {} /\ ~entry.deleted

InMemory(e, sets) ==
    /\ backend = "memory"
    /\ entry' = e
    /\ allowed' = sets
    /\ UNCHANGED <<backend, table, call, contended>>

\* Create revives a deleted agent, and appends a version it does not hold.
CreateInMemory(v) ==
    InMemory([entry EXCEPT !.stored = @ \union {v}, !.deleted = FALSE], allowed)

ActivateInMemory(v) ==
    /\ Found /\ v \in entry.stored
    /\ InMemory([entry EXCEPT !.active = v], {{v}})

DeleteInMemory ==
    /\ Found
    /\ InMemory([entry EXCEPT !.deleted = TRUE, !.active = None], {{}})

-----------------------------------------------------------------------------
\* WHERE and SET of each statement.
Selects(stmt, v, w, status) ==
    \/ stmt = "resurrect" /\ status = "deleted"
    \/ stmt = "demote" /\ status = "active"
    \/ stmt = "promote" /\ w = v /\ status # "none"
    \/ stmt = "delete" /\ status # "none"

SetTo(stmt) ==
    CASE stmt \in {"resurrect", "demote"} -> "draft"
      [] stmt = "promote" -> "active"
      [] stmt = "delete" -> "deleted"

Start(p, op, v, stmt) ==
    /\ backend = "postgres"
    /\ call[p] = Idle
    /\ call' = [call EXCEPT ![p] = [Idle EXCEPT !.op = op, !.version = v, !.stmt = stmt]]
    /\ contended' = (contended \/ (op \in Writers /\ \E q \in Callers : Unsettled(call[q])))
    /\ UNCHANGED <<backend, entry, table, allowed>>

StartCreate(p, v) == Start(p, "Create", v, "resurrect")
StartActivate(p, v) == Start(p, "Activate", v, "exists")
StartDelete(p) == Start(p, "Delete", None, "delete")

\* An UPDATE takes its snapshot.
Send(p) ==
    /\ call[p].stmt \in {"resurrect", "demote", "promote", "delete"}
    /\ ~call[p].sent
    /\ call' = [call EXCEPT ![p].sent = TRUE,
                            ![p].hit = {w \in Versions :
                                Selects(call[p].stmt, call[p].version, w, table[w])}]
    /\ UNCHANGED <<backend, entry, table, allowed, contended>>

\* The table as an UPDATE of p leaves it.
Updated(p) ==
    [w \in Versions |->
        IF w \in call[p].hit /\ Selects(call[p].stmt, call[p].version, w, table[w])
        THEN SetTo(call[p].stmt) ELSE table[w]]

NextStatement(p, stmt) ==
    call' = [call EXCEPT ![p].stmt = stmt, ![p].sent = FALSE, ![p].hit = {}]

Return(p) == call' = [call EXCEPT ![p] = Idle]

Took(p, stmt) == ~Lost(p) /\ call[p].sent /\ call[p].stmt = stmt

-----------------------------------------------------------------------------
\* Create: UPDATE ... SET status = 'draft' WHERE status = 'deleted', then INSERT.
Resurrect(p) ==
    /\ Took(p, "resurrect")
    /\ table' = Updated(p)
    /\ NextStatement(p, "insert")
    /\ UNCHANGED <<backend, entry, allowed, contended>>

\* ON CONFLICT DO NOTHING.
Inserted(p) == [w \in Versions |-> IF w = call[p].version /\ table[w] = "none" THEN "draft" ELSE table[w]]

Insert(p) ==
    /\ ~Lost(p) /\ call[p].stmt = "insert"
    /\ table' = Inserted(p)
    /\ Return(p)
    /\ UNCHANGED <<backend, entry, allowed, contended>>

\* Mutant: the version in service is not demoted.
CheckExistsThenPromote(p) ==
    /\ call[p].stmt = "exists"
    /\ \/ table[call[p].version] # "none" /\ NextStatement(p, "promote")
       \/ table[call[p].version] = "none" /\ Return(p)
    /\ UNCHANGED <<backend, entry, table, allowed, contended>>

\* Activate: SELECT EXISTS of any status, one UPDATE that demotes and one that
\* promotes.  (A row is never removed: "activate failed" cannot be answered.)
CheckExists(p) ==
    /\ call[p].stmt = "exists"
    /\ \/ table[call[p].version] # "none" /\ NextStatement(p, "demote")
       \/ table[call[p].version] = "none" /\ Return(p)
    /\ UNCHANGED <<backend, entry, table, allowed, contended>>

Demote(p) ==
    /\ Took(p, "demote")
    /\ table' = Updated(p)
    /\ NextStatement(p, "promote")
    /\ UNCHANGED <<backend, entry, allowed, contended>>

Promote(p) ==
    /\ Took(p, "promote")
    /\ table' = Updated(p)
    /\ Return(p)
    /\ allowed' = {{call[p].version}}
    /\ UNCHANGED <<backend, entry, contended>>

\* Delete: every row of the name.
DeleteRows(p) ==
    /\ Took(p, "delete")
    /\ table' = Updated(p)
    /\ Return(p)
    /\ allowed' = {{}}
    /\ UNCHANGED <<backend, entry, contended>>

\* What the last statement of a method that is given up may leave besides what
\* was there; once it demotes, nothing is active until it promotes.
Half(p) ==
    CASE call[p].stmt \in {"demote", "delete"} -> {{}}
      [] call[p].stmt = "promote" -> {{}, {call[p].version}}
      [] OTHER -> {}

\* The context ends, the connection or the process is lost: there is no
\* transaction to roll back.  (A statement whose answer alone is lost has taken
\* effect before.)
GiveUp(p) ==
    /\ call[p] # Idle /\ ~Lost(p)
    /\ \/ Return(p)
       \/ call[p].stmt # "exists" /\ call' = [call EXCEPT ![p].op = "lost"]
    /\ allowed' = allowed \union Half(p)
    /\ UNCHANGED <<backend, entry, table, contended>>

\* The server executes the statement after all, or finds the connection closed.
TakesEffectLate(p) ==
    /\ Lost(p)
    /\ \/ call[p].stmt = "insert" /\ table' = Inserted(p)
       \/ call[p].sent /\ table' = Updated(p)
       \/ table' = table
    /\ Return(p)
    /\ UNCHANGED <<backend, entry, allowed, contended>>

Next ==
    \/ \E v \in Versions : CreateInMemory(v) \/ ActivateInMemory(v)
    \/ DeleteInMemory
    \/ \E p \in Callers :
           \/ \E v \in Versions : StartCreate(p, v) \/ StartActivate(p, v)
           \/ StartDelete(p)
           \/ Send(p) \/ Resurrect(p) \/ Insert(p)
           \/ CheckExists(p) \/ Demote(p) \/ Promote(p)
           \/ DeleteRows(p)
           \/ GiveUp(p) \/ TakesEffectLate(p)

Spec == Init /\ [][Next]_agentVars

-----------------------------------------------------------------------------
TypeOK ==
    /\ backend \in {"memory", "postgres"}
    /\ entry \in [stored : SUBSET Versions, active : Versions \union {None}, deleted : BOOLEAN]
    /\ table \in [Versions -> Statuses]
    /\ call \in [Callers -> [op : {"idle", "Create", "lost"} \union Writers, version : Versions \union {None},
                             stmt : {"none", "resurrect", "insert", "exists", "demote", "promote", "delete"},
                             sent : BOOLEAN, hit : SUBSET Versions]]
    /\ allowed \in SUBSET SUBSET Versions
    /\ contended \in BOOLEAN

\* What Get may return: in memory the active version unless the agent is
\* deleted, in PostgreSQL a row with status active.
Active ==
    IF backend = "memory" THEN IF Found THEN {entry.active} \ {None} ELSE {}
    ELSE {w \in Versions : table[w] = "active"}

Quiet == \A p \in Callers : call[p].op \notin Writers

\* Get serves what the last Activate or Delete to return made active, and one
\* version at most, whatever Create calls overlap it.  When calls were given up,
\* what they found, nothing - Activate has demoted and not promoted - or what
\* they were to activate.  An Activate or Delete that begins while a statement
\* of another can still take effect is left out: the statements of Activate are
\* no transaction, and two versions or none may stay in service then.
GetServesThePromised == (Quiet /\ ~contended) => Active \in allowed

\* What docs/reviews/0006-agents-skills-pr-review.md says of Activate, that it
\* is a transaction of the check, the demotion and the promotion: a name that
\* serves a version loses it in a Delete only.  (Broken, see Demote.)
ServedUntilDelete ==
    [][(Active # {} /\ Active' = {}) =>
           DeleteInMemory \/ \E p \in Callers : call[p].stmt = "delete" /\ call'[p] = Idle]_agentVars
=============================================================================
