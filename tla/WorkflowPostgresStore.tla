----------------------- MODULE WorkflowPostgresStore -----------------------
(***************************************************************************)
(* pkg/workflow/store/postgres: the calls of several processes on the rows *)
(* of one (tenant, name), statement by statement.  (The skill store sends  *)
(* the same statements to a table of its own.)                             *)
(*                                                                         *)
(* PostgreSQL runs them at READ COMMITTED, external to the repository: an  *)
(* UPDATE takes the rows its WHERE clause selects in a snapshot of what is *)
(* committed when the statement begins, then locks them one after another, *)
(* waiting for the transaction that holds a row, and updates a row only if *)
(* the clause still selects it as it is then.  Locks go with the           *)
(* transaction; a statement outside a transaction commits when it ends.    *)
(***************************************************************************)
EXTENDS Naturals, FiniteSets

CONSTANTS
    Versions,  \* content hashes stored under the name
    Procs,     \* callers: goroutines and processes sharing the database
    None

ASSUME NoneIsNoRow == None \notin [status : {"draft", "active"}, deleted : BOOLEAN]

VARIABLES
    row,        \* row[w]: the committed row of version w, None before INSERT
    call,       \* call[p]: the call p is executing and where it is in it
    staged,     \* staged[p][w]: the row p's open transaction has written
    overlapped  \* history: two Activate calls have been under way at once

vars == <<row, call, staged, overlapped>>

Row == [status : {"draft", "active"}, deleted : BOOLEAN]

Idle == [op |-> "idle", version |-> None, stmt |-> "none", todo |-> {}]

\* What a statement of p sees in row w: its own writes, else what is committed.
Seen(p, w) == IF staged[p][w] # None THEN staged[p][w] ELSE row[w]

LockedByOther(p, w) == \E q \in Procs \ {p} : staged[q][w] # None

\* Mutant: the demotion leaves soft-deleted rows out, as the other reads do.
DemoteLiveRows(stmt, v, w, r) ==
    /\ r # None
    /\ \/ stmt = "resurrect" /\ r.deleted
       \/ stmt = "demote" /\ r.status = "active" /\ ~r.deleted
       \/ stmt = "promote" /\ w = v
       \/ stmt = "delete" /\ ~r.deleted

\* WHERE clause of a statement, for the row r of version w.
Selects(stmt, v, w, r) ==
    /\ r # None
    /\ \/ stmt = "resurrect" /\ r.deleted
       \/ stmt = "demote" /\ r.status = "active"
       \/ stmt = "promote" /\ w = v
       \/ stmt = "delete" /\ ~r.deleted

\* SET clause of a statement.
Updated(stmt, r) ==
    CASE stmt = "resurrect" -> [r EXCEPT !.deleted = FALSE]
      [] stmt = "demote" -> [r EXCEPT !.status = "draft"]
      [] stmt = "promote" -> [r EXCEPT !.status = "active"]
      [] stmt = "delete" -> [status |-> "draft", deleted |-> TRUE]

Init ==
    /\ row = [w \in Versions |-> None]
    /\ call = [p \in Procs |-> Idle]
    /\ staged = [p \in Procs |-> [w \in Versions |-> None]]
    /\ overlapped = FALSE

InCall(p, op, stmt) == call[p].op = op /\ call[p].stmt = stmt

Goto(p, stmt) == call' = [call EXCEPT ![p].stmt = stmt, ![p].todo = {}]

Return(p) == call' = [call EXCEPT ![p] = Idle]

\* p's writes become visible and its locks are released.
Commit(p) ==
    /\ row' = [w \in Versions |-> Seen(p, w)]
    /\ staged' = [staged EXCEPT ![p] = [w \in Versions |-> None]]

-----------------------------------------------------------------------------
\* A call begins; Activate opens a transaction (its pool.Begin).
Start(p, op, v, stmt) ==
    /\ call[p] = Idle
    /\ call' = [call EXCEPT ![p] = [op |-> op, version |-> v, stmt |-> stmt, todo |-> {}]]
    /\ overlapped' = (overlapped \/ (op = "Activate" /\
                                     \E q \in Procs : call[q].op = "Activate"))
    /\ UNCHANGED <<row, staged>>

StartCreate(p, v) == Start(p, "Create", v, "resurrect?")
StartActivate(p, v) == Start(p, "Activate", v, "exists?")
StartDelete(p) == Start(p, "Delete", None, "exists?")

\* An UPDATE takes its snapshot.
BeginUpdate(p, stmt, asked) ==
    /\ call[p].stmt = asked
    /\ call' = [call EXCEPT ![p].stmt = stmt,
                            ![p].todo = {w \in Versions :
                                Selects(stmt, call[p].version, w, Seen(p, w))}]
    /\ UNCHANGED <<row, staged, overlapped>>

BeginResurrect(p) == BeginUpdate(p, "resurrect", "resurrect?")
BeginDemote(p) == BeginUpdate(p, "demote", "demote?")
BeginPromote(p) == BeginUpdate(p, "promote", "promote?")
BeginDelete(p) == BeginUpdate(p, "delete", "delete?")

\* The running UPDATE locks one of the rows it selected, as soon as no other
\* transaction holds it, and rewrites it if the clause still selects it.
UpdateRow(p, w) ==
    /\ w \in call[p].todo
    /\ ~LockedByOther(p, w)
    /\ call' = [call EXCEPT ![p].todo = @ \ {w}]
    /\ \/ /\ Selects(call[p].stmt, call[p].version, w, Seen(p, w))
          /\ staged' = [staged EXCEPT ![p][w] = Updated(call[p].stmt, Seen(p, w))]
       \/ /\ ~Selects(call[p].stmt, call[p].version, w, Seen(p, w))
          /\ UNCHANGED staged
    /\ UNCHANGED <<row, overlapped>>

UpdateDone(p, stmt) == call[p].stmt = stmt /\ call[p].todo = {}

-----------------------------------------------------------------------------
\* Create: UPDATE ... deleted_at = NULL commits on its own, then the INSERT.
EndResurrect(p) ==
    /\ UpdateDone(p, "resurrect")
    /\ Commit(p)
    /\ Goto(p, "insert")
    /\ UNCHANGED overlapped

\* INSERT ... ON CONFLICT DO NOTHING.
Insert(p) ==
    /\ InCall(p, "Create", "insert")
    /\ \/ /\ row[call[p].version] = None
          /\ row' = [row EXCEPT ![call[p].version] = [status |-> "draft", deleted |-> FALSE]]
       \/ /\ row[call[p].version] # None
          /\ UNCHANGED row
    /\ Return(p)
    /\ UNCHANGED <<staged, overlapped>>

\* Activate: SELECT EXISTS does not look at deleted_at.
CheckVersion(p) ==
    /\ InCall(p, "Activate", "exists?")
    /\ \/ row[call[p].version] # None /\ Goto(p, "demote?")
       \/ row[call[p].version] = None /\ Return(p)
    /\ UNCHANGED <<row, staged, overlapped>>

\* Mutant: the demotion is committed on its own instead of with the promotion.
EndDemoteCommitting(p) ==
    /\ UpdateDone(p, "demote")
    /\ Goto(p, "promote?")
    /\ Commit(p)
    /\ UNCHANGED overlapped

EndDemote(p) ==
    /\ UpdateDone(p, "demote")
    /\ Goto(p, "promote?")
    /\ UNCHANGED <<row, staged, overlapped>>

EndPromote(p) ==
    /\ UpdateDone(p, "promote")
    /\ Goto(p, "commit")
    /\ UNCHANGED <<row, staged, overlapped>>

CommitActivate(p) ==
    /\ InCall(p, "Activate", "commit")
    /\ Commit(p)
    /\ Return(p)
    /\ UNCHANGED overlapped

\* Delete: findName, then one UPDATE that commits on its own.
FindName(p) ==
    /\ InCall(p, "Delete", "exists?")
    /\ \/ (\E w \in Versions : row[w] # None /\ ~row[w].deleted) /\ Goto(p, "delete?")
       \/ (\A w \in Versions : row[w] # None => row[w].deleted) /\ Return(p)
    /\ UNCHANGED <<row, staged, overlapped>>

EndDelete(p) ==
    /\ UpdateDone(p, "delete")
    /\ Commit(p)
    /\ Return(p)
    /\ UNCHANGED overlapped

\* Mutant: a call that fails returns without the rollback; the transaction stays open.
AbandonWithoutRollback(p) ==
    /\ call[p] # Idle
    /\ Return(p)
    /\ UNCHANGED <<row, staged, overlapped>>

\* The context is cancelled, the connection or the process is lost: the open
\* transaction is rolled back (the deferred tx.Rollback) and the call is over.
Abandon(p) ==
    /\ call[p] # Idle
    /\ staged' = [staged EXCEPT ![p] = [w \in Versions |-> None]]
    /\ Return(p)
    /\ UNCHANGED <<row, overlapped>>

\* p waits for a row of q.
WaitsFor(p, q) ==
    /\ call[p].todo # {}
    /\ \A w \in call[p].todo : LockedByOther(p, w)
    /\ \E w \in call[p].todo : staged[q][w] # None

\* PostgreSQL aborts a transaction it finds in a cycle of waiting ones.
DeadlockDetected(p) ==
    /\ \E S \in SUBSET Procs :
           /\ p \in S
           /\ \A q \in S : \E r \in S \ {q} : WaitsFor(q, r)
    /\ Abandon(p)

Step(p) ==
    \/ BeginResurrect(p) \/ BeginDemote(p) \/ BeginPromote(p) \/ BeginDelete(p)
    \/ \E w \in Versions : UpdateRow(p, w)
    \/ EndResurrect(p) \/ Insert(p)
    \/ CheckVersion(p) \/ EndDemote(p) \/ EndPromote(p) \/ CommitActivate(p)
    \/ FindName(p) \/ EndDelete(p)
    \/ DeadlockDetected(p)

Next ==
    \E p \in Procs :
        \/ StartDelete(p)
        \/ \E v \in Versions : StartCreate(p, v) \/ StartActivate(p, v)
        \/ Step(p)
        \/ Abandon(p)

\* The server keeps executing a statement it has been sent.  It queues those
\* that wait for a row and grants it in turn, so that a row which is free again
\* and again is not withheld from a waiting transaction for ever.
Spec ==
    /\ Init /\ [][Next]_vars
    /\ \A p \in Procs : WF_vars(Step(p)) /\ SF_vars(\E w \in Versions : UpdateRow(p, w))
-----------------------------------------------------------------------------
TypeOK ==
    /\ row \in [Versions -> Row \union {None}]
    /\ call \in [Procs -> [op : {"idle", "Create", "Activate", "Delete"},
                           version : Versions \union {None},
                           stmt : {"none", "resurrect?", "resurrect", "insert", "exists?",
                                   "demote?", "demote", "promote?", "promote", "commit",
                                   "delete?", "delete"},
                           todo : SUBSET Versions]]
    /\ staged \in [Procs -> [Versions -> Row \union {None}]]
    /\ overlapped \in BOOLEAN

IsActive(w) == row[w] # None /\ row[w].status = "active"

\* What Get's SELECT ... LIMIT 1 can return.
Served == {w \in Versions : IsActive(w) /\ ~row[w].deleted}

\* Two transactions never hold the same row (what makes "lock, then re-check"
\* meaningful).
RowsAreLockedOnce ==
    \A w \in Versions : \A p, q \in Procs :
        staged[p][w] # None /\ staged[q][w] # None => p = q

\* As long as Activate calls on a name do not overlap, whatever Create, Delete,
\* failures and rollbacks happen around them, one version at most is active.
SerialActivatesKeepOneActive ==
    ~overlapped => \A v, w \in Versions : IsActive(v) /\ IsActive(w) => v = w

\* Get returns the active version: there is one to return.
OneVersionServed == Cardinality(Served) <= 1

\* Demotion and promotion are one commit: however the calls overlap and fail,
\* an activated name goes back to having no active version in a Delete only.
ActiveLostInDeleteOnly ==
    [][(\E w \in Versions : IsActive(w)) /\ (\A w \in Versions : ~IsActive(w)')
       => \E p \in Procs : EndDelete(p)]_vars

\* Create is idempotent for what is being served: no step of a Create takes a
\* status away, not even a resurrection whose snapshot is out of date.
CreateKeepsStatus ==
    [][\A p \in Procs : call[p].op = "Create" /\ call'[p] # call[p] =>
          \A w \in Versions : row[w] # None =>
              row'[w] # None /\ row'[w].status = row[w].status]_vars

\* A version that was active when its name was deleted is not active after the
\* delete: reviving the name does not put it back in service.
DeleteDemotes ==
    [][\A p \in Procs : EndDelete(p) =>
          \A w \in Versions : row[w] # None /\ row'[w].deleted /\ ~row[w].deleted =>
              row'[w].status = "draft"]_vars

\* Every call ends, deadlocks between row locks included.
CallsEnd == \A p \in Procs : call[p] # Idle ~> call[p] = Idle
=============================================================================
