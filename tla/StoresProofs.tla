---------------------------- MODULE StoresProofs ----------------------------
(***************************************************************************)
(* What the runs check of the stores on files, objects and rows, for any   *)
(* versions, agents, slugs, callers, workers, requests and processes.      *)
(*                                                                         *)
(* Each family has an inductive invariant of its own: AgentsInv,           *)
(* PromptsInv, GitInv, MessagesInv, ReadersInv.  The last section carries  *)
(* the results over to the composition.                                    *)
(***************************************************************************)
EXTENDS MCStores, FiniteSetTheorems, WellFoundedInduction, TLAPS

-----------------------------------------------------------------------------
(* The agent stores: what Get serves is what the calls that returned promised. *)

\* The rows in service.
Serving == {w \in Versions : table[w] = "active"}

\* The statements of each method.
Shape(c) ==
    \/ c = Idle
    \/ c.op = "Create" /\ c.version \in Versions /\ c.stmt \in {"resurrect", "insert"}
    \/ c.op = "Activate" /\ c.version \in Versions /\ c.stmt \in {"exists", "demote", "promote"}
    \/ c.op = "Delete" /\ c.stmt = "delete"
    \/ c.op = "lost" /\ c.version \in Versions /\ c.stmt \in {"resurrect", "insert", "demote", "promote"}
    \/ c.op = "lost" /\ c.stmt = "delete"

\* What the writer under way knows at each of its statements, and one that was
\* given up before it takes effect.
Knows(c) ==
    /\ c.stmt \in {"exists", "demote", "delete"} => Serving \in allowed
    /\ (c.stmt = "demote" /\ c.sent) => c.hit = Serving
    /\ (c.stmt = "delete" /\ c.sent) => Serving \subseteq c.hit
    /\ c.stmt \in {"demote", "promote"} => table[c.version] # "none"
    /\ c.stmt = "promote" => Serving = {}
    /\ (c.stmt = "promote" /\ c.sent) => c.hit = {c.version}
    /\ (c.op = "lost" /\ c.stmt \in {"demote", "promote", "delete"}) => {} \in allowed
    /\ (c.op = "lost" /\ c.stmt = "promote") => {c.version} \in allowed

OneWriter ==
    \A p, q \in Callers : Unsettled(call[p]) /\ Unsettled(call[q]) => p = q

InTurn ==
    /\ OneWriter
    /\ \A p \in Callers : Knows(call[p])
    /\ Quiet => Serving \in allowed

InRows ==
    /\ \A p \in Callers : Shape(call[p])
    /\ ~contended => InTurn

InEntry ==
    /\ \A p \in Callers : call[p] = Idle
    /\ (entry.stored = {} \/ entry.deleted) => entry.active = None
    /\ Active \in allowed

AgentsInv ==
    /\ TypeOK
    /\ backend = "postgres" => InRows
    /\ backend = "memory" => InEntry

-----------------------------------------------------------------------------
Method == [op : {"idle", "Create", "lost"} \union Writers, version : Versions \union {None},
           stmt : {"none", "resurrect", "insert", "exists", "demote", "promote", "delete"},
           sent : BOOLEAN, hit : SUBSET Versions]

\* What the steps of a caller do to its method: the other callers keep theirs.
LEMMA CallChanges ==
    ASSUME TypeOK, NEW p \in Callers, NEW c \in Method, call' = [call EXCEPT ![p] = c]
    PROVE  /\ call' \in [Callers -> Method]
           /\ call'[p] = c
           /\ \A q \in Callers : q # p => call'[q] = call[q]
  BY DEF TypeOK, Method

LEMMA IdleIsMethod == Idle \in Method /\ Idle.op = "idle" /\ Idle.stmt = "none"
  BY DEF Idle, Method

Started(op, v, stmt) == [Idle EXCEPT !.op = op, !.version = v, !.stmt = stmt]

LEMMA StartedMethod ==
    \A op \in {"Create", "Activate", "Delete"}, v \in Versions \union {None}, stmt \in {"resurrect", "exists", "delete"} :
        /\ Started(op, v, stmt) \in Method
        /\ Started(op, v, stmt).op = op /\ Started(op, v, stmt).version = v
        /\ Started(op, v, stmt).stmt = stmt /\ Started(op, v, stmt).sent = FALSE
<1> SUFFICES ASSUME NEW op \in {"Create", "Activate", "Delete"}, NEW v \in Versions \union {None},
                    NEW stmt \in {"resurrect", "exists", "delete"}
             PROVE  /\ Started(op, v, stmt) \in Method
                    /\ Started(op, v, stmt).op = op /\ Started(op, v, stmt).version = v
                    /\ Started(op, v, stmt).stmt = stmt /\ Started(op, v, stmt).sent = FALSE
  OBVIOUS
<1>1. Idle \in Method /\ Idle.sent = FALSE
  BY DEF Idle, Method
<1> QED BY <1>1 DEF Method, Writers, Started

LEMMA SendCall ==
    ASSUME TypeOK, NEW p \in Callers, Send(p)
    PROVE  \E c \in Method :
               /\ call' = [call EXCEPT ![p] = c]
               /\ c.op = call[p].op /\ c.version = call[p].version /\ c.stmt = call[p].stmt
               /\ c.sent = TRUE
               /\ c.hit = {w \in Versions : Selects(call[p].stmt, call[p].version, w, table[w])}
<1> DEFINE hit == {w \in Versions : Selects(call[p].stmt, call[p].version, w, table[w])}
<1> DEFINE c == [call[p] EXCEPT !.sent = TRUE, !.hit = hit]
<1>1. call[p] \in Method /\ call \in [Callers -> Method]
  BY DEF TypeOK, Method
<1>2. hit \in SUBSET Versions
  OBVIOUS
<1> HIDE DEF hit
<1>3. c \in Method
  BY <1>1, <1>2 DEF Method
<1>4. call' = [call EXCEPT ![p] = c]
  BY <1>1 DEF Send, hit
<1>5. c.op = call[p].op /\ c.version = call[p].version /\ c.stmt = call[p].stmt /\ c.sent = TRUE /\ c.hit = hit
  BY <1>1 DEF Method
<1> QED BY <1>3, <1>4, <1>5 DEF hit

LEMMA NextStatementCall ==
    ASSUME TypeOK, NEW p \in Callers, NEW stmt \in {"insert", "demote", "promote"}, NextStatement(p, stmt)
    PROVE  \E c \in Method :
               /\ call' = [call EXCEPT ![p] = c]
               /\ c.op = call[p].op /\ c.version = call[p].version /\ c.stmt = stmt /\ c.sent = FALSE
<1> DEFINE c == [call[p] EXCEPT !.stmt = stmt, !.sent = FALSE, !.hit = {}]
<1>1. call[p] \in Method /\ call \in [Callers -> Method]
  BY DEF TypeOK, Method
<1>3. c \in Method
  BY <1>1 DEF Method
<1>4. call' = [call EXCEPT ![p] = c]
  BY <1>1 DEF NextStatement
<1>5. c.op = call[p].op /\ c.version = call[p].version /\ c.stmt = stmt /\ c.sent = FALSE
  BY <1>1 DEF Method
<1> QED BY <1>3, <1>4, <1>5

LEMMA ReturnCall ==
    ASSUME NEW p \in Callers, Return(p)
    PROVE  call' = [call EXCEPT ![p] = Idle]
  BY DEF Return

\* A call that is given up is gone, or leaves its statement.
LEMMA GiveUpCall ==
    ASSUME TypeOK, NEW p \in Callers, GiveUp(p)
    PROVE  \E c \in Method :
               /\ call' = [call EXCEPT ![p] = c]
               /\ \/ c = Idle
                  \/ /\ c.op = "lost" /\ c.version = call[p].version /\ c.stmt = call[p].stmt
                     /\ c.stmt # "exists" /\ c.sent = call[p].sent /\ c.hit = call[p].hit
<1>1. CASE Return(p)
  BY <1>1, ReturnCall, IdleIsMethod
<1>2. CASE call[p].stmt # "exists" /\ call' = [call EXCEPT ![p].op = "lost"]
  <2> DEFINE c == [call[p] EXCEPT !.op = "lost"]
  <2>1. call[p] \in Method /\ call \in [Callers -> Method]
    BY DEF TypeOK, Method
  <2>2. c \in Method /\ call' = [call EXCEPT ![p] = c]
    BY <1>2, <2>1 DEF Method
  <2>3. /\ c.op = "lost" /\ c.version = call[p].version /\ c.stmt = call[p].stmt
        /\ c.sent = call[p].sent /\ c.hit = call[p].hit
    BY <2>1 DEF Method
  <2> QED BY <1>2, <2>2, <2>3
<1> QED BY <1>1, <1>2 DEF GiveUp

\* Every row has one of the statuses, whatever an UPDATE does to it.
LEMMA UpdatedRows ==
    ASSUME TypeOK, NEW p \in Callers, call[p].stmt \in {"resurrect", "demote", "promote", "delete"}
    PROVE  Updated(p) \in [Versions -> Statuses]
<1>1. SetTo(call[p].stmt) \in Statuses
  BY DEF SetTo, Statuses
<1> QED BY <1>1 DEF Updated, TypeOK

LEMMA TypeStep ==
    ASSUME TypeOK, \A p \in Callers : Shape(call[p]), [Next]_agentVars
    PROVE  TypeOK'
<1> USE DEF TypeOK
<1>1. ASSUME call' \in [Callers -> Method], table' \in [Versions -> Statuses], allowed' \in SUBSET SUBSET Versions,
             contended' \in BOOLEAN, UNCHANGED <<backend, entry>>
      PROVE  TypeOK'
  BY <1>1 DEF Method
<1>2. ASSUME NEW v \in Versions, CreateInMemory(v) \/ ActivateInMemory(v) PROVE TypeOK'
  <2>1. CASE CreateInMemory(v)
    <3>1. entry' = [entry EXCEPT !.stored = entry.stored \union {v}, !.deleted = FALSE]
      BY <2>1 DEF CreateInMemory, InMemory
    <3>2. entry.stored \union {v} \in SUBSET Versions
      OBVIOUS
    <3>3. entry' \in [stored : SUBSET Versions, active : Versions \union {None}, deleted : BOOLEAN]
      BY <3>1, <3>2
    <3> QED BY <2>1, <3>3 DEF CreateInMemory, InMemory
  <2>2. CASE ActivateInMemory(v)
    BY <2>2 DEF ActivateInMemory, InMemory
  <2> QED BY <1>2, <2>1, <2>2
<1>3. CASE DeleteInMemory
  BY <1>3 DEF DeleteInMemory, InMemory
<1>4. ASSUME NEW p \in Callers, NEW op \in {"Create", "Activate", "Delete"},
             NEW v \in Versions \union {None}, NEW stmt \in {"resurrect", "exists", "delete"},
             Start(p, op, v, stmt)
      PROVE  TypeOK'
  <2>1. call' = [call EXCEPT ![p] = Started(op, v, stmt)]
    BY <1>4 DEF Start, Started
  <2>2. call' \in [Callers -> Method]
    BY <2>1, StartedMethod, CallChanges
  <2> QED BY <2>2, <1>4, <1>1 DEF Start
<1>5. ASSUME NEW p \in Callers, StartDelete(p) \/ \E v \in Versions : StartCreate(p, v) \/ StartActivate(p, v)
      PROVE  TypeOK'
  <2>1. CASE StartDelete(p)
    BY <1>4, <2>1 DEF StartDelete
  <2>2. ASSUME NEW v \in Versions, StartCreate(p, v) PROVE TypeOK'
    BY <1>4, <2>2 DEF StartCreate
  <2>3. ASSUME NEW v \in Versions, StartActivate(p, v) PROVE TypeOK'
    BY <1>4, <2>3 DEF StartActivate
  <2> QED BY <1>5, <2>1, <2>2, <2>3
<1>6. ASSUME NEW p \in Callers, Send(p) PROVE TypeOK'
  <2>1. PICK c \in Method : call' = [call EXCEPT ![p] = c]
    BY <1>6, SendCall
  <2>2. call' \in [Callers -> Method]
    BY <2>1, CallChanges
  <2> QED BY <2>2, <1>6, <1>1 DEF Send
<1>7. ASSUME NEW p \in Callers, NEW stmt \in {"insert", "demote", "promote"}, NextStatement(p, stmt)
      PROVE  call' \in [Callers -> Method]
  <2>1. PICK c \in Method : call' = [call EXCEPT ![p] = c]
    BY <1>7, NextStatementCall
  <2> QED BY <2>1, CallChanges
<1>8. ASSUME NEW p \in Callers, Return(p) PROVE call' \in [Callers -> Method]
  BY <1>8, ReturnCall, IdleIsMethod, CallChanges
<1>9. ASSUME NEW p \in Callers, Resurrect(p) \/ Demote(p) PROVE TypeOK'
  <2>1. table' \in [Versions -> Statuses]
    BY <1>9, UpdatedRows DEF Resurrect, Demote, Took
  <2>2. call' \in [Callers -> Method]
    BY <1>9, <1>7 DEF Resurrect, Demote
  <2> QED BY <2>1, <2>2, <1>9, <1>1 DEF Resurrect, Demote
<1>10. ASSUME NEW p \in Callers, Insert(p) PROVE TypeOK'
  <2>1. table' \in [Versions -> Statuses]
    BY <1>10 DEF Insert, Inserted, Statuses
  <2> QED BY <2>1, <1>10, <1>8, <1>1 DEF Insert
<1>11. ASSUME NEW p \in Callers, CheckExists(p) PROVE TypeOK'
  <2>1. call' \in [Callers -> Method]
    BY <1>11, <1>7, <1>8 DEF CheckExists
  <2> QED BY <2>1, <1>11, <1>1 DEF CheckExists
<1>12. ASSUME NEW p \in Callers, Promote(p) PROVE TypeOK'
  <2>1. call[p].version \in Versions
    BY <1>12 DEF Promote, Took, Shape, Idle
  <2>2. table' \in [Versions -> Statuses]
    BY <1>12, UpdatedRows DEF Promote, Took
  <2>3. call' \in [Callers -> Method] /\ allowed' \in SUBSET SUBSET Versions
    BY <1>12, <2>1, <1>8 DEF Promote
  <2> QED BY <2>2, <2>3, <1>12, <1>1 DEF Promote
<1>13. ASSUME NEW p \in Callers, DeleteRows(p) PROVE TypeOK'
  <2>1. table' \in [Versions -> Statuses]
    BY <1>13, UpdatedRows DEF DeleteRows, Took
  <2>2. call' \in [Callers -> Method] /\ allowed' = {{}}
    BY <1>13, <1>8 DEF DeleteRows
  <2> QED BY <2>1, <2>2, <1>13, <1>1 DEF DeleteRows
<1>14. ASSUME NEW p \in Callers, GiveUp(p) PROVE TypeOK'
  <2>1. Half(p) \subseteq SUBSET Versions
    BY DEF Half, Shape, Idle
  <2>2. PICK c \in Method : call' = [call EXCEPT ![p] = c]
    BY <1>14, GiveUpCall
  <2>3. call' \in [Callers -> Method] /\ allowed' \in SUBSET SUBSET Versions
    BY <1>14, <2>1, <2>2, CallChanges DEF GiveUp
  <2> QED BY <2>3, <1>14, <1>1 DEF GiveUp
<1>15. ASSUME NEW p \in Callers, TakesEffectLate(p) PROVE TypeOK'
  <2>1. CASE call[p].stmt = "insert" /\ table' = Inserted(p)
    BY <1>15, <2>1, <1>8, <1>1 DEF TakesEffectLate, Inserted, Statuses
  <2>2. CASE call[p].stmt # "insert" /\ table' = Updated(p)
    <3>1. call[p].stmt \in {"resurrect", "demote", "promote", "delete"}
      BY <1>15, <2>2 DEF TakesEffectLate, Lost, Shape, Idle, Writers
    <3>2. table' \in [Versions -> Statuses]
      BY <2>2, <3>1, UpdatedRows
    <3> QED BY <1>15, <3>2, <1>8, <1>1 DEF TakesEffectLate
  <2>3. CASE table' = table
    BY <1>15, <2>3, <1>8, <1>1 DEF TakesEffectLate
  <2>4. CASE call[p].stmt = "insert" /\ call[p].sent /\ table' = Updated(p)
    <3>1. table' \in [Versions -> Statuses]
      BY <2>4 DEF Updated, Selects
    <3> QED BY <1>15, <3>1, <1>8, <1>1 DEF TakesEffectLate
  <2> QED BY <1>15, <2>1, <2>2, <2>3, <2>4 DEF TakesEffectLate
<1>16. CASE UNCHANGED agentVars
  BY <1>16 DEF agentVars
<1> QED
  BY <1>2, <1>3, <1>5, <1>6, <1>9, <1>10, <1>11, <1>12, <1>13, <1>14, <1>15, <1>16 DEF Next

-----------------------------------------------------------------------------
\* The callers stay in the statements of their methods.
LEMMA ShapeStep ==
    ASSUME TypeOK, \A p \in Callers : Shape(call[p]), [Next]_agentVars
    PROVE  \A p \in Callers : Shape(call'[p])
<1>1. ASSUME NEW p \in Callers, NEW c \in Method, call' = [call EXCEPT ![p] = c], Shape(c)
      PROVE  \A q \in Callers : Shape(call'[q])
  BY <1>1, CallChanges
<1>2. ASSUME NEW p \in Callers, Return(p) PROVE \A q \in Callers : Shape(call'[q])
  BY <1>2, <1>1, ReturnCall, IdleIsMethod DEF Shape
<1>3. ASSUME NEW p \in Callers, NEW stmt \in {"insert", "demote", "promote"}, NextStatement(p, stmt),
             call[p].stmt \in IF stmt = "insert" THEN {"resurrect"} ELSE {"exists", "demote"}
      PROVE  \A q \in Callers : Shape(call'[q])
  <2>1. PICK c \in Method : /\ call' = [call EXCEPT ![p] = c]
                            /\ c.op = call[p].op /\ c.version = call[p].version /\ c.stmt = stmt
    BY <1>3, NextStatementCall
  <2>2. Shape(c)
    BY <1>3, <2>1, IdleIsMethod DEF Shape
  <2> QED BY <2>1, <2>2, <1>1
<1>4. ASSUME UNCHANGED call PROVE \A q \in Callers : Shape(call'[q])
  BY <1>4
<1>5. ASSUME NEW v \in Versions, CreateInMemory(v) \/ ActivateInMemory(v)
      PROVE  \A q \in Callers : Shape(call'[q])
  BY <1>4, <1>5 DEF CreateInMemory, ActivateInMemory, InMemory
<1>6. ASSUME NEW p \in Callers, NEW v \in Versions, StartCreate(p, v) \/ StartActivate(p, v)
      PROVE  \A q \in Callers : Shape(call'[q])
  <2>1. CASE StartCreate(p, v)
    <3>1. call' = [call EXCEPT ![p] = Started("Create", v, "resurrect")]
      BY <2>1 DEF StartCreate, Start, Started
    <3>2. v \in Versions \union {None}
      OBVIOUS
    <3>3. Started("Create", v, "resurrect") \in Method /\ Started("Create", v, "resurrect").op = "Create" /\ Started("Create", v, "resurrect").version = v /\ Started("Create", v, "resurrect").stmt = "resurrect"
      BY <3>2, StartedMethod
    <3>4. Shape(Started("Create", v, "resurrect"))
      BY <3>3 DEF Shape
    <3> QED BY <3>1, <3>3, <3>4, <1>1
  <2>2. CASE StartActivate(p, v)
    <3>1. call' = [call EXCEPT ![p] = Started("Activate", v, "exists")]
      BY <2>2 DEF StartActivate, Start, Started
    <3>2. v \in Versions \union {None}
      OBVIOUS
    <3>3. Started("Activate", v, "exists") \in Method /\ Started("Activate", v, "exists").op = "Activate" /\ Started("Activate", v, "exists").version = v /\ Started("Activate", v, "exists").stmt = "exists"
      BY <3>2, StartedMethod
    <3>4. Shape(Started("Activate", v, "exists"))
      BY <3>3 DEF Shape
    <3> QED BY <3>1, <3>3, <3>4, <1>1
  <2> QED BY <1>6, <2>1, <2>2
<1>7. ASSUME NEW p \in Callers, StartDelete(p) PROVE \A q \in Callers : Shape(call'[q])
  <2>1. call' = [call EXCEPT ![p] = Started("Delete", None, "delete")]
    BY <1>7 DEF StartDelete, Start, Started
  <2>2. Started("Delete", None, "delete") \in Method /\ Shape(Started("Delete", None, "delete"))
    BY StartedMethod DEF Shape
  <2> QED BY <2>1, <2>2, <1>1
<1>8. ASSUME NEW p \in Callers, Send(p) PROVE \A q \in Callers : Shape(call'[q])
  <2>1. PICK c \in Method : /\ call' = [call EXCEPT ![p] = c]
                            /\ c.op = call[p].op /\ c.version = call[p].version /\ c.stmt = call[p].stmt
    BY <1>8, SendCall
  <2>2. Shape(c)
    BY <1>8, <2>1, IdleIsMethod DEF Shape, Send
  <2> QED BY <2>1, <2>2, <1>1
<1>9. ASSUME NEW p \in Callers, Resurrect(p) \/ Insert(p) \/ CheckExists(p) \/ Demote(p) \/ Promote(p)
                                \/ DeleteRows(p) \/ TakesEffectLate(p)
      PROVE  \A q \in Callers : Shape(call'[q])
  BY <1>2, <1>3, <1>9 DEF Resurrect, Insert, CheckExists, Demote, Promote, DeleteRows, TakesEffectLate, Took
<1>10. CASE UNCHANGED agentVars
  BY <1>4, <1>10 DEF agentVars
<1>11. CASE DeleteInMemory
  BY <1>4, <1>11 DEF DeleteInMemory, InMemory
<1>12. ASSUME NEW p \in Callers, GiveUp(p) PROVE \A q \in Callers : Shape(call'[q])
  <2>1. PICK c \in Method : /\ call' = [call EXCEPT ![p] = c]
                            /\ \/ c = Idle
                               \/ /\ c.op = "lost" /\ c.version = call[p].version
                                  /\ c.stmt = call[p].stmt /\ c.stmt # "exists"
    BY <1>12, GiveUpCall
  <2>2. Shape(c)
    BY <1>12, <2>1 DEF Shape, GiveUp
  <2> QED BY <2>1, <2>2, <1>1
<1> QED
  BY <1>5, <1>6, <1>7, <1>8, <1>9, <1>10, <1>11, <1>12 DEF Next

-----------------------------------------------------------------------------
\* The statements of Create leave the rows in service alone and remove none.
LEMMA CreateKeepsServing ==
    ASSUME TypeOK, NEW p \in Callers,
           \/ call[p].stmt = "resurrect" /\ table' = Updated(p)
           \/ table' = Inserted(p)
    PROVE  Serving' = Serving /\ \A w \in Versions : table[w] # "none" => table'[w] # "none"
<1>1. CASE call[p].stmt = "resurrect" /\ table' = Updated(p)
  BY <1>1 DEF Updated, Selects, SetTo, Serving, TypeOK
<1>2. CASE table' = Inserted(p)
  BY <1>2 DEF Inserted, Serving, TypeOK
<1> QED BY <1>1, <1>2

LEMMA DemoteEmpties ==
    ASSUME TypeOK, NEW p \in Callers, call[p].stmt = "demote", table' = Updated(p), call[p].hit = Serving
    PROVE  Serving' = {} /\ \A w \in Versions : table[w] # "none" => table'[w] # "none"
  BY DEF Updated, Selects, SetTo, Serving, TypeOK

LEMMA PromoteServes ==
    ASSUME TypeOK, NEW p \in Callers, call[p].stmt = "promote", table' = Updated(p), Serving = {}, call[p].version \in Versions,
           call[p].hit = {call[p].version}, table[call[p].version] # "none"
    PROVE  Serving' = {call[p].version}
  BY DEF Updated, Selects, SetTo, Serving, TypeOK

LEMMA DeleteEmpties ==
    ASSUME TypeOK, NEW p \in Callers, call[p].stmt = "delete", table' = Updated(p), Serving \subseteq call[p].hit
    PROVE  Serving' = {}
  BY DEF Updated, Selects, SetTo, Serving, TypeOK

\* A caller that is not in Activate or Delete has nothing to know.
LEMMA NothingToKnow ==
    ASSUME NEW c, Shape(c), ~Unsettled(c)
    PROVE  Knows(c) /\ c.stmt \notin {"exists", "demote", "promote", "delete"} /\ c.op \notin Writers
  BY IdleIsMethod DEF Shape, Knows, Writers, Unsettled

\* Two under way at once are noted.
LEMMA ContendedStays ==
    ASSUME TypeOK, [Next]_agentVars, ~contended'
    PROVE  ~contended
  BY DEF Next, agentVars, TypeOK, CreateInMemory, ActivateInMemory, DeleteInMemory, InMemory, StartCreate, StartActivate,
         StartDelete, Start, Send, Resurrect, Insert, CheckExists, Demote, Promote, DeleteRows, GiveUp, TakesEffectLate

\* A step of p that is no start of an Activate or Delete leaves one writer at most.
LEMMA OneWriterStays ==
    ASSUME TypeOK, OneWriter, NEW p \in Callers, NEW c \in Method, call' = [call EXCEPT ![p] = c],
           Unsettled(c) => Unsettled(call[p])
    PROVE  OneWriter'
<1>1. call'[p] = c /\ \A q \in Callers : q # p => call'[q] = call[q]
  BY CallChanges
<1>2. \A q \in Callers : Unsettled(call'[q]) => Unsettled(call[q])
  BY <1>1
<1> QED BY <1>2 DEF OneWriter

\* What the others know survives a step of p that leaves the rows in service and what is allowed.
LEMMA OthersKnow ==
    ASSUME TypeOK, \A q \in Callers : Knows(call[q]) /\ Shape(call[q]),
           NEW p \in Callers, NEW c \in Method, call' = [call EXCEPT ![p] = c],
           Serving' = Serving, allowed \subseteq allowed',
           \A w \in Versions : table[w] # "none" => table'[w] # "none"
    PROVE  \A q \in Callers : q # p => Knows(call[q])'
<1> SUFFICES ASSUME NEW q \in Callers, q # p PROVE Knows(call[q])'
  OBVIOUS
<1>1. call'[q] = call[q]
  BY CallChanges
<1>2. call[q].stmt \in {"demote", "promote"} => call[q].version \in Versions
  BY IdleIsMethod DEF Shape
<1> QED BY <1>1, <1>2 DEF Knows

\* While p is in Activate or Delete, or has left a statement of it, the others have not.
LEMMA OthersKnowNothing ==
    ASSUME TypeOK, OneWriter, \A q \in Callers : Shape(call[q]), NEW p \in Callers, Unsettled(call[p]),
           NEW c \in Method, call' = [call EXCEPT ![p] = c]
    PROVE  \A q \in Callers : q # p => Knows(call[q])' /\ call'[q].op \notin Writers
<1> SUFFICES ASSUME NEW q \in Callers, q # p PROVE Knows(call[q])' /\ call'[q].op \notin Writers
  OBVIOUS
<1>1. call'[q] = call[q] /\ ~Unsettled(call[q])
  BY CallChanges DEF OneWriter
<1>2. call[q].stmt \notin {"exists", "demote", "promote", "delete"} /\ call[q].op \notin Writers
  BY <1>1, NothingToKnow
<1> QED BY <1>1, <1>2 DEF Knows

-----------------------------------------------------------------------------
\* Activate and Delete take turns: one begins.
LEMMA TurnOfStart ==
    ASSUME TypeOK, InTurn, \A q \in Callers : Shape(call[q]), NEW p \in Callers,
           NEW op \in {"Create", "Activate", "Delete"}, NEW v \in Versions \union {None},
           NEW stmt \in {"resurrect", "exists", "delete"}, op = "Create" => stmt = "resurrect",
           Start(p, op, v, stmt), ~contended'
    PROVE  InTurn'
<1>1. PICK c : c = Started(op, v, stmt) /\ c \in Method /\ c.op = op /\ c.stmt = stmt /\ c.sent = FALSE
  BY StartedMethod
<1>2. call' = [call EXCEPT ![p] = c] /\ UNCHANGED <<table, allowed>> /\ call[p] = Idle
  BY <1>1 DEF Start, Started
<1>3. call'[p] = c /\ \A q \in Callers : q # p => call'[q] = call[q]
  BY <1>1, <1>2, CallChanges
<1>4. Serving' = Serving /\ allowed' = allowed
  BY <1>2 DEF Serving
<1>5. op \in Writers => Quiet /\ \A q \in Callers : ~Unsettled(call[q])
  BY DEF Start, Quiet, Unsettled
<1>6. call[p].op \notin Writers
  BY <1>2, IdleIsMethod DEF Writers
<1>7. \A q \in Callers : q # p => Knows(call[q])'
  BY <1>1, <1>2, <1>4, OthersKnow DEF InTurn
<1>8. Knows(call[p])'
  <2>1. CASE op \in Writers
    BY <2>1, <1>1, <1>3, <1>4, <1>5 DEF Knows, InTurn
  <2>2. CASE op \notin Writers
    BY <2>2, <1>1, <1>3 DEF Knows, Writers
  <2> QED BY <2>1, <2>2
<1>9. OneWriter'
  <2>1. CASE op \in Writers
    BY <2>1, <1>3, <1>5 DEF OneWriter, Unsettled
  <2>2. CASE op \notin Writers
    BY <2>2, <1>1, <1>2, OneWriterStays DEF InTurn, Unsettled
  <2> QED BY <2>1, <2>2
<1>10. Quiet' => Quiet
  BY <1>3, <1>6 DEF Quiet
<1> QED BY <1>4, <1>7, <1>8, <1>9, <1>10 DEF InTurn

\* A statement is sent: its snapshot is of the rows in service.
LEMMA TurnOfSend ==
    ASSUME TypeOK, InTurn, \A q \in Callers : Shape(call[q]), NEW p \in Callers, Send(p)
    PROVE  InTurn'
<1>1. PICK c \in Method :
          /\ call' = [call EXCEPT ![p] = c]
          /\ c.op = call[p].op /\ c.version = call[p].version /\ c.stmt = call[p].stmt
          /\ c.hit = {w \in Versions : Selects(call[p].stmt, call[p].version, w, table[w])}
  BY SendCall
<1>2. call'[p] = c /\ \A q \in Callers : q # p => call'[q] = call[q]
  BY <1>1, CallChanges
<1>3. Serving' = Serving /\ allowed' = allowed /\ table' = table
  BY DEF Send, Serving
<1>4. \A q \in Callers : q # p => Knows(call[q])'
  BY <1>1, <1>3, OthersKnow DEF InTurn
<1>5. Knows(call[p])
  BY DEF InTurn
<1>6. c.stmt = "demote" => c.hit = Serving
  BY <1>1 DEF Selects, Serving
<1>7. c.stmt = "delete" => Serving \subseteq c.hit
  BY <1>1 DEF Selects, Serving
<1>8. c.stmt = "promote" => c.hit = {c.version}
  <2> SUFFICES ASSUME c.stmt = "promote" PROVE c.hit = {c.version}
    OBVIOUS
  <2>1. c.version \in Versions /\ table[c.version] # "none"
    BY <1>1, <1>5, IdleIsMethod DEF Shape, Knows
  <2> QED BY <1>1, <2>1 DEF Selects
<1>9. Knows(call[p])'
  BY <1>1, <1>2, <1>3, <1>5, <1>6, <1>7, <1>8 DEF Knows
<1>10. OneWriter'
  BY <1>1, OneWriterStays DEF InTurn, Unsettled
<1>11. Quiet' => Quiet
  BY <1>1, <1>2 DEF Quiet
<1> QED BY <1>3, <1>4, <1>9, <1>10, <1>11 DEF InTurn

\* A statement of Create takes effect.
LEMMA TurnOfCreate ==
    ASSUME TypeOK, InTurn, \A q \in Callers : Shape(call[q]), NEW p \in Callers, Resurrect(p) \/ Insert(p)
    PROVE  InTurn'
<1>1. call[p].op = "Create" /\ allowed' = allowed
  BY IdleIsMethod DEF Resurrect, Insert, Took, Lost, Shape
<1>2. Serving' = Serving /\ \A w \in Versions : table[w] # "none" => table'[w] # "none"
  BY CreateKeepsServing DEF Resurrect, Insert, Took
<1>3. PICK c \in Method : call' = [call EXCEPT ![p] = c] /\ c.op \notin Writers
                          /\ c.op # "lost" /\ c.stmt \notin {"exists", "demote", "promote", "delete"}
  <2>1. CASE Resurrect(p)
    BY <2>1, <1>1, NextStatementCall DEF Resurrect, Writers
  <2>2. CASE Insert(p)
    BY <2>2, ReturnCall, IdleIsMethod DEF Insert, Writers
  <2> QED BY <2>1, <2>2
<1>4. call'[p] = c /\ \A q \in Callers : q # p => call'[q] = call[q]
  BY <1>3, CallChanges
<1>5. \A q \in Callers : q # p => Knows(call[q])'
  BY <1>1, <1>2, <1>3, OthersKnow DEF InTurn
<1>6. Knows(call[p])'
  BY <1>3, <1>4 DEF Knows
<1>7. OneWriter'
  BY <1>3, OneWriterStays DEF InTurn, Unsettled
<1>8. Quiet' => Quiet
  BY <1>1, <1>4 DEF Quiet, Writers
<1> QED BY <1>1, <1>2, <1>5, <1>6, <1>7, <1>8 DEF InTurn

\* A call returns, and what is served is allowed then.
LEMMA TurnOfReturn ==
    ASSUME TypeOK, InTurn, \A q \in Callers : Shape(call[q]), NEW p \in Callers, Return(p),
           Serving' \in allowed' \/ ~Quiet',
           \/ Unsettled(call[p])
           \/ /\ Serving' = Serving /\ allowed \subseteq allowed'
              /\ \A w \in Versions : table[w] # "none" => table'[w] # "none"
    PROVE  InTurn'
<1>1. call' = [call EXCEPT ![p] = Idle] /\ Idle \in Method /\ ~Unsettled(Idle)
      /\ Idle.stmt \notin {"exists", "demote", "promote", "delete"}
  BY ReturnCall, IdleIsMethod DEF Writers, Unsettled
<1>2. call'[p] = Idle
  BY <1>1, CallChanges
<1>3. \A q \in Callers : q # p => Knows(call[q])'
  <2>1. CASE Unsettled(call[p])
    BY <2>1, <1>1, OthersKnowNothing DEF InTurn
  <2>2. CASE /\ Serving' = Serving /\ allowed \subseteq allowed'
             /\ \A w \in Versions : table[w] # "none" => table'[w] # "none"
    BY <2>2, <1>1, OthersKnow DEF InTurn
  <2> QED BY <2>1, <2>2
<1>4. Knows(call[p])'
  BY <1>1, <1>2 DEF Knows
<1>5. OneWriter'
  BY <1>1, OneWriterStays DEF InTurn
<1> QED BY <1>3, <1>4, <1>5 DEF InTurn

\* Activate finds its version, or returns.
LEMMA TurnOfCheck ==
    ASSUME TypeOK, InTurn, \A q \in Callers : Shape(call[q]), NEW p \in Callers, CheckExists(p)
    PROVE  InTurn'
<1>1. call[p].op = "Activate" /\ call[p].stmt = "exists" /\ Serving \in allowed /\ Unsettled(call[p])
  BY IdleIsMethod DEF CheckExists, Shape, InTurn, Knows, Unsettled, Writers
<1>2. Serving' = Serving /\ allowed' = allowed /\ table' = table
  BY DEF CheckExists, Serving
<1>3. CASE Return(p)
  BY <1>1, <1>2, <1>3, TurnOfReturn
<1>4. CASE table[call[p].version] # "none" /\ NextStatement(p, "demote")
  <2>1. PICK c \in Method : /\ call' = [call EXCEPT ![p] = c]
                            /\ c.op = call[p].op /\ c.version = call[p].version /\ c.stmt = "demote" /\ c.sent = FALSE
    BY <1>4, NextStatementCall
  <2>2. call'[p] = c
    BY <2>1, CallChanges
  <2>3. Knows(call[p])'
    BY <1>1, <1>2, <1>4, <2>1, <2>2 DEF Knows
  <2>4. \A q \in Callers : q # p => Knows(call[q])'
    BY <1>2, <2>1, OthersKnow DEF InTurn
  <2>5. OneWriter'
    BY <1>1, <2>1, OneWriterStays DEF InTurn, Unsettled, Writers
  <2>6. ~Quiet'
    BY <1>1, <2>1, <2>2 DEF Quiet, Writers
  <2> QED BY <2>3, <2>4, <2>5, <2>6 DEF InTurn
<1> QED BY <1>3, <1>4 DEF CheckExists

\* Activate demotes: nothing is in service now, and its version still has a row.
LEMMA TurnOfDemote ==
    ASSUME TypeOK, InTurn, \A q \in Callers : Shape(call[q]), NEW p \in Callers, Demote(p)
    PROVE  InTurn'
<1>1. call[p].op = "Activate" /\ call[p].version \in Versions /\ call[p].hit = Serving
      /\ table[call[p].version] # "none" /\ Unsettled(call[p])
  BY IdleIsMethod DEF Demote, Took, Lost, Shape, InTurn, Knows, Unsettled, Writers
<1>2. Serving' = {} /\ table'[call[p].version] # "none"
  BY <1>1, DemoteEmpties DEF Demote, Took
<1>3. PICK c \in Method : /\ call' = [call EXCEPT ![p] = c]
                          /\ c.op = call[p].op /\ c.version = call[p].version /\ c.stmt = "promote" /\ c.sent = FALSE
  BY NextStatementCall DEF Demote
<1>4. call'[p] = c
  BY <1>3, CallChanges
<1>5. Knows(call[p])'
  BY <1>1, <1>2, <1>3, <1>4 DEF Knows
<1>6. \A q \in Callers : q # p => Knows(call[q])'
  BY <1>1, <1>3, OthersKnowNothing DEF InTurn
<1>7. OneWriter'
  BY <1>1, <1>3, OneWriterStays DEF InTurn, Unsettled, Writers
<1>8. ~Quiet'
  BY <1>1, <1>3, <1>4 DEF Quiet, Writers
<1> QED BY <1>5, <1>6, <1>7, <1>8 DEF InTurn

\* Activate promotes, Delete deletes, and a caller is lost.
LEMMA TurnOfPromote ==
    ASSUME TypeOK, InTurn, \A q \in Callers : Shape(call[q]), NEW p \in Callers, Promote(p)
    PROVE  InTurn'
<1>1. call[p].op = "Activate" /\ call[p].version \in Versions /\ Serving = {}
      /\ call[p].hit = {call[p].version} /\ table[call[p].version] # "none" /\ Unsettled(call[p])
  BY IdleIsMethod DEF Promote, Took, Lost, Shape, InTurn, Knows, Unsettled, Writers
<1>2. Serving' \in allowed'
  BY <1>1, PromoteServes DEF Promote, Took
<1> QED BY <1>1, <1>2, TurnOfReturn DEF Promote

LEMMA TurnOfDelete ==
    ASSUME TypeOK, InTurn, \A q \in Callers : Shape(call[q]), NEW p \in Callers, DeleteRows(p)
    PROVE  InTurn'
<1>1. call[p].op = "Delete" /\ Serving \subseteq call[p].hit /\ Unsettled(call[p])
  BY IdleIsMethod DEF DeleteRows, Took, Lost, Shape, InTurn, Knows, Unsettled, Writers
<1>2. Serving' \in allowed'
  BY <1>1, DeleteEmpties DEF DeleteRows, Took
<1> QED BY <1>1, <1>2, TurnOfReturn DEF DeleteRows

LEMMA TurnOfGiveUp ==
    ASSUME TypeOK, InTurn, \A q \in Callers : Shape(call[q]), NEW p \in Callers, GiveUp(p)
    PROVE  InTurn'
<1>1. /\ Serving' = Serving /\ table' = table /\ allowed' = allowed \union Half(p) /\ allowed \subseteq allowed'
      /\ call[p].op # "lost"
  BY DEF GiveUp, Lost, Serving
<1>2. Unsettled(call[p]) => Serving \in allowed'
  BY <1>1, IdleIsMethod DEF Half, Shape, InTurn, Knows, Writers, Unsettled
<1>3. PICK c \in Method :
          /\ call' = [call EXCEPT ![p] = c]
          /\ \/ c = Idle
             \/ /\ c.op = "lost" /\ c.version = call[p].version /\ c.stmt = call[p].stmt
                /\ c.stmt # "exists" /\ c.sent = call[p].sent /\ c.hit = call[p].hit
  BY GiveUpCall
<1>4. call'[p] = c /\ \A q \in Callers : q # p => call'[q] = call[q]
  BY <1>3, CallChanges
<1>5. Knows(c)'
  <2>1. CASE c = Idle
    BY <2>1, IdleIsMethod DEF Knows
  <2>2. CASE c.op = "lost" /\ c.version = call[p].version /\ c.stmt = call[p].stmt /\ c.stmt # "exists"
             /\ c.sent = call[p].sent /\ c.hit = call[p].hit
    <3>1. Knows(call[p])
      BY DEF InTurn
    <3>2. /\ c.stmt \in {"demote", "promote", "delete"} => {} \in allowed'
          /\ c.stmt = "promote" => {c.version} \in allowed'
      BY <1>1, <2>2 DEF Half
    <3> QED BY <1>1, <2>2, <3>1, <3>2 DEF Knows
  <2> QED BY <1>3, <2>1, <2>2
<1>6. \A q \in Callers : q # p => Knows(call[q])'
  BY <1>1, <1>3, OthersKnow DEF InTurn
<1>7. Unsettled(c) => Unsettled(call[p])
  BY <1>1, <1>3, IdleIsMethod DEF Unsettled, Shape, Writers
<1>8. OneWriter'
  BY <1>3, <1>7, OneWriterStays DEF InTurn
<1>9. Quiet' => Serving' \in allowed'
  <2>1. CASE Unsettled(call[p])
    BY <1>1, <1>2, <2>1
  <2>2. CASE ~Unsettled(call[p])
    BY <1>1, <1>4, <2>2 DEF InTurn, Quiet, Unsettled
  <2> QED BY <2>1, <2>2
<1> QED BY <1>4, <1>5, <1>6, <1>8, <1>9 DEF InTurn, Knows

\* The statement of a call that was given up takes effect after all, or never will.
LEMMA TurnOfLate ==
    ASSUME TypeOK, InTurn, \A q \in Callers : Shape(call[q]), NEW p \in Callers, TakesEffectLate(p)
    PROVE  InTurn'
<1>1. /\ call[p].op = "lost" /\ Return(p) /\ allowed' = allowed /\ Knows(call[p]) /\ Shape(call[p])
      /\ call[p].op \notin Writers
  BY DEF TakesEffectLate, Lost, InTurn, Writers
<1>2. call' = [call EXCEPT ![p] = Idle] /\ Idle \in Method /\ Idle.op \notin Writers
  BY <1>1, ReturnCall, IdleIsMethod DEF Writers
<1>3. Quiet' => Serving \in allowed
  BY <1>1, <1>2, CallChanges DEF Quiet, InTurn
<1>4. CASE table' = table
  <2>1. Serving' = Serving
    BY <1>4 DEF Serving
  <2> QED BY <1>1, <1>3, <1>4, <2>1, TurnOfReturn
<1>5. CASE (call[p].stmt = "insert" /\ table' = Inserted(p)) \/ (call[p].stmt = "resurrect" /\ table' = Updated(p))
  <2>1. Serving' = Serving /\ \A w \in Versions : table[w] # "none" => table'[w] # "none"
    BY <1>5, CreateKeepsServing
  <2> QED BY <1>1, <1>3, <2>1, TurnOfReturn
<1>6. CASE call[p].stmt \in {"demote", "promote", "delete"} /\ call[p].sent /\ table' = Updated(p)
  <2>1. Unsettled(call[p])
    BY <1>1, <1>6 DEF Unsettled
  <2>2. Serving' \in allowed
    <3>1. CASE call[p].stmt = "demote"
      BY <1>1, <1>6, <3>1, DemoteEmpties DEF Knows
    <3>2. CASE call[p].stmt = "promote"
      <4>1. call[p].version \in Versions /\ Serving = {} /\ call[p].hit = {call[p].version}
            /\ table[call[p].version] # "none" /\ {call[p].version} \in allowed
        BY <1>1, <1>6, <3>2, IdleIsMethod DEF Knows, Shape
      <4> QED BY <1>6, <3>2, <4>1, PromoteServes
    <3>3. CASE call[p].stmt = "delete"
      BY <1>1, <1>6, <3>3, DeleteEmpties DEF Knows
    <3> QED BY <1>6, <3>1, <3>2, <3>3
  <2> QED BY <1>1, <2>1, <2>2, TurnOfReturn
<1>7. CASE call[p].stmt = "insert" /\ call[p].sent /\ table' = Updated(p)
  <2>1. Updated(p) = table
    BY <1>7 DEF Updated, Selects, TypeOK
  <2> QED BY <1>4, <1>7, <2>1
<1>8. call[p].stmt \in {"resurrect", "insert", "demote", "promote", "delete"}
  BY <1>1, IdleIsMethod DEF Shape
<1> QED BY <1>4, <1>5, <1>6, <1>7, <1>8 DEF TakesEffectLate

LEMMA RowsStep ==
    ASSUME TypeOK, backend = "postgres", InRows, [Next]_agentVars
    PROVE  InRows'
<1>1. \A p \in Callers : Shape(call[p])
  BY DEF InRows
<1>2. \A p \in Callers : Shape(call[p])'
  BY <1>1, ShapeStep DEF Shape
<1> SUFFICES ASSUME ~contended' PROVE InTurn'
  BY <1>2 DEF InRows
<1>3. InTurn
  BY ContendedStays DEF InRows
<1>4. ASSUME NEW p \in Callers, NEW v \in Versions, StartCreate(p, v) \/ StartActivate(p, v) PROVE InTurn'
  <2>1. v \in Versions \union {None}
    OBVIOUS
  <2> QED BY <1>1, <1>3, <1>4, <2>1, TurnOfStart DEF StartCreate, StartActivate
<1>5. ASSUME NEW p \in Callers, StartDelete(p) PROVE InTurn'
  BY <1>1, <1>3, <1>5, TurnOfStart DEF StartDelete
<1>6. ASSUME NEW p \in Callers, Send(p) PROVE InTurn'
  BY <1>1, <1>3, <1>6, TurnOfSend
<1>7. ASSUME NEW p \in Callers, Resurrect(p) \/ Insert(p) PROVE InTurn'
  BY <1>1, <1>3, <1>7, TurnOfCreate
<1>8. ASSUME NEW p \in Callers, CheckExists(p) PROVE InTurn'
  BY <1>1, <1>3, <1>8, TurnOfCheck
<1>9. ASSUME NEW p \in Callers, Demote(p) PROVE InTurn'
  BY <1>1, <1>3, <1>9, TurnOfDemote
<1>10. ASSUME NEW p \in Callers, Promote(p) PROVE InTurn'
  BY <1>1, <1>3, <1>10, TurnOfPromote
<1>11. ASSUME NEW p \in Callers, DeleteRows(p) PROVE InTurn'
  BY <1>1, <1>3, <1>11, TurnOfDelete
<1>12. ASSUME NEW p \in Callers, GiveUp(p) PROVE InTurn'
  BY <1>1, <1>3, <1>12, TurnOfGiveUp
<1>15. ASSUME NEW p \in Callers, TakesEffectLate(p) PROVE InTurn'
  BY <1>1, <1>3, <1>15, TurnOfLate
<1>13. CASE UNCHANGED agentVars
  BY <1>3, <1>13 DEF agentVars, InTurn, OneWriter, Knows, Serving, Quiet
<1>14. ~DeleteInMemory /\ \A v \in Versions : ~CreateInMemory(v) /\ ~ActivateInMemory(v)
  BY DEF CreateInMemory, ActivateInMemory, DeleteInMemory, InMemory
<1> QED
  BY <1>4, <1>5, <1>6, <1>7, <1>8, <1>9, <1>10, <1>11, <1>12, <1>13, <1>14, <1>15 DEF Next

-----------------------------------------------------------------------------
\* The store in memory: its calls are one step each.
LEMMA EntryStep ==
    ASSUME TypeOK, backend = "memory", InEntry, [Next]_agentVars
    PROVE  InEntry'
<1>1. \A p \in Callers : call[p] = Idle
  BY DEF InEntry
<1>2. ASSUME NEW v \in Versions, CreateInMemory(v) PROVE InEntry'
  <2>1. entry'.active = entry.active /\ entry'.stored = entry.stored \union {v} /\ ~entry'.deleted
    BY <1>2 DEF CreateInMemory, InMemory, TypeOK
  <2>2. Active' = {entry.active} \ {None}
    BY <1>2, <2>1 DEF CreateInMemory, InMemory, Active, Found
  <2>3. Active' = Active
    BY <2>2 DEF Active, Found, InEntry
  <2> QED BY <1>2, <2>1, <2>3 DEF CreateInMemory, InMemory, InEntry
<1>3. ASSUME NEW v \in Versions, ActivateInMemory(v) PROVE InEntry'
  <2>1. entry'.active = v /\ entry'.stored = entry.stored /\ entry'.deleted = entry.deleted
    BY <1>3 DEF ActivateInMemory, InMemory, TypeOK
  <2>2. Active' = {v}
    BY <1>3, <2>1, NoneIsNoVersion DEF ActivateInMemory, InMemory, Active, Found
  <2> QED BY <1>3, <2>1, <2>2 DEF ActivateInMemory, InMemory, InEntry, Found
<1>4. CASE DeleteInMemory
  <2>1. entry'.active = None /\ entry'.deleted
    BY <1>4 DEF DeleteInMemory, InMemory, TypeOK
  <2>2. Active' = {}
    BY <1>4, <2>1 DEF DeleteInMemory, InMemory, Active, Found
  <2> QED BY <1>4, <2>1, <2>2 DEF DeleteInMemory, InMemory, InEntry
<1>5. CASE UNCHANGED agentVars
  BY <1>5 DEF agentVars, InEntry, Active, Found
<1>6. ASSUME NEW p \in Callers
      PROVE  /\ ~Send(p) /\ ~Resurrect(p) /\ ~Insert(p) /\ ~CheckExists(p) /\ ~Demote(p) /\ ~Promote(p)
             /\ ~DeleteRows(p) /\ ~GiveUp(p) /\ ~TakesEffectLate(p)
  BY <1>1, IdleIsMethod DEF Send, Resurrect, Insert, CheckExists, Demote, Promote, DeleteRows, GiveUp, Took,
         TakesEffectLate, Lost
<1>7. ASSUME NEW p \in Callers
      PROVE  ~StartDelete(p) /\ \A v \in Versions : ~StartCreate(p, v) /\ ~StartActivate(p, v)
  BY DEF StartCreate, StartActivate, StartDelete, Start
<1> QED
  BY <1>2, <1>3, <1>4, <1>5, <1>6, <1>7 DEF Next

-----------------------------------------------------------------------------
\* The inductive invariant.
THEOREM AgentsInvariance == Spec => []AgentsInv
<1>1. Init => AgentsInv
  <2> SUFFICES ASSUME Init PROVE AgentsInv
    OBVIOUS
  <2>1. TypeOK
    <3>1. call \in [Callers -> Method]
      BY IdleIsMethod DEF Init
    <3> QED BY <3>1 DEF Init, TypeOK, Method, Statuses
  <2>2. \A p \in Callers : /\ call[p] = Idle /\ call[p].op \notin Writers /\ ~Unsettled(call[p])
                           /\ Shape(call[p]) /\ Knows(call[p])
    BY IdleIsMethod, NothingToKnow DEF Init, Shape, Writers, Unsettled
  <2>3. Serving = {} /\ allowed = {{}}
    BY DEF Init, Serving
  <2>4. InRows
    BY <2>2, <2>3 DEF InRows, InTurn, OneWriter
  <2>5. backend = "memory" => InEntry
    BY <2>2, <2>3 DEF Init, InEntry, Active, Found
  <2> QED BY <2>1, <2>4, <2>5 DEF AgentsInv
<1>2. AgentsInv /\ [Next]_agentVars => AgentsInv'
  <2> SUFFICES ASSUME AgentsInv, [Next]_agentVars PROVE AgentsInv'
    OBVIOUS
  <2>1. \A p \in Callers : Shape(call[p])
    BY DEF AgentsInv, InRows, InEntry, Shape, TypeOK
  <2>2. TypeOK'
    BY <2>1, TypeStep DEF AgentsInv
  <2>3. backend' = backend
    BY DEF Next, agentVars, CreateInMemory, ActivateInMemory, DeleteInMemory, InMemory, StartCreate, StartActivate,
           StartDelete, Start, Send, Resurrect, Insert, CheckExists, Demote, Promote, DeleteRows, GiveUp, TakesEffectLate
  <2> QED BY <2>2, <2>3, RowsStep, EntryStep DEF AgentsInv
<1> QED BY <1>1, <1>2, PTL DEF Spec

\* The rows, the calls and the history stay what they are declared to be.
THEOREM TypeCorrect == Spec => []TypeOK
<1>1. AgentsInv => TypeOK
  BY DEF AgentsInv
<1> QED BY <1>1, AgentsInvariance, PTL

\* In both stores, for any number of versions and callers: between Activate and
\* Delete calls that take turns, Get serves what the last one to return
\* promised, whatever Create calls come between its statements, whichever
\* callers are lost, and whenever the statements they have left take effect.
THEOREM ServesThePromised == Spec => []GetServesThePromised
<1>1. AgentsInv => GetServesThePromised
  BY DEF AgentsInv, TypeOK, InRows, InTurn, InEntry, GetServesThePromised, Active, Serving
<1> QED BY <1>1, AgentsInvariance, PTL

-----------------------------------------------------------------------------
(* The file store of prompts.                                              *)

\* An event in q will have the file of s read.
Reads(q, s) == \E i \in 1 .. Len(q) : q[i].slug = s /\ Prompts!Handles(q[i].kind)

LoaderIs ==
    /\ watched <=> loader.pc # "watch"
    /\ loader.pc \in {"load", "put", "notify"} => \E s \in Slugs : loader.slug = {s}
    /\ loader.pc = "notify" => \A s \in Slugs : loader.slug = {s} => mem[s] = loader.n
    /\ ~Prompts!Open => \A w \in Watchers : watchers[w] = Prompts!Unsubscribed

\* A file that is written out is what the store serves, or the loader will read it, or it has just
\* been read; what the loader is about to put is not older, or the file will be read again.
FileArrives(s) ==
    disk[s].whole =>
        \/ loader.pc \in {"watch", "list"}
        \/ loader.pc = "scan" /\ s \in loader.todo
        \/ Reads(events, s)
        \/ loader.pc = "load" /\ loader.slug = {s}
        \/ loader.pc = "put" /\ loader.slug = {s} /\ loader.n = disk[s].n
        \/ mem[s] = disk[s].n /\ (loader.pc = "put" => loader.slug # {s})

\* A subscriber has been sent what the store serves, or is about to be.
SubscriberIsTold(w) ==
    watchers[w] # Prompts!Unsubscribed /\ ~watchers[w].missed /\ mem[watchers[w].slug] # watchers[w].since =>
        \/ Last(<<watchers[w].last>> \o watchers[w].queue) = mem[watchers[w].slug]
        \/ loader.pc = "notify" /\ loader.slug = {watchers[w].slug}

PromptsInv ==
    /\ Prompts!TypeOK
    /\ \A s \in Slugs : disk[s].whole => disk[s].n > 0
    /\ LoaderIs
    /\ \A s \in Slugs : FileArrives(s)
    /\ \A w \in Watchers : SubscriberIsTold(w)

-----------------------------------------------------------------------------
File == [n : Nat, whole : BOOLEAN]
Kind == {"create", "write", "remove"}
Event == [slug : Slugs, kind : Kind]
LoaderState == [pc : {"watch", "list", "scan", "wait", "load", "put", "notify"},
                todo : SUBSET Slugs, slug : SUBSET Slugs, n : Nat]
Channel == [slug : Slugs, queue : Seq(Nat), since : Nat, last : Nat, missed : BOOLEAN]

LEMMA Types ==
    ASSUME Prompts!TypeOK
    PROVE  /\ disk \in [Slugs -> File] /\ edits \in Nat /\ watched \in BOOLEAN /\ events \in Seq(Event)
           /\ mem \in [Slugs -> Nat] /\ loader \in LoaderState
           /\ watchers \in [Watchers -> {Prompts!Unsubscribed} \union Channel]
  BY DEF Prompts!TypeOK, File, Event, Kind, LoaderState, Channel

LEMMA TypesPrimed ==
    ASSUME disk' \in [Slugs -> File], edits' \in Nat, watched' \in BOOLEAN, events' \in Seq(Event),
           mem' \in [Slugs -> Nat], loader' \in LoaderState,
           watchers' \in [Watchers -> {Prompts!Unsubscribed} \union Channel]
    PROVE  Prompts!TypeOK'
  BY DEF Prompts!TypeOK, File, Event, Kind, LoaderState, Channel

\* An event that is queued, or taken from the queue.
LEMMA Queued ==
    ASSUME NEW q \in Seq(Event), NEW e \in Event, NEW s \in Slugs
    PROVE  /\ Append(q, e) \in Seq(Event)
           /\ Reads(q, s) => Reads(Append(q, e), s)
           /\ Prompts!Handles(e.kind) => Reads(Append(q, e), e.slug)
<1>1. /\ Append(q, e) \in Seq(Event) /\ Len(q) \in Nat /\ Len(Append(q, e)) = Len(q) + 1
      /\ Append(q, e)[Len(q) + 1] = e
      /\ \A i \in 1 .. Len(q) : Append(q, e)[i] = q[i] /\ i \in 1 .. Len(q) + 1
  OBVIOUS
<1>2. Len(q) + 1 \in 1 .. Len(q) + 1
  BY <1>1
<1> QED BY <1>1, <1>2 DEF Reads

LEMMA Taken ==
    ASSUME NEW q \in Seq(Event), q # <<>>, NEW s \in Slugs
    PROVE  /\ Head(q) \in Event /\ Tail(q) \in Seq(Event)
           /\ Reads(q, s) => Reads(Tail(q), s) \/ (Head(q).slug = s /\ Prompts!Handles(Head(q).kind))
<1>1. Head(q) \in Event /\ Tail(q) \in Seq(Event)
  OBVIOUS
<1>2. ASSUME NEW i \in 1 .. Len(q), q[i].slug = s, Prompts!Handles(q[i].kind)
      PROVE  Reads(Tail(q), s) \/ (Head(q).slug = s /\ Prompts!Handles(Head(q).kind))
  <2>1. CASE i = 1
    BY <1>2, <2>1
  <2>2. CASE i # 1
    <3>1. i - 1 \in 1 .. Len(Tail(q)) /\ Tail(q)[i - 1] = q[i]
      BY <2>2
    <3> QED BY <1>2, <3>1 DEF Reads
  <2> QED BY <2>1, <2>2
<1> QED BY <1>1, <1>2 DEF Reads

\* What a subscriber has been sent last.
LEMMA LastSent ==
    ASSUME NEW l \in Nat, NEW q \in Seq(Nat)
    PROVE  Last(<<l>> \o q) = IF Len(q) = 0 THEN l ELSE q[Len(q)]
  BY DEF Last

LEMMA Sent ==
    ASSUME NEW l \in Nat, NEW q \in Seq(Nat), NEW n \in Nat
    PROVE  Append(q, n) \in Seq(Nat) /\ Last(<<l>> \o Append(q, n)) = n
<1>1. /\ Append(q, n) \in Seq(Nat) /\ Len(q) \in Nat /\ Len(Append(q, n)) = Len(q) + 1
      /\ Append(q, n)[Len(q) + 1] = n
  OBVIOUS
<1>2. PICK r \in Seq(Nat) : r = Append(q, n)
  BY <1>1
<1>3. Last(<<l>> \o r) = IF Len(r) = 0 THEN l ELSE r[Len(r)]
  BY LastSent
<1>4. Len(r) = Len(q) + 1 /\ Len(r) # 0 /\ r[Len(r)] = n
  BY <1>1, <1>2
<1> QED BY <1>2, <1>3, <1>4

LEMMA Received ==
    ASSUME NEW l \in Nat, NEW q \in Seq(Nat), q # <<>>
    PROVE  Head(q) \in Nat /\ Tail(q) \in Seq(Nat) /\ Last(<<Head(q)>> \o Tail(q)) = Last(<<l>> \o q)
<1>1. /\ Head(q) \in Nat /\ Tail(q) \in Seq(Nat) /\ Head(q) = q[1]
      /\ Len(q) \in Nat /\ Len(q) > 0 /\ Len(Tail(q)) = Len(q) - 1
      /\ \A i \in 1 .. Len(q) - 1 : Tail(q)[i] = q[i + 1]
  OBVIOUS
<1>2. PICK r \in Seq(Nat), h \in Nat : r = Tail(q) /\ h = Head(q)
  BY <1>1
<1>3. Last(<<h>> \o r) = IF Len(r) = 0 THEN h ELSE r[Len(r)]
  BY LastSent
<1>4. Last(<<l>> \o q) = IF Len(q) = 0 THEN l ELSE q[Len(q)]
  BY LastSent
<1>5. (IF Len(r) = 0 THEN h ELSE r[Len(r)]) = q[Len(q)]
  BY <1>1, <1>2
<1> QED BY <1>1, <1>2, <1>3, <1>4, <1>5

LEMMA TheSlugIs == ASSUME NEW s, loader.slug = {s} PROVE Prompts!TheSlug = s
  BY DEF Prompts!TheSlug

LEMMA PromptsInitially == Prompts!Init => PromptsInv
<1> SUFFICES ASSUME Prompts!Init PROVE PromptsInv
  OBVIOUS
<1>1. disk \in [Slugs -> File] /\ \A s \in Slugs : disk[s].whole => disk[s].n > 0
  <2>1. Prompts!NoFile \in File /\ Prompts!NoFile.whole = FALSE
    BY DEF Prompts!NoFile, File
  <2>2. PICK f \in File : f = [n |-> 1, whole |-> TRUE]
    BY DEF File
  <2>3. f.n = 1
    BY <2>2
  <2>4. disk \in [Slugs -> {Prompts!NoFile, f}]
    BY <2>2 DEF Prompts!Init
  <2> QED BY <2>1, <2>3, <2>4
<1>2. events \in Seq(Event) /\ loader \in LoaderState /\ loader.pc = "watch"
  BY DEF Prompts!Init, LoaderState
<1>3. Prompts!TypeOK
  BY <1>1, <1>2 DEF Prompts!Init, Prompts!TypeOK, File, Event, Kind, LoaderState, Channel
<1>4. LoaderIs
  BY <1>2 DEF Prompts!Init, LoaderIs
<1>5. \A s \in Slugs : FileArrives(s)
  BY <1>2 DEF FileArrives
<1>6. \A w \in Watchers : SubscriberIsTold(w)
  BY DEF Prompts!Init, SubscriberIsTold
<1> QED BY <1>1, <1>3, <1>4, <1>5, <1>6 DEF PromptsInv

-----------------------------------------------------------------------------
\* Editors: a change that leaves a file written out is an event that has it read.
LEMMA ChangeStep ==
    ASSUME PromptsInv, NEW s \in Slugs, NEW file \in File, NEW change \in Kind, Prompts!Change(s, file, change),
           edits' \in Nat, file.whole => file.n > 0 /\ Prompts!Handles(change)
    PROVE  PromptsInv'
<1>1. /\ disk \in [Slugs -> File] /\ watched \in BOOLEAN /\ events \in Seq(Event)
      /\ mem \in [Slugs -> Nat] /\ loader \in LoaderState
      /\ watchers \in [Watchers -> {Prompts!Unsubscribed} \union Channel]
  BY Types DEF PromptsInv
<1>2. UNCHANGED <<watched, mem, loader, watchers>>
  BY DEF Prompts!Change
<1>3. /\ disk' \in [Slugs -> File] /\ disk'[s] = file
      /\ \A t \in Slugs : t # s => disk'[t] = disk[t]
  BY <1>1 DEF Prompts!Change
<1>4. PICK e \in Event : e = [slug |-> s, kind |-> change]
  BY DEF Event
<1>5. e.slug = s /\ e.kind = change
  BY <1>4
<1>6. events' = IF watched THEN Append(events, e) ELSE events
  BY <1>4 DEF Prompts!Change
<1>7. /\ events' \in Seq(Event)
      /\ \A t \in Slugs : Reads(events, t) => Reads(events', t)
      /\ watched /\ Prompts!Handles(change) => Reads(events', s)
  BY <1>1, <1>5, <1>6, Queued
<1>8. Prompts!TypeOK'
  BY <1>1, <1>2, <1>3, <1>7, TypesPrimed
<1>9. \A t \in Slugs : disk'[t].whole => disk'[t].n > 0
  BY <1>3 DEF PromptsInv
<1>10. LoaderIs'
  BY <1>2 DEF PromptsInv, LoaderIs, Prompts!Open
<1>11. \A t \in Slugs : FileArrives(t)'
  <2>1. loader.pc = "watch" \/ watched
    BY DEF PromptsInv, LoaderIs
  <2> QED BY <1>2, <1>3, <1>7, <2>1 DEF PromptsInv, FileArrives
<1>12. \A w \in Watchers : SubscriberIsTold(w)'
  BY <1>2 DEF PromptsInv, SubscriberIsTold
<1> QED BY <1>8, <1>9, <1>10, <1>11, <1>12 DEF PromptsInv

LEMMA EditStep ==
    ASSUME PromptsInv, NEW s \in Slugs, Prompts!BeginWrite(s) \/ Prompts!EndWrite(s) \/ Prompts!Replace(s) \/ Prompts!RemoveFile(s)
    PROVE  PromptsInv'
<1>1. disk[s] \in File /\ edits \in Nat
  BY Types DEF PromptsInv
<1>2. CASE Prompts!BeginWrite(s)
  <2>1. PICK file : file = [n |-> edits', whole |-> FALSE]
    OBVIOUS
  <2>2. edits' \in Nat
    BY <1>1, <1>2 DEF Prompts!BeginWrite
  <2>3. file \in File /\ file.whole = FALSE
    BY <2>1, <2>2 DEF File
  <2> QED BY <1>2, <2>1, <2>2, <2>3, ChangeStep DEF Prompts!BeginWrite, Kind
<1>3. CASE Prompts!EndWrite(s)
  <2>1. PICK file : file = [disk[s] EXCEPT !.whole = TRUE]
    OBVIOUS
  <2>2. file \in File /\ file.n = disk[s].n
    BY <1>1, <2>1 DEF File
  <2> QED BY <1>1, <1>3, <2>1, <2>2, ChangeStep DEF Prompts!EndWrite, Kind, Prompts!Handles
<1>4. CASE Prompts!Replace(s)
  <2>1. PICK file : file = [n |-> edits', whole |-> TRUE]
    OBVIOUS
  <2>2. edits' \in Nat /\ edits' > 0
    BY <1>1, <1>4 DEF Prompts!Replace
  <2>3. file \in File /\ file.n = edits'
    BY <2>1, <2>2 DEF File
  <2> QED BY <1>4, <2>1, <2>2, <2>3, ChangeStep DEF Prompts!Replace, Kind, Prompts!Handles
<1>5. CASE Prompts!RemoveFile(s)
  <2>1. Prompts!NoFile \in File /\ Prompts!NoFile.whole = FALSE
    BY DEF Prompts!NoFile, File
  <2>2. edits' \in Nat
    BY <1>1, <1>5 DEF Prompts!RemoveFile
  <2> QED BY <1>5, <2>1, <2>2, ChangeStep DEF Prompts!RemoveFile, Kind
<1> QED BY <1>2, <1>3, <1>4, <1>5

-----------------------------------------------------------------------------
(* The loader.                                                             *)

\* A step of the loader that tells no subscriber and takes no event.
LEMMA LoaderStep ==
    ASSUME PromptsInv, NEW l \in LoaderState, Prompts!Loader(l), watchers' = watchers, events' = events,
           mem' \in [Slugs -> Nat], watched' \in BOOLEAN,
           LoaderIs', \A s \in Slugs : FileArrives(s)',
           \A w \in Watchers : SubscriberIsTold(w)'
    PROVE  PromptsInv'
<1>1. Prompts!TypeOK'
  BY Types, TypesPrimed DEF PromptsInv, Prompts!Loader
<1>2. \A s \in Slugs : disk'[s].whole => disk'[s].n > 0
  BY DEF PromptsInv, Prompts!Loader
<1> QED BY <1>1, <1>2 DEF PromptsInv

\* While the store is being opened, nobody has subscribed.
LEMMA OpeningStep ==
    ASSUME PromptsInv, Prompts!AddWatch \/ Prompts!ReadDir \/ Prompts!EndScan \/ \E s \in Slugs : Prompts!ScanFile(s)
    PROVE  PromptsInv'
<1>1. loader \in LoaderState /\ mem \in [Slugs -> Nat] /\ disk \in [Slugs -> File] /\ watched \in BOOLEAN
  BY Types DEF PromptsInv
<1>2. /\ LoaderIs /\ \A s \in Slugs : FileArrives(s)
      /\ \A s \in Slugs : disk[s].whole => disk[s].n > 0
  BY DEF PromptsInv
<1>3. \A w \in Watchers : watchers[w] = Prompts!Unsubscribed
  BY <1>2 DEF LoaderIs, Prompts!Open, Prompts!AddWatch, Prompts!ReadDir, Prompts!EndScan, Prompts!ScanFile
<1>4. watchers' = watchers /\ events' = events /\ disk' = disk
  BY DEF Prompts!AddWatch, Prompts!ReadDir, Prompts!EndScan, Prompts!ScanFile, Prompts!Loader
<1>5. \A w \in Watchers : SubscriberIsTold(w)'
  BY <1>3, <1>4 DEF SubscriberIsTold
<1>6. CASE Prompts!AddWatch
  <2>1. PICK l : l = [loader EXCEPT !.pc = "list"]
    OBVIOUS
  <2>2. l \in LoaderState /\ l.pc = "list" /\ Prompts!Loader(l) /\ loader' = l /\ watched' = TRUE /\ mem' = mem
    BY <1>1, <1>6, <2>1 DEF Prompts!AddWatch, Prompts!Loader, LoaderState
  <2>3. LoaderIs' /\ \A s \in Slugs : FileArrives(s)'
    BY <1>3, <1>4, <2>2 DEF LoaderIs, FileArrives
  <2> QED BY <1>1, <1>4, <1>5, <2>2, <2>3, LoaderStep
<1>7. CASE Prompts!ReadDir
  <2>1. PICK l : l = [loader EXCEPT !.pc = "scan", !.todo = {s \in Slugs : disk[s].n > 0}]
    OBVIOUS
  <2>2. /\ l \in LoaderState /\ l.pc = "scan" /\ l.todo = {s \in Slugs : disk[s].n > 0}
        /\ Prompts!Loader(l) /\ loader' = l /\ watched' = watched /\ mem' = mem /\ loader.pc = "list"
    BY <1>1, <1>7, <2>1 DEF Prompts!ReadDir, Prompts!Loader, LoaderState
  <2>3. LoaderIs'
    BY <1>2, <1>3, <1>4, <2>2 DEF LoaderIs
  <2>4. \A s \in Slugs : FileArrives(s)'
    BY <1>2, <1>4, <2>2 DEF FileArrives
  <2> QED BY <1>1, <1>4, <1>5, <2>2, <2>3, <2>4, LoaderStep
<1>8. CASE Prompts!EndScan
  <2>1. PICK l : l = [loader EXCEPT !.pc = "wait"]
    OBVIOUS
  <2>2. /\ l \in LoaderState /\ l.pc = "wait" /\ Prompts!Loader(l) /\ loader' = l
        /\ watched' = watched /\ mem' = mem /\ loader.pc = "scan" /\ loader.todo = {}
    BY <1>1, <1>8, <2>1 DEF Prompts!EndScan, Prompts!Loader, LoaderState
  <2>3. LoaderIs'
    BY <1>2, <1>3, <1>4, <2>2 DEF LoaderIs
  <2>4. \A s \in Slugs : FileArrives(s)'
    BY <1>2, <1>4, <2>2 DEF FileArrives
  <2> QED BY <1>1, <1>4, <1>5, <2>2, <2>3, <2>4, LoaderStep
<1>9. ASSUME NEW s \in Slugs, Prompts!ScanFile(s) PROVE PromptsInv'
  <2>1. PICK l : l = [loader EXCEPT !.todo = loader.todo \ {s}]
    OBVIOUS
  <2>2. /\ l \in LoaderState /\ l.pc = "scan" /\ l.todo = loader.todo \ {s} /\ Prompts!Loader(l) /\ loader' = l
        /\ watched' = watched /\ loader.pc = "scan"
    BY <1>1, <1>9, <2>1 DEF Prompts!ScanFile, Prompts!Loader, LoaderState
  <2>3. /\ mem' \in [Slugs -> Nat] /\ \A t \in Slugs \ {s} : mem'[t] = mem[t]
        /\ disk[s].whole => mem'[s] = disk[s].n
    BY <1>1, <1>2, <1>9 DEF Prompts!ScanFile, Prompts!LoadFile, Prompts!Put, File
  <2>4. LoaderIs'
    BY <1>2, <1>3, <1>4, <2>2 DEF LoaderIs
  <2>5. \A t \in Slugs : FileArrives(t)'
    BY <1>2, <1>4, <2>2, <2>3 DEF FileArrives
  <2> QED BY <1>1, <1>4, <1>5, <2>2, <2>3, <2>4, <2>5, LoaderStep
<1> QED BY <1>6, <1>7, <1>8, <1>9

LEMMA TakeEventStep == ASSUME PromptsInv, Prompts!TakeEvent PROVE PromptsInv'
<1>1. /\ loader \in LoaderState /\ mem \in [Slugs -> Nat] /\ events \in Seq(Event) /\ events # <<>>
      /\ loader.pc = "wait"
  BY Types DEF PromptsInv, Prompts!TakeEvent
<1>2. LoaderIs /\ \A s \in Slugs : FileArrives(s)
  BY DEF PromptsInv
<1>3. PICK e : e = Head(events)
  OBVIOUS
<1>4. /\ e \in Event /\ events' = Tail(events) /\ events' \in Seq(Event)
      /\ \A s \in Slugs : Reads(events, s) => Reads(events', s) \/ (e.slug = s /\ Prompts!Handles(e.kind))
  BY <1>1, <1>3, Taken DEF Prompts!TakeEvent
<1>5. UNCHANGED <<disk, edits, watched, mem, watchers>>
  BY DEF Prompts!TakeEvent, Prompts!Loader
<1>6. /\ loader' \in LoaderState
      /\ ~Prompts!Handles(e.kind) => loader' = loader
      /\ Prompts!Handles(e.kind) => loader'.pc = "load" /\ loader'.slug = {e.slug}
  BY <1>1, <1>3, <1>4 DEF Prompts!TakeEvent, Prompts!Loader, LoaderState, Event
<1>7. Prompts!TypeOK'
  BY <1>4, <1>5, <1>6, Types, TypesPrimed DEF PromptsInv
<1>8. LoaderIs'
  BY <1>1, <1>2, <1>4, <1>5, <1>6 DEF LoaderIs, Prompts!Open, Event
<1>9. \A s \in Slugs : FileArrives(s)'
  BY <1>1, <1>2, <1>4, <1>5, <1>6 DEF FileArrives
<1>10. \A w \in Watchers : SubscriberIsTold(w)'
  BY <1>1, <1>5 DEF PromptsInv, SubscriberIsTold
<1> QED BY <1>5, <1>7, <1>8, <1>9, <1>10 DEF PromptsInv

LEMMA ReloadStep == ASSUME PromptsInv, Prompts!ReloadFile \/ Prompts!PutReloaded PROVE PromptsInv'
<1>1. /\ loader \in LoaderState /\ mem \in [Slugs -> Nat] /\ disk \in [Slugs -> File] /\ watched \in BOOLEAN
      /\ watchers \in [Watchers -> {Prompts!Unsubscribed} \union Channel]
  BY Types DEF PromptsInv
<1>2. /\ LoaderIs /\ \A s \in Slugs : FileArrives(s)
      /\ \A s \in Slugs : disk[s].whole => disk[s].n > 0
      /\ \A w \in Watchers : SubscriberIsTold(w)
  BY DEF PromptsInv
<1>3. watchers' = watchers /\ events' = events /\ disk' = disk /\ watched' = watched
  BY DEF Prompts!ReloadFile, Prompts!PutReloaded, Prompts!Loader
<1>4. PICK s \in Slugs : loader.slug = {s} /\ Prompts!TheSlug = s
  BY <1>2, TheSlugIs DEF LoaderIs, Prompts!ReloadFile, Prompts!PutReloaded
<1>5. CASE Prompts!ReloadFile /\ disk[s].whole
  <2>1. PICK l : l = [loader EXCEPT !.pc = "put", !.n = disk[s].n]
    OBVIOUS
  <2>2. /\ l \in LoaderState /\ l.pc = "put" /\ l.slug = {s} /\ l.n = disk[s].n /\ Prompts!Loader(l) /\ loader' = l
        /\ mem' = mem /\ loader.pc = "load"
    BY <1>1, <1>2, <1>4, <1>5, <2>1 DEF Prompts!ReloadFile, Prompts!LoadFile, Prompts!Loader, LoaderState, File
  <2>3. LoaderIs'
    BY <1>2, <1>3, <1>4, <2>2 DEF LoaderIs, Prompts!Open
  <2>4. \A t \in Slugs : FileArrives(t)'
    BY <1>2, <1>3, <1>4, <2>2 DEF FileArrives
  <2>5. \A w \in Watchers : SubscriberIsTold(w)'
    BY <1>2, <1>3, <2>2 DEF SubscriberIsTold
  <2> QED BY <1>1, <1>3, <2>2, <2>3, <2>4, <2>5, LoaderStep
<1>6. CASE Prompts!ReloadFile /\ ~disk[s].whole
  <2>1. PICK l : l = [loader EXCEPT !.pc = "wait", !.slug = {}]
    OBVIOUS
  <2>2. /\ l \in LoaderState /\ l.pc = "wait" /\ l.slug = {} /\ Prompts!Loader(l) /\ loader' = l
        /\ mem' = mem /\ loader.pc = "load"
    <3>1. Prompts!LoadFile(Prompts!TheSlug) = 0 /\ ~(0 > 0)
      BY <1>4, <1>6 DEF Prompts!LoadFile
    <3>2. Prompts!Loader(l) /\ loader.pc = "load" /\ mem' = mem
      BY <1>6, <2>1, <3>1 DEF Prompts!ReloadFile
    <3> QED BY <1>1, <2>1, <3>2 DEF Prompts!Loader, LoaderState
  <2>3. LoaderIs'
    BY <1>2, <1>3, <2>2 DEF LoaderIs, Prompts!Open
  <2>4. \A t \in Slugs : FileArrives(t)'
    BY <1>2, <1>3, <1>4, <1>6, <2>2 DEF FileArrives
  <2>5. \A w \in Watchers : SubscriberIsTold(w)'
    BY <1>2, <1>3, <2>2 DEF SubscriberIsTold
  <2> QED BY <1>1, <1>3, <2>2, <2>3, <2>4, <2>5, LoaderStep
<1>7. CASE Prompts!PutReloaded
  <2>1. PICK l : l = [loader EXCEPT !.pc = "notify"]
    OBVIOUS
  <2>2. /\ l \in LoaderState /\ l.pc = "notify" /\ l.slug = {s} /\ l.n = loader.n /\ Prompts!Loader(l) /\ loader' = l
        /\ loader.pc = "put"
    BY <1>1, <1>4, <1>7, <2>1 DEF Prompts!PutReloaded, Prompts!Loader, LoaderState
  <2>3. /\ mem' \in [Slugs -> Nat] /\ mem'[s] = loader.n
        /\ \A t \in Slugs \ {s} : mem'[t] = mem[t]
    BY <1>1, <1>4, <1>7 DEF Prompts!PutReloaded, Prompts!Put, LoaderState
  <2>4. LoaderIs'
    BY <1>2, <1>3, <1>4, <2>2, <2>3 DEF LoaderIs, Prompts!Open
  <2>5. \A t \in Slugs : FileArrives(t)'
    BY <1>2, <1>3, <1>4, <2>2, <2>3 DEF FileArrives
  <2>6. ASSUME NEW w \in Watchers PROVE SubscriberIsTold(w)'
    <3>1. CASE watchers[w] # Prompts!Unsubscribed /\ watchers[w].slug # s
      <4>1. watchers[w].slug \in Slugs
        BY <1>1, <3>1 DEF Channel
      <4> QED BY <1>2, <1>3, <1>4, <2>2, <2>3, <3>1, <4>1 DEF SubscriberIsTold
    <3>2. CASE watchers[w] = Prompts!Unsubscribed \/ watchers[w].slug = s
      BY <1>3, <2>2, <3>2 DEF SubscriberIsTold
    <3> QED BY <3>1, <3>2
  <2> QED BY <1>1, <1>3, <2>2, <2>3, <2>4, <2>5, <2>6, LoaderStep
<1> QED BY <1>5, <1>6, <1>7

LEMMA NotifyStep == ASSUME PromptsInv, Prompts!Notify PROVE PromptsInv'
<1>1. /\ loader \in LoaderState /\ mem \in [Slugs -> Nat]
      /\ watchers \in [Watchers -> {Prompts!Unsubscribed} \union Channel]
      /\ loader.pc = "notify"
  BY Types DEF PromptsInv, Prompts!Notify
<1>2. LoaderIs /\ \A s \in Slugs : FileArrives(s)
  BY DEF PromptsInv
<1>3. PICK s \in Slugs : loader.slug = {s} /\ Prompts!TheSlug = s /\ mem[s] = loader.n
  BY <1>1, <1>2, TheSlugIs DEF LoaderIs
<1>4. UNCHANGED <<disk, edits, watched, events, mem>>
  BY DEF Prompts!Notify, Prompts!Loader
<1>5. loader' \in LoaderState /\ loader'.pc = "wait" /\ loader'.slug = {}
  BY <1>1 DEF Prompts!Notify, Prompts!Loader, LoaderState
<1>6. ASSUME NEW w \in Watchers
      PROVE  watchers'[w] \in {Prompts!Unsubscribed} \union Channel /\ SubscriberIsTold(w)'
  <2>1. watchers'[w] = IF watchers[w] # Prompts!Unsubscribed /\ watchers[w].slug = s
                       THEN Prompts!Told(watchers[w], mem[s]) ELSE watchers[w]
    BY <1>3 DEF Prompts!Notify
  <2>2. CASE watchers[w] # Prompts!Unsubscribed /\ watchers[w].slug = s
    <3>1. watchers[w] \in Channel /\ watchers'[w] = Prompts!Told(watchers[w], mem[s]) /\ mem[s] \in Nat
      BY <1>1, <2>1, <2>2
    <3>2. PICK q : q = Append(watchers[w].queue, mem[s])
      OBVIOUS
    <3>3. /\ watchers[w].queue \in Seq(Nat) /\ watchers[w].last \in Nat
          /\ q \in Seq(Nat) /\ Last(<<watchers[w].last>> \o q) = mem[s]
      BY <3>1, <3>2, Sent DEF Channel
    <3>4. CASE Len(watchers[w].queue) < Capacity
      <4>1. watchers'[w] = [watchers[w] EXCEPT !.queue = q, !.missed = FALSE]
        BY <3>1, <3>2, <3>4 DEF Prompts!Told
      <4>2. watchers'[w] \in Channel /\ watchers'[w].queue = q /\ watchers'[w].last = watchers[w].last
            /\ watchers'[w].slug = s
        BY <2>2, <3>1, <3>3, <4>1 DEF Channel
      <4> QED BY <1>4, <3>3, <4>2 DEF SubscriberIsTold
    <3>5. CASE ~(Len(watchers[w].queue) < Capacity)
      <4>1. watchers'[w] = [watchers[w] EXCEPT !.missed = TRUE]
        BY <3>1, <3>5 DEF Prompts!Told
      <4>2. watchers'[w] \in Channel /\ watchers'[w].missed = TRUE
        BY <3>1, <4>1 DEF Channel
      <4> QED BY <4>2 DEF SubscriberIsTold
    <3> QED BY <3>4, <3>5
  <2>3. CASE ~(watchers[w] # Prompts!Unsubscribed /\ watchers[w].slug = s)
    <3>1. watchers'[w] = watchers[w]
      BY <2>1, <2>3
    <3>2. SubscriberIsTold(w)
      BY DEF PromptsInv
    <3> QED BY <1>1, <1>3, <1>4, <2>3, <3>1, <3>2 DEF SubscriberIsTold
  <2> QED BY <2>2, <2>3
<1>7. watchers' \in [Watchers -> {Prompts!Unsubscribed} \union Channel]
  <2>1. watchers' = [w \in Watchers |-> watchers'[w]]
    BY DEF Prompts!Notify
  <2> QED BY <1>6, <2>1
<1>8. Prompts!TypeOK'
  BY <1>4, <1>5, <1>7, Types, TypesPrimed DEF PromptsInv
<1>9. LoaderIs'
  BY <1>1, <1>2, <1>4, <1>5 DEF LoaderIs, Prompts!Open
<1>10. \A t \in Slugs : FileArrives(t)'
  BY <1>1, <1>2, <1>4, <1>5 DEF FileArrives
<1> QED BY <1>4, <1>6, <1>8, <1>9, <1>10 DEF PromptsInv

-----------------------------------------------------------------------------
(* Subscribers and composers.                                              *)

LEMMA SubscriberStep ==
    ASSUME PromptsInv, NEW w \in Watchers, NEW channel \in {Prompts!Unsubscribed} \union Channel,
           Prompts!Subscriber(w, channel), channel = Prompts!Unsubscribed \/ Prompts!Open,
           (channel # Prompts!Unsubscribed /\ ~channel.missed /\ mem[channel.slug] # channel.since) =>
               \/ Last(<<channel.last>> \o channel.queue) = mem[channel.slug]
               \/ loader.pc = "notify" /\ loader.slug = {channel.slug}
    PROVE  PromptsInv'
<1>1. watchers \in [Watchers -> {Prompts!Unsubscribed} \union Channel]
  BY Types DEF PromptsInv
<1>2. UNCHANGED <<disk, edits, watched, events, mem, loader>>
  BY DEF Prompts!Subscriber
<1>3. /\ watchers' \in [Watchers -> {Prompts!Unsubscribed} \union Channel] /\ watchers'[w] = channel
      /\ \A u \in Watchers : u # w => watchers'[u] = watchers[u]
  BY <1>1 DEF Prompts!Subscriber
<1>4. Prompts!TypeOK'
  BY <1>2, <1>3, Types, TypesPrimed DEF PromptsInv
<1>5. LoaderIs'
  BY <1>2, <1>3 DEF PromptsInv, LoaderIs, Prompts!Open
<1>6. \A s \in Slugs : FileArrives(s)'
  BY <1>2 DEF PromptsInv, FileArrives
<1>7. \A u \in Watchers : SubscriberIsTold(u)'
  BY <1>2, <1>3 DEF PromptsInv, SubscriberIsTold
<1> QED BY <1>2, <1>4, <1>5, <1>6, <1>7 DEF PromptsInv

LEMMA WatchStep ==
    ASSUME PromptsInv, NEW w \in Watchers, Prompts!ReceiveUpdate(w) \/ Prompts!CloseWatch(w) \/ \E s \in Slugs : Prompts!Watch(w, s)
    PROVE  PromptsInv'
<1>1. watchers \in [Watchers -> {Prompts!Unsubscribed} \union Channel] /\ mem \in [Slugs -> Nat]
  BY Types DEF PromptsInv
<1>2. LoaderIs /\ SubscriberIsTold(w)
  BY DEF PromptsInv
<1>3. CASE Prompts!ReceiveUpdate(w)
  <2>1. PICK q : q = watchers[w].queue
    OBVIOUS
  <2>2. PICK channel : channel = [watchers[w] EXCEPT !.queue = Tail(@), !.last = Head(q)]
    OBVIOUS
  <2>3. /\ watchers[w] # Prompts!Unsubscribed /\ watchers[w] \in Channel /\ q # <<>> /\ q \in Seq(Nat)
        /\ watchers[w].last \in Nat /\ Prompts!Subscriber(w, channel)
    BY <1>1, <1>3, <2>1, <2>2 DEF Prompts!ReceiveUpdate, Channel
  <2>4. /\ Head(q) \in Nat /\ Tail(q) \in Seq(Nat)
        /\ Last(<<Head(q)>> \o Tail(q)) = Last(<<watchers[w].last>> \o q)
    BY <2>3, Received
  <2>5. /\ channel \in Channel /\ channel.queue = Tail(q) /\ channel.last = Head(q)
        /\ channel.slug = watchers[w].slug /\ channel.since = watchers[w].since
        /\ channel.missed = watchers[w].missed
    BY <2>1, <2>2, <2>3, <2>4 DEF Channel
  <2>6. Prompts!Open
    BY <1>2, <2>3 DEF LoaderIs
  <2>7. (~channel.missed /\ mem[channel.slug] # channel.since) =>
            \/ Last(<<channel.last>> \o channel.queue) = mem[channel.slug]
            \/ loader.pc = "notify" /\ loader.slug = {channel.slug}
    BY <1>2, <2>1, <2>3, <2>4, <2>5 DEF SubscriberIsTold
  <2> QED BY <2>3, <2>5, <2>6, <2>7, SubscriberStep
<1>4. CASE Prompts!CloseWatch(w)
  BY <1>4, SubscriberStep DEF Prompts!CloseWatch
<1>5. ASSUME NEW s \in Slugs, Prompts!Watch(w, s) PROVE PromptsInv'
  <2>1. PICK channel :
            channel = [slug |-> s, queue |-> <<>>, since |-> mem[s], last |-> mem[s], missed |-> FALSE]
    OBVIOUS
  <2>2. mem[s] \in Nat /\ <<>> \in Seq(Nat)
    BY <1>1
  <2>3. channel \in Channel /\ channel.slug = s /\ channel.since = mem[s]
    BY <2>1, <2>2 DEF Channel
  <2>4. Prompts!Subscriber(w, channel) /\ Prompts!Open
    BY <1>5, <2>1 DEF Prompts!Watch
  <2> QED BY <2>3, <2>4, SubscriberStep
<1> QED BY <1>3, <1>4, <1>5

\* A step that changes renders only.
LEMMA RendersAlone ==
    ASSUME PromptsInv, UNCHANGED <<disk, edits, watched, events, mem, loader, watchers>>
    PROVE  PromptsInv'
  BY DEF PromptsInv, Prompts!TypeOK, LoaderIs, Prompts!Open, FileArrives, SubscriberIsTold

LEMMA ComposerStep ==
    ASSUME PromptsInv, NEW c \in Composers,
           Prompts!BeginRender(c) \/ Prompts!Join(c) \/ Prompts!EndRender(c) \/ \E i \in DOMAIN renders[c].work : Prompts!Fetch(c, i)
    PROVE  PromptsInv'
<1>1. UNCHANGED <<disk, edits, watched, events, mem, loader, watchers>>
  BY DEF Prompts!BeginRender, Prompts!Join, Prompts!EndRender, Prompts!Fetch, Prompts!Composer
<1> QED BY <1>1, RendersAlone

LEMMA PromptsStep == ASSUME PromptsInv, Prompts!Next PROVE PromptsInv'
<1>1. CASE \E s \in Slugs : Prompts!BeginWrite(s) \/ Prompts!EndWrite(s) \/ Prompts!Replace(s) \/ Prompts!RemoveFile(s)
  BY <1>1, EditStep
<1>2. CASE Prompts!AddWatch \/ Prompts!ReadDir \/ Prompts!EndScan \/ \E s \in Slugs : Prompts!ScanFile(s)
  BY <1>2, OpeningStep
<1>3. CASE Prompts!TakeEvent \/ Prompts!ReloadFile \/ Prompts!PutReloaded \/ Prompts!Notify
  BY <1>3, TakeEventStep, ReloadStep, NotifyStep
<1>4. CASE \E w \in Watchers : Prompts!ReceiveUpdate(w) \/ Prompts!CloseWatch(w) \/ \E s \in Slugs : Prompts!Watch(w, s)
  BY <1>4, WatchStep
<1>5. CASE \E c \in Composers : Prompts!BeginRender(c) \/ Prompts!Join(c) \/ Prompts!EndRender(c)
                                 \/ \E i \in DOMAIN renders[c].work : Prompts!Fetch(c, i)
  BY <1>5, ComposerStep
<1> QED BY <1>1, <1>2, <1>3, <1>4, <1>5 DEF Prompts!Next

-----------------------------------------------------------------------------
\* The inductive invariant of PromptFiles: what has not reached the store is on its way.
THEOREM PromptsInvariance == Prompts!Spec => []PromptsInv
<1>1. PromptsInv /\ [Prompts!Next]_(Prompts!promptVars) => PromptsInv'
  <2> SUFFICES ASSUME PromptsInv, [Prompts!Next]_(Prompts!promptVars) PROVE PromptsInv'
    OBVIOUS
  <2>1. CASE UNCHANGED Prompts!promptVars
    BY <2>1, RendersAlone DEF Prompts!promptVars
  <2> QED BY <2>1, PromptsStep
<1> QED BY <1>1, PromptsInitially, PTL DEF Prompts!Spec

\* Once all events are handled, nothing is on its way any more.
LEMMA PromptsInvArrives == PromptsInv => Prompts!ChangesArrive
<1>. SUFFICES ASSUME PromptsInv, Prompts!Settled PROVE Prompts!ChangesArrive
  BY DEF Prompts!ChangesArrive
<1>1. loader.pc = "wait" /\ \A s \in Slugs : ~Reads(events, s)
  BY DEF Prompts!Settled, Reads
<1> QED BY <1>1 DEF PromptsInv, Prompts!ChangesArrive, Prompts!Last, Last, FileArrives, SubscriberIsTold

-----------------------------------------------------------------------------
(* The renders: what they hold has been served since they began.           *)

\* The store serves nothing newer than the files, nor is it about to; a removed file comes back newer.
NoneNewer ==
    \A s \in Slugs :
        /\ mem[s] <= edits /\ disk[s].n <= edits
        /\ disk[s].n > 0 => mem[s] <= disk[s].n
        /\ loader.pc = "put" /\ loader.slug = {s} =>
              mem[s] <= loader.n /\ loader.n <= edits /\ (disk[s].n > 0 => loader.n <= disk[s].n)

Fragments == {<<>>} \union (Slugs \X Nat)
RenderState == [pc : {"idle", "fetch", "rendered"}, refs : Seq(Slugs), from : Seq(Nat), work : Seq(Fragments), failed : BOOLEAN]

\* A call has a place for each of its references; what is in it was served since the call began.
RenderIs(k) ==
    k.pc # "idle" =>
        /\ DOMAIN k.from = DOMAIN k.refs /\ DOMAIN k.work = DOMAIN k.refs
        /\ \A i \in DOMAIN k.refs :
              /\ k.from[i] <= mem[k.refs[i]]
              /\ k.work[i] # <<>> => /\ k.work[i][1] = k.refs[i]
                                     /\ k.work[i][2] \in k.from[i] .. mem[k.refs[i]]
        /\ k.pc = "rendered" => \A i \in DOMAIN k.work : k.work[i] # <<>>

RendersInv ==
    /\ PromptsInv
    /\ NoneNewer
    /\ renders \in [Composers -> RenderState]
    /\ \A k \in Composers : RenderIs(renders[k])

LEMMA NoRenderIs ==
    /\ Prompts!NoRender \in RenderState /\ Prompts!NoRender.pc = "idle"
  BY DEF Prompts!NoRender, RenderState

LEMMA NoneNewerStays ==
    ASSUME NoneNewer, UNCHANGED <<disk, edits, mem>>, loader'.pc = "put" => loader' = loader
    PROVE  NoneNewer'
  BY DEF NoneNewer

\* Editors number their edits upwards.
LEMMA NewerFiles ==
    ASSUME PromptsInv, NoneNewer, NEW s \in Slugs,
           Prompts!BeginWrite(s) \/ Prompts!EndWrite(s) \/ Prompts!Replace(s) \/ Prompts!RemoveFile(s)
    PROVE  NoneNewer' /\ mem' = mem
<1>1. /\ disk \in [Slugs -> File] /\ edits \in Nat /\ mem \in [Slugs -> Nat] /\ loader \in LoaderState
  BY Types DEF PromptsInv
<1>2. PICK file :
        /\ disk' = [disk EXCEPT ![s] = file] /\ UNCHANGED <<mem, loader>>
        /\ \/ edits' = edits + 1 /\ (file.n = edits' \/ file.n = 0)
           \/ edits' = edits /\ file.n = disk[s].n
  <2>1. CASE Prompts!BeginWrite(s)
    <3>1. PICK file : file = [n |-> edits', whole |-> FALSE]
      OBVIOUS
    <3>2. file.n = edits'
      BY <3>1
    <3>3. disk' = [disk EXCEPT ![s] = file] /\ UNCHANGED <<mem, loader>> /\ edits' = edits + 1
      BY <2>1, <3>1 DEF Prompts!BeginWrite, Prompts!Change
    <3> QED BY <3>2, <3>3
  <2>2. CASE Prompts!EndWrite(s)
    <3>1. PICK file : file = [disk[s] EXCEPT !.whole = TRUE]
      OBVIOUS
    <3>2. file.n = disk[s].n
      BY <1>1, <3>1 DEF File
    <3> QED BY <2>2, <3>1, <3>2 DEF Prompts!EndWrite, Prompts!Change
  <2>3. CASE Prompts!Replace(s)
    <3>1. PICK file : file = [n |-> edits', whole |-> TRUE]
      OBVIOUS
    <3>2. file.n = edits'
      BY <3>1
    <3>3. disk' = [disk EXCEPT ![s] = file] /\ UNCHANGED <<mem, loader>> /\ edits' = edits + 1
      BY <2>3, <3>1 DEF Prompts!Replace, Prompts!Change
    <3> QED BY <3>2, <3>3
  <2>4. CASE Prompts!RemoveFile(s)
    <3>1. Prompts!NoFile.n = 0
      BY DEF Prompts!NoFile
    <3> QED BY <2>4, <3>1 DEF Prompts!RemoveFile, Prompts!Change
  <2> QED BY <2>1, <2>2, <2>3, <2>4
<1>3. \A t \in Slugs : disk'[t] = IF t = s THEN file ELSE disk[t]
  BY <1>1, <1>2
<1>4. edits' \in Nat /\ edits <= edits' /\ \A t \in Slugs : disk[t].n \in Nat /\ mem[t] \in Nat
  BY <1>1, <1>2 DEF File
<1>5. loader.n \in Nat
  BY <1>1 DEF LoaderState
<1>6. ASSUME NEW t \in Slugs
      PROVE  /\ mem[t] <= edits' /\ disk'[t].n <= edits'
             /\ disk'[t].n > 0 => mem[t] <= disk'[t].n
             /\ loader.pc = "put" /\ loader.slug = {t} =>
                  mem[t] <= loader.n /\ loader.n <= edits' /\ (disk'[t].n > 0 => loader.n <= disk'[t].n)
  <2>1. /\ mem[t] <= edits /\ disk[t].n <= edits /\ (disk[t].n > 0 => mem[t] <= disk[t].n)
        /\ loader.pc = "put" /\ loader.slug = {t} =>
             mem[t] <= loader.n /\ loader.n <= edits /\ (disk[t].n > 0 => loader.n <= disk[t].n)
    BY DEF NoneNewer
  <2> QED BY <1>1, <1>2, <1>3, <1>4, <1>5, <2>1
<1> QED BY <1>2, <1>6 DEF NoneNewer

\* What is read is not older than what is served.
LEMMA NewerInStore ==
    ASSUME PromptsInv, NoneNewer, Prompts!Next
    PROVE  NoneNewer' /\ \A s \in Slugs : mem[s] <= mem'[s]
<1>1. /\ disk \in [Slugs -> File] /\ edits \in Nat /\ mem \in [Slugs -> Nat] /\ loader \in LoaderState
  BY Types DEF PromptsInv
<1>2. \A s \in Slugs : mem[s] \in Nat /\ mem[s] <= mem[s] /\ disk[s].n \in Nat
  BY <1>1 DEF File
<1>3. CASE \E s \in Slugs : Prompts!BeginWrite(s) \/ Prompts!EndWrite(s) \/ Prompts!Replace(s) \/ Prompts!RemoveFile(s)
  BY <1>2, <1>3, NewerFiles
<1>4. CASE Prompts!AddWatch \/ Prompts!ReadDir \/ Prompts!EndScan \/ Prompts!TakeEvent \/ Prompts!Notify
  <2>1. UNCHANGED <<disk, edits, mem>> /\ loader'.pc # "put"
    BY <1>1, <1>4 DEF Prompts!AddWatch, Prompts!ReadDir, Prompts!EndScan, Prompts!TakeEvent, Prompts!Notify,
                      Prompts!Loader, LoaderState
  <2> QED BY <1>2, <2>1, NoneNewerStays
<1>5. ASSUME NEW s \in Slugs, Prompts!ScanFile(s) PROVE NoneNewer' /\ \A t \in Slugs : mem[t] <= mem'[t]
  <2>1. /\ UNCHANGED <<disk, edits>> /\ loader'.pc = "scan"
        /\ mem' = mem \/ (disk[s].n > 0 /\ mem' = [mem EXCEPT ![s] = disk[s].n])
    <3>1. PICK n : n = Prompts!LoadFile(s) /\ (n > 0 => n = disk[s].n)
      BY <1>2 DEF Prompts!LoadFile
    <3>2. UNCHANGED <<disk, edits>> /\ mem' = IF n > 0 THEN [mem EXCEPT ![s] = n] ELSE mem
      BY <1>5, <3>1 DEF Prompts!ScanFile, Prompts!Loader, Prompts!Put
    <3>3. loader'.pc = "scan"
      BY <1>1, <1>5 DEF Prompts!ScanFile, Prompts!Loader, LoaderState
    <3> QED BY <3>1, <3>2, <3>3
  <2>2. CASE mem' = mem
    BY <1>2, <2>1, <2>2, NoneNewerStays
  <2>3. CASE disk[s].n > 0 /\ mem' = [mem EXCEPT ![s] = disk[s].n]
    <3>1. \A t \in Slugs : mem'[t] = IF t = s THEN disk[s].n ELSE mem[t]
      BY <1>1, <2>3
    <3>2. \A t \in Slugs : mem[t] <= edits /\ disk[t].n <= edits /\ (disk[t].n > 0 => mem[t] <= disk[t].n)
      BY DEF NoneNewer
    <3> QED BY <1>2, <2>1, <2>3, <3>1, <3>2 DEF NoneNewer
  <2> QED BY <2>1, <2>2, <2>3
<1>6. CASE Prompts!ReloadFile
  <2>1. PICK s \in Slugs : loader.slug = {s}
    BY <1>6 DEF Prompts!ReloadFile, PromptsInv, LoaderIs
  <2>2. PICK n : n = Prompts!LoadFile(s)
    OBVIOUS
  <2>3. /\ UNCHANGED <<disk, edits, mem>>
        /\ loader' = IF n > 0 THEN [loader EXCEPT !.pc = "put", !.n = n] ELSE [loader EXCEPT !.pc = "wait", !.slug = {}]
    BY <1>6, <2>1, <2>2, TheSlugIs DEF Prompts!ReloadFile, Prompts!Loader
  <2>4. n > 0 => n = disk[s].n /\ loader'.n = n /\ loader'.slug = {s}
    BY <1>1, <2>1, <2>2, <2>3 DEF Prompts!LoadFile, LoaderState
  <2>5. ~(n > 0) => loader'.pc = "wait"
    BY <1>1, <2>3 DEF LoaderState
  <2>6. CASE n > 0
    <3>1. \A t \in Slugs : mem[t] <= edits /\ disk[t].n <= edits /\ (disk[t].n > 0 => mem[t] <= disk[t].n)
      BY DEF NoneNewer
    <3>2. \A t \in Slugs : {s} = {t} => t = s
      OBVIOUS
    <3>3. disk[s].n <= disk[s].n
      BY <1>2
    <3> QED BY <1>2, <2>3, <2>4, <2>6, <3>1, <3>2, <3>3 DEF NoneNewer
  <2>7. CASE ~(n > 0)
    BY <1>2, <2>3, <2>5, <2>7, NoneNewerStays
  <2> QED BY <2>6, <2>7
<1>7. CASE Prompts!PutReloaded
  <2>1. PICK s \in Slugs : loader.slug = {s}
    BY <1>7 DEF Prompts!PutReloaded, PromptsInv, LoaderIs
  <2>2. /\ UNCHANGED <<disk, edits>> /\ loader.pc = "put" /\ loader'.pc = "notify"
        /\ mem' = [mem EXCEPT ![s] = loader.n]
    BY <1>1, <1>7, <2>1, TheSlugIs DEF Prompts!PutReloaded, Prompts!Loader, Prompts!Put, LoaderState
  <2>3. mem[s] <= loader.n /\ loader.n <= edits /\ (disk[s].n > 0 => loader.n <= disk[s].n)
    BY <2>1, <2>2 DEF NoneNewer
  <2>4. \A t \in Slugs : mem'[t] = IF t = s THEN loader.n ELSE mem[t]
    BY <1>1, <2>2
  <2>5. \A t \in Slugs : mem[t] <= edits /\ disk[t].n <= edits /\ (disk[t].n > 0 => mem[t] <= disk[t].n)
    BY DEF NoneNewer
  <2> QED BY <1>2, <2>2, <2>3, <2>4, <2>5 DEF NoneNewer
<1>8. CASE \/ \E w \in Watchers : Prompts!ReceiveUpdate(w) \/ Prompts!CloseWatch(w) \/ \E s \in Slugs : Prompts!Watch(w, s)
           \/ \E k \in Composers : Prompts!BeginRender(k) \/ Prompts!Join(k) \/ Prompts!EndRender(k)
                                   \/ \E i \in DOMAIN renders[k].work : Prompts!Fetch(k, i)
  <2>1. UNCHANGED <<disk, edits, mem, loader>>
    BY <1>8 DEF Prompts!ReceiveUpdate, Prompts!CloseWatch, Prompts!Watch, Prompts!Subscriber, Prompts!BeginRender,
                Prompts!Join, Prompts!EndRender, Prompts!Fetch, Prompts!Composer
  <2> QED BY <1>2, <2>1, NoneNewerStays
<1> QED BY <1>3, <1>4, <1>5, <1>6, <1>7, <1>8 DEF Prompts!Next

LEMMA RenderStays ==
    ASSUME NEW k \in RenderState, mem \in [Slugs -> Nat], mem' \in [Slugs -> Nat], RenderIs(k), \A s \in Slugs : mem[s] <= mem'[s]
    PROVE  RenderIs(k)'
<1>1. ASSUME NEW i \in DOMAIN k.refs, k.pc # "idle"
      PROVE  /\ k.from[i] <= mem'[k.refs[i]]
             /\ k.work[i] # <<>> => k.work[i][1] = k.refs[i] /\ k.work[i][2] \in k.from[i] .. mem'[k.refs[i]]
  <2>1. k.refs[i] \in Slugs
    BY DEF RenderState
  <2>2. k.from[i] \in Nat
    BY <1>1 DEF RenderState, RenderIs
  <2>3. PICK s \in Slugs, n \in Nat, old, new \in Nat : s = k.refs[i] /\ n = k.from[i] /\ old = mem[s] /\ new = mem'[s] /\ old <= new /\ old \in Nat
    BY <2>1, <2>2
  <2>4. n <= old /\ (k.work[i] # <<>> => k.work[i][1] = s /\ k.work[i][2] \in n .. old)
    BY <1>1, <2>3 DEF RenderIs
  <2> QED BY <2>3, <2>4
<1> QED BY <1>1 DEF RenderIs

\* A step of one call.
LEMMA RenderBecomes ==
    ASSUME RendersInv, NEW c \in Composers, NEW k \in RenderState, Prompts!Composer(c, k), RenderIs(k)
    PROVE  renders' \in [Composers -> RenderState] /\ \A d \in Composers : RenderIs(renders[d])'
<1>1. renders \in [Composers -> RenderState] /\ renders' = [renders EXCEPT ![c] = k] /\ mem' = mem
  BY DEF RendersInv, Prompts!Composer
<1>2. renders' \in [Composers -> RenderState] /\ \A d \in Composers : renders'[d] = IF d = c THEN k ELSE renders[d]
  BY <1>1
<1>3. \A d \in Composers : RenderIs(renders[d]) /\ (RenderIs(renders[d]) <=> RenderIs(renders[d]))
  BY DEF RendersInv
<1>4. ASSUME NEW d \in Composers PROVE RenderIs(renders[d])'
  <2>1. PICK q : q = renders'[d]
    OBVIOUS
  <2>2. RenderIs(q)
    BY <1>2, <1>3, <2>1
  <2>3. RenderIs(q)' <=> RenderIs(q)
    BY <1>1 DEF RenderIs
  <2> QED BY <2>1, <2>2, <2>3 DEF RenderIs
<1> QED BY <1>2, <1>4

LEMMA BeginRenderStep ==
    ASSUME RendersInv, NEW c \in Composers, Prompts!BeginRender(c)
    PROVE  renders' \in [Composers -> RenderState] /\ \A d \in Composers : RenderIs(renders[d])'
<1>1. mem \in [Slugs -> Nat]
  BY Types DEF RendersInv, PromptsInv
<1>2. PICK t \in Templates : \E holds \in SUBSET DOMAIN t \ {{}} : \E order \in Prompts!InOrder(holds) : \E list :
        /\ list = [i \in DOMAIN order |-> t[order[i]]]
        /\ Prompts!Composer(c, [Prompts!NoRender EXCEPT !.pc = "fetch", !.refs = list,
                                                        !.from = [i \in DOMAIN list |-> mem[list[i]]],
                                                        !.work = [i \in DOMAIN list |-> <<>>]])
  BY DEF Prompts!BeginRender
<1>3. PICK holds \in SUBSET DOMAIN t : \E order \in Prompts!InOrder(holds) : \E list :
        /\ list = [i \in DOMAIN order |-> t[order[i]]]
        /\ Prompts!Composer(c, [Prompts!NoRender EXCEPT !.pc = "fetch", !.refs = list,
                                                        !.from = [i \in DOMAIN list |-> mem[list[i]]],
                                                        !.work = [i \in DOMAIN list |-> <<>>]])
  BY <1>2
<1>4. PICK order, list :
        /\ order \in Prompts!InOrder(holds)
        /\ list = [i \in DOMAIN order |-> t[order[i]]]
        /\ Prompts!Composer(c, [Prompts!NoRender EXCEPT !.pc = "fetch", !.refs = list,
                                                        !.from = [i \in DOMAIN list |-> mem[list[i]]],
                                                        !.work = [i \in DOMAIN list |-> <<>>]])
  BY <1>3
<1>5. PICK n \in Nat : DOMAIN order = 1 .. n /\ order \in [1 .. n -> holds]
  <2>1. t \in Seq(Slugs)
    BY TemplatesAre
  <2>2. IsFiniteSet(holds)
    <3>1. IsFiniteSet(1 .. Len(t)) /\ DOMAIN t = 1 .. Len(t)
      BY <2>1, FS_Interval
    <3> QED BY <3>1, FS_Subset
  <2>3. Prompts!Cardinality(holds) \in Nat
    BY <2>2, FS_CardinalityType DEF Prompts!Cardinality, Cardinality
  <2> QED BY <1>4, <2>3 DEF Prompts!InOrder
<1>6. list \in Seq(Slugs) /\ DOMAIN list = 1 .. n
  <2>1. t \in Seq(Slugs) /\ \A i \in holds : i \in DOMAIN t
    BY TemplatesAre
  <2>2. \A i \in 1 .. n : t[order[i]] \in Slugs
    BY <1>5, <2>1
  <2>3. list \in [1 .. n -> Slugs]
    BY <1>4, <1>5, <2>2
  <2> QED BY <1>5, <2>3
<1>7. PICK from, places : from = [i \in DOMAIN list |-> mem[list[i]]] /\ places = [i \in DOMAIN list |-> <<>>]
  OBVIOUS
<1>8. from \in Seq(Nat) /\ DOMAIN from = 1 .. n /\ \A i \in 1 .. n : from[i] = mem[list[i]]
  <2>1. \A i \in 1 .. n : mem[list[i]] \in Nat
    BY <1>1, <1>6
  <2>2. from \in [1 .. n -> Nat]
    BY <1>6, <1>7, <2>1
  <2> QED BY <1>6, <1>7, <2>2
<1>9. places \in Seq(Fragments) /\ DOMAIN places = 1 .. n /\ \A i \in 1 .. n : places[i] = <<>>
  <2>1. places \in [1 .. n -> Fragments]
    BY <1>6, <1>7 DEF Fragments
  <2> QED BY <1>6, <1>7, <2>1
<1>10. PICK k : k = [Prompts!NoRender EXCEPT !.pc = "fetch", !.refs = list, !.from = from, !.work = places]
  OBVIOUS
<1>11. k \in RenderState /\ k.pc = "fetch" /\ k.refs = list /\ k.from = from /\ k.work = places
  BY <1>6, <1>8, <1>9, <1>10, NoRenderIs DEF RenderState
<1>12. RenderIs(k)
  <2>1. \A i \in 1 .. n : from[i] <= mem[list[i]]
    BY <1>1, <1>6, <1>8
  <2> QED BY <1>6, <1>8, <1>9, <1>11, <2>1 DEF RenderIs
<1>13. Prompts!Composer(c, k)
  BY <1>4, <1>7, <1>10
<1> QED BY <1>11, <1>12, <1>13, RenderBecomes

\* A fetch takes what the store serves then.
LEMMA FetchStep ==
    ASSUME RendersInv, NEW c \in Composers, NEW i \in DOMAIN renders[c].work, Prompts!Fetch(c, i)
    PROVE  renders' \in [Composers -> RenderState] /\ \A d \in Composers : RenderIs(renders[d])'
<1>1. PICK k \in RenderState : k = renders[c] /\ RenderIs(k)
  BY DEF RendersInv
<1>2. mem \in [Slugs -> Nat]
  BY Types DEF RendersInv, PromptsInv
<1>3. k.pc = "fetch" /\ i \in DOMAIN k.work /\ DOMAIN k.work = DOMAIN k.refs /\ DOMAIN k.from = DOMAIN k.refs
  BY <1>1 DEF Prompts!Fetch, RenderIs
<1>4. k.refs[i] \in Slugs /\ mem[k.refs[i]] \in Nat /\ k.from[i] \in Nat
  BY <1>2, <1>3 DEF RenderState
<1>5. PICK fragment \in Fragments : fragment = <<k.refs[i], mem[k.refs[i]]>>
  BY <1>4 DEF Fragments
<1>6. fragment[1] = k.refs[i] /\ fragment[2] = mem[k.refs[i]]
  BY <1>5
<1>7. PICK places : places = [k.work EXCEPT ![i] = fragment]
  OBVIOUS
<1>8. places \in Seq(Fragments) /\ DOMAIN places = DOMAIN k.work /\ \A j \in DOMAIN k.work : places[j] = IF j = i THEN fragment ELSE k.work[j]
  <2>1. k.work \in Seq(Fragments)
    BY DEF RenderState
  <2> QED BY <1>3, <1>7, <2>1
<1>9. PICK q : /\ Prompts!Composer(c, q)
               /\ q = [k EXCEPT !.work = places] \/ q = [k EXCEPT !.work = places, !.failed = TRUE]
  BY <1>1, <1>5, <1>7 DEF Prompts!Fetch, Prompts!Place
<1>10. q \in RenderState /\ q.pc = "fetch" /\ q.refs = k.refs /\ q.from = k.from /\ q.work = places
  BY <1>3, <1>8, <1>9 DEF RenderState
<1>11. RenderIs(q)
  <2>1. fragment[2] \in k.from[i] .. mem[k.refs[i]]
    BY <1>1, <1>3, <1>4, <1>6 DEF RenderIs
  <2>2. \A j \in DOMAIN k.refs :
           /\ k.from[j] <= mem[k.refs[j]]
           /\ places[j] # <<>> => places[j][1] = k.refs[j] /\ places[j][2] \in k.from[j] .. mem[k.refs[j]]
    BY <1>1, <1>3, <1>6, <1>8, <2>1 DEF RenderIs
  <2> QED BY <1>3, <1>8, <1>10, <2>2 DEF RenderIs
<1> QED BY <1>9, <1>10, <1>11, RenderBecomes

LEMMA EndsStep ==
    ASSUME RendersInv, NEW c \in Composers, Prompts!Join(c) \/ Prompts!EndRender(c)
    PROVE  renders' \in [Composers -> RenderState] /\ \A d \in Composers : RenderIs(renders[d])'
<1>1. PICK k \in RenderState : k = renders[c] /\ RenderIs(k)
  BY DEF RendersInv
<1>2. CASE Prompts!Composer(c, Prompts!NoRender)
  <2>1. RenderIs(Prompts!NoRender)
    BY NoRenderIs DEF RenderIs
  <2> QED BY <1>2, <2>1, NoRenderIs, RenderBecomes
<1>3. CASE /\ k.pc = "fetch" /\ Prompts!Missing(k) = {}
           /\ Prompts!Composer(c, [k EXCEPT !.pc = "rendered"])
  <2>1. PICK q : q = [k EXCEPT !.pc = "rendered"]
    OBVIOUS
  <2>2. q \in RenderState /\ q.pc = "rendered" /\ q.refs = k.refs /\ q.from = k.from /\ q.work = k.work
    BY <2>1 DEF RenderState
  <2>3. \A i \in DOMAIN k.work : k.work[i] # <<>>
    BY <1>3 DEF Prompts!Missing
  <2>4. RenderIs(q)
    BY <1>1, <1>3, <2>2, <2>3 DEF RenderIs
  <2> QED BY <1>3, <2>1, <2>2, <2>4, RenderBecomes
<1> QED BY <1>1, <1>2, <1>3 DEF Prompts!Join, Prompts!EndRender

\* The inductive invariant with the renders.
THEOREM RendersInvariance == Prompts!Spec => []RendersInv
<1>1. Prompts!Init => RendersInv
  <2> SUFFICES ASSUME Prompts!Init PROVE RendersInv
    OBVIOUS
  <2>1. PromptsInv
    BY PromptsInitially
  <2>2. NoneNewer
    <3>1. /\ mem = [s \in Slugs |-> 0] /\ edits = 1 /\ loader.pc = "watch"
          /\ \A s \in Slugs : disk[s].n \in {0, 1}
      <4>1. \A s \in Slugs : disk[s] = Prompts!NoFile \/ disk[s] = [n |-> 1, whole |-> TRUE]
        BY DEF Prompts!Init
      <4>2. Prompts!NoFile.n = 0
        BY DEF Prompts!NoFile
      <4> QED BY <4>1, <4>2 DEF Prompts!Init
    <3> QED BY <3>1 DEF NoneNewer
  <2>3. \A d \in Composers : renders[d] = Prompts!NoRender
    BY DEF Prompts!Init
  <2>4. renders \in [Composers -> RenderState]
    BY NoRenderIs DEF Prompts!Init
  <2>5. \A d \in Composers : RenderIs(renders[d])
    BY <2>3, NoRenderIs DEF RenderIs
  <2> QED BY <2>1, <2>2, <2>4, <2>5 DEF RendersInv
<1>2. RendersInv /\ [Prompts!Next]_(Prompts!promptVars) => RendersInv'
  <2>1. ASSUME RendersInv, Prompts!Next PROVE RendersInv'
    <3>1. PromptsInv' /\ NoneNewer' /\ (\A s \in Slugs : mem[s] <= mem'[s])
      BY <2>1, PromptsStep, NewerInStore DEF RendersInv
    <3>2. CASE \E c \in Composers : Prompts!BeginRender(c) \/ Prompts!Join(c) \/ Prompts!EndRender(c)
                                    \/ \E i \in DOMAIN renders[c].work : Prompts!Fetch(c, i)
      <4>1. renders' \in [Composers -> RenderState] /\ \A d \in Composers : RenderIs(renders[d])'
        BY <2>1, <3>2, BeginRenderStep, FetchStep, EndsStep
      <4> QED BY <3>1, <4>1 DEF RendersInv
    <3>3. CASE UNCHANGED renders
      <4>1. mem \in [Slugs -> Nat] /\ mem' \in [Slugs -> Nat]
        BY <2>1, <3>1, Types DEF RendersInv, PromptsInv, Prompts!TypeOK
      <4>2. ASSUME NEW d \in Composers PROVE RenderIs(renders[d])'
        <5>1. PICK k \in RenderState : k = renders[d] /\ RenderIs(k)
          BY <2>1 DEF RendersInv
        <5>2. RenderIs(k)'
          BY <3>1, <4>1, <5>1, RenderStays
        <5> QED BY <3>3, <5>1, <5>2 DEF RenderIs
      <4>3. renders' \in [Composers -> RenderState]
        BY <2>1, <3>3 DEF RendersInv
      <4> QED BY <3>1, <4>2, <4>3 DEF RendersInv
    <3>4. UNCHANGED renders \/ \E c \in Composers : Prompts!BeginRender(c) \/ Prompts!Join(c) \/ Prompts!EndRender(c)
                                    \/ \E i \in DOMAIN renders[c].work : Prompts!Fetch(c, i)
      BY <2>1 DEF Prompts!Next, Prompts!BeginWrite, Prompts!EndWrite, Prompts!Replace, Prompts!RemoveFile, Prompts!Change,
                  Prompts!ScanFile, Prompts!AddWatch, Prompts!ReadDir, Prompts!EndScan, Prompts!TakeEvent,
                  Prompts!ReloadFile, Prompts!PutReloaded, Prompts!Notify, Prompts!Loader,
                  Prompts!ReceiveUpdate, Prompts!CloseWatch, Prompts!Watch, Prompts!Subscriber
    <3> QED BY <3>2, <3>3, <3>4
  <2>2. ASSUME RendersInv, UNCHANGED Prompts!promptVars PROVE RendersInv'
    <3>1. UNCHANGED <<disk, edits, watched, events, mem, loader, watchers, renders>>
      BY <2>2 DEF Prompts!promptVars
    <3>2. PromptsInv' /\ NoneNewer'
      BY <2>2, <3>1, RendersAlone, NoneNewerStays DEF RendersInv
    <3>3. renders' \in [Composers -> RenderState] /\ \A d \in Composers : RenderIs(renders[d])'
      BY <2>2, <3>1 DEF RendersInv, RenderIs
    <3> QED BY <3>2, <3>3 DEF RendersInv
  <2> QED BY <2>1, <2>2
<1> QED BY <1>1, <1>2, PTL DEF Prompts!Spec

-----------------------------------------------------------------------------
(* The stores kept in a git repository.                                    *)

\* The one name of the workflow and the skill store.
StoreName == CHOOSE n \in Agents : TRUE

\* A tree is a function from paths; those of a store have the spec of each version under the
\* version, and a pointer to one of them or to one whose Create went amiss.
IsTree(t) == t = [f \in DOMAIN t |-> t[f]]
IsStoreTree(t) ==
    /\ IsTree(t)
    /\ \A f \in DOMAIN t \ {Git!Active} : t[f] = <<StoreName, f>>
    /\ Git!Active \in DOMAIN t => t[Git!Active] # <<>>
PointsTo(t, F) == Git!Active \in DOMAIN t => t[Git!Active][2] \in DOMAIN t \union F
OneSpec(content) == Git!Set(Git!NoTree, Git!Spec_yaml, content)

\* Two trees, or the branches and what was said of them, are the same outside F.
AgreeOutside(s, t, F) ==
    \A f \in (DOMAIN s \union DOMAIN t) \ F : f \in DOMAIN s /\ f \in DOMAIN t /\ s[f] = t[f]

\* The steps of each method of each store.
GitSteps(op) ==
    IF flavour = "agent"
    THEN CASE op = "create" -> {"truncate", "write", "add", "commit", "setref"}
           [] op = "activate" -> {"draft", "truncate", "write", "add", "commit", "setref"}
           [] op = "delete" -> {"unref", "draft_gone", "draft_kept"}
           [] op = "get" -> {"draft"}
    ELSE CASE op \in {"create", "activate"} -> {"checkout", "stat", "truncate", "write", "add", "commit"}
           [] op = "delete" -> {"checkout", "remove", "commit"}
           [] op = "get" -> {"checkout", "pointer", "spec"}

GitFields == {"pc", "op", "name", "ver", "tree"}
GitCall(k) ==
    /\ DOMAIN k = GitFields
    /\ k.pc # "idle" =>
        /\ k.op \in {"create", "activate", "delete", "get"} /\ k.pc \in GitSteps(k.op)
        /\ k.name \in IF flavour = "agent" THEN Agents ELSE {StoreName}
        /\ k.op # "get" => k.ver \in Versions

GitCalls ==
    /\ flavour \in {"workflow", "skill", "agent"}
    /\ DOMAIN work = Workers /\ \A w \in Workers : GitCall(work[w])

\* Calls that take the lock hold it, one at a time.
MutexHeld ==
    /\ \A w \in Workers : w \in mutex <=> work[w].pc # "idle" /\ Git!Locks(work[w].op)
    /\ \A u, v \in mutex : u = v

GitWritersTakeTurns == \A u, v \in Workers : Git!Writing(u) /\ Git!Writing(v) => u = v

\* The workflow and the skill store.  What is in the repository while a writer is at k: what it has
\* found, and how far the working tree and the index have come from the last commit.
HalfDone == {"write", "add", "commit"}
CheckedOutAt(k) == k.pc \in {"truncate", "write", "add", "remove", "commit"} \/ (k.pc = "stat" /\ flavour = "workflow")

\* What the branch will hold when k has committed.
After(k) ==
    IF k.op = "delete"
    THEN IF flavour = "workflow" THEN Git!NoTree ELSE Git!Without(Git!TreeOf(Git!Store), {Git!Active})
    ELSE Git!Set(Git!TreeOf(Git!Store), Git!Path(k), Git!Content(k))

StoreAt(w) ==
    LET k == work[w]
        tree == Git!TreeOf(Git!Store)
    IN /\ CheckedOutAt(k) => /\ head = Git!Store /\ Git!Store \in DOMAIN refs
                             /\ index = IF k.pc = "commit" THEN After(k) ELSE tree
       /\ k.pc = "remove" => DOMAIN tree \subseteq DOMAIN files
       /\ k.pc = "commit" /\ k.op = "delete" /\ flavour = "workflow" => DOMAIN files \intersect DOMAIN tree = {}
       /\ k.pc = "write" => Git!Path(k) \in DOMAIN files
       /\ k.pc = "add" => Git!Path(k) \in DOMAIN files /\ files[Git!Path(k)] = Git!Content(k)
       /\ (k.op = "activate" /\ k.pc \in {"checkout", "truncate", "write", "add", "commit"}
             /\ ~(k.pc = "checkout" /\ flavour = "workflow"))
             => k.ver \in DOMAIN tree \union amiss

\* The file of a version that is being created.
UnderWay(k) == IF k.pc \in HalfDone /\ k.op = "create" THEN {k.ver} ELSE {}

\* The branch, and what was said of it.
StoreTree ==
    LET tree == Git!TreeOf(Git!Store) IN
    /\ IsStoreTree(tree) /\ PointsTo(tree, amiss)
    /\ DOMAIN refs \subseteq {Git!Master, Git!Store} /\ DOMAIN promised \subseteq {Git!Store}
    /\ AgreeOutside(tree, Git!Promised(Git!Store), amiss)

\* The files that are there are committed, the pointer, or left by a Create that went amiss.
Known == DOMAIN Git!TreeOf(Git!Store) \union amiss \union {Git!Active}

StoreInTurn ==
    /\ StoreTree
    /\ \A f \in DOMAIN files : f \in Known \/ \E w \in Workers : f \in UnderWay(work[w])
    /\ \A w \in Workers : StoreAt(w)

\* The agent store: the one file, and the branches that were made.
AgentAt(w) ==
    LET k == work[w]
    IN /\ k.pc = "write" => Git!Spec_yaml \in DOMAIN files
       /\ k.pc = "add" => Git!Spec_yaml \in DOMAIN files /\ files[Git!Spec_yaml] = Git!Content(k)
       /\ k.pc = "commit" => index = OneSpec(Git!Content(k))
       /\ k.pc = "setref" => k.tree = OneSpec(Git!Content(k))

AgentTrees ==
    /\ head = Git!Master /\ Git!Store \notin DOMAIN refs /\ Git!Store \notin DOMAIN promised
    /\ DOMAIN index \subseteq {Git!Spec_yaml}
    /\ AgreeOutside(refs, promised, amiss \union {Git!Master})
    /\ \A a \in Agents : \A b \in {Git!Draft(a), Git!Main(a)} \intersect DOMAIN refs :
           \E v \in Versions : refs[b] = OneSpec(<<a, v>>)

AgentInTurn ==
    /\ AgentTrees
    /\ \A w \in Workers : AgentAt(w)

GitInv ==
    /\ GitCalls
    /\ MutexHeld
    /\ ~disturbed => /\ GitWritersTakeTurns
                     /\ flavour # "agent" => StoreInTurn
                     /\ flavour = "agent" => AgentInTurn

-----------------------------------------------------------------------------
\* Changes of a tree.
LEMMA SetIs ==
    \A t, f, v : /\ DOMAIN Git!Set(t, f, v) = DOMAIN t \union {f}
                 /\ Git!Set(t, f, v)[f] = v
                 /\ \A g \in DOMAIN t : g # f => Git!Set(t, f, v)[g] = t[g]
                 /\ IsTree(Git!Set(t, f, v))
  BY DEF Git!Set, IsTree

LEMMA WithoutIs ==
    ASSUME NEW t, NEW F
    PROVE  /\ DOMAIN Git!Without(t, F) = DOMAIN t \ F
           /\ \A g \in DOMAIN t \ F : Git!Without(t, F)[g] = t[g]
           /\ IsTree(Git!Without(t, F))
  BY DEF Git!Without, IsTree

LEMMA WithoutAll == ASSUME NEW t PROVE Git!Without(t, DOMAIN t) = Git!NoTree
<1>1. DOMAIN t \ DOMAIN t = {}
  OBVIOUS
<1>2. Git!Without(t, DOMAIN t) = [g \in {} |-> t[g]]
  BY <1>1 DEF Git!Without
<1> QED BY <1>2 DEF Git!NoTree

\* A tree of at most the one file is replaced with it.
LEMMA SetOneSpec ==
    ASSUME NEW t, NEW c, DOMAIN t \subseteq {Git!Spec_yaml}
    PROVE  Git!Set(t, Git!Spec_yaml, c) = OneSpec(c)
<1>1. DOMAIN t \union {Git!Spec_yaml} = {Git!Spec_yaml} /\ DOMAIN Git!NoTree \union {Git!Spec_yaml} = {Git!Spec_yaml}
  BY DEF Git!NoTree
<1> QED BY <1>1 DEF Git!Set, OneSpec

LEMMA NoTreeIs == DOMAIN Git!NoTree = {} /\ IsTree(Git!NoTree) /\ IsStoreTree(Git!NoTree)
  BY DEF Git!NoTree, IsTree, IsStoreTree

\* A commit moves its branch alone.
LEMMA RefsSet ==
    ASSUME NEW b, NEW t, refs' = Git!Set(refs, b, t)
    PROVE  /\ Git!TreeOf(b)' = t /\ DOMAIN refs' = DOMAIN refs \union {b}
           /\ \A c \in DOMAIN refs : c # b => refs'[c] = refs[c]
<1>1. PICK r : r = Git!Set(refs, b, t)
  OBVIOUS
<1>2. DOMAIN r = DOMAIN refs \union {b} /\ r[b] = t /\ \A c \in DOMAIN refs : c # b => r[c] = refs[c]
  BY <1>1 DEF Git!Set
<1> QED BY <1>1, <1>2 DEF Git!TreeOf

LEMMA PromisedSet ==
    ASSUME NEW b, NEW t, promised' = Git!Set(promised, b, t)
    PROVE  /\ Git!Promised(b)' = t /\ DOMAIN promised' = DOMAIN promised \union {b}
           /\ \A c \in DOMAIN promised : c # b => promised'[c] = promised[c]
<1>1. PICK r : r = Git!Set(promised, b, t)
  OBVIOUS
<1>2. DOMAIN r = DOMAIN promised \union {b} /\ r[b] = t /\ \A c \in DOMAIN promised : c # b => r[c] = promised[c]
  BY <1>1 DEF Git!Set
<1> QED BY <1>1, <1>2 DEF Git!Promised

LEMMA BranchNames ==
    /\ Git!Store # Git!Master
    /\ \A a : /\ Git!Draft(a) # Git!Master /\ Git!Main(a) # Git!Master
              /\ Git!Draft(a) # Git!Store /\ Git!Main(a) # Git!Store
    /\ \A a, b : /\ Git!Draft(a) # Git!Main(b)
                 /\ Git!Draft(a) = Git!Draft(b) => a = b
                 /\ Git!Main(a) = Git!Main(b) => a = b
  BY DEF Git!Store, Git!Master, Git!Draft, Git!Main

-----------------------------------------------------------------------------
\* What a call becomes; the others' stay.
LEMMA GitBecomes ==
    ASSUME GitCalls, NEW w \in Workers, NEW k, Git!Becomes(w, k)
    PROVE  /\ DOMAIN work' = Workers /\ work'[w] = k
           /\ \A u \in Workers \ {w} : work'[u] = work[u]
  BY DEF GitCalls, Git!Becomes

LEMMA GitGoes ==
    ASSUME GitCalls, NEW w \in Workers, NEW pc, Git!Goes(w, pc)
    PROVE  /\ DOMAIN work' = Workers /\ DOMAIN work'[w] = GitFields /\ work'[w].pc = pc
           /\ work'[w].op = work[w].op /\ work'[w].name = work[w].name
           /\ work'[w].ver = work[w].ver /\ work'[w].tree = work[w].tree
           /\ \A u \in Workers \ {w} : work'[u] = work[u]
<1>1. PICK k : k = [work[w] EXCEPT !.pc = pc]
  OBVIOUS
<1>2. DOMAIN work[w] = GitFields
  BY DEF GitCalls, GitCall
<1>3. /\ DOMAIN k = GitFields /\ k.pc = pc /\ k.op = work[w].op /\ k.name = work[w].name
      /\ k.ver = work[w].ver /\ k.tree = work[w].tree
  BY <1>1, <1>2 DEF GitFields
<1>4. Git!Becomes(w, k)
  BY <1>1 DEF Git!Goes
<1> QED BY <1>3, <1>4, GitBecomes

LEMMA FreeIs == DOMAIN Git!Free = GitFields /\ Git!Free.pc = "idle" /\ Git!Free.op = "none"
  BY DEF Git!Free, GitFields

LEMMA GitReturns ==
    ASSUME GitCalls, NEW w \in Workers, Git!Returns(w)
    PROVE  /\ DOMAIN work' = Workers /\ work'[w] = Git!Free /\ mutex' = mutex \ {w}
           /\ \A u \in Workers \ {w} : work'[u] = work[u]
  BY DEF GitCalls, Git!Returns

LEMMA GitCallsFrame ==
    ASSUME GitCalls, NEW w \in Workers, flavour' = flavour, DOMAIN work' = Workers,
           \A u \in Workers \ {w} : work'[u] = work[u], GitCall(work'[w])
    PROVE  GitCalls'
<1>1. ASSUME NEW u \in Workers PROVE GitCall(work[u])'
  <2>1. GitCall(work'[u])
    BY DEF GitCalls
  <2> QED BY <2>1 DEF GitCall, GitSteps
<1> QED BY <1>1 DEF GitCalls

\* A step of a worker: its call begins, goes on or returns.
Begins(w) ==
    /\ work[w].pc = "idle" /\ work'[w].pc # "idle"
    /\ Git!Locks(work'[w].op) => mutex = {}
    /\ mutex' = IF Git!Locks(work'[w].op) THEN {w} ELSE mutex
    /\ (flavour = "agent" /\ Git!Writes(work'[w].op) /\ ~disturbed') => \A u \in Workers \ {w} : ~Git!Writing(u)
GoesOn(w) == work[w].pc # "idle" /\ work'[w].pc # "idle" /\ work'[w].op = work[w].op /\ mutex' = mutex
Ends(w) == work[w].pc # "idle" /\ work'[w].pc = "idle" /\ mutex' = mutex \ {w}
GitStep(w) ==
    /\ flavour' = flavour /\ (~disturbed' => ~disturbed)
    /\ DOMAIN work' = Workers /\ \A u \in Workers \ {w} : work'[u] = work[u]
    /\ GitCall(work'[w])
    /\ Begins(w) \/ GoesOn(w) \/ Ends(w)

LEMMA GitCallGoes ==
    ASSUME GitCalls, NEW w \in Workers, work[w].pc # "idle", NEW pc \in GitSteps(work[w].op), pc # "idle",
           Git!Goes(w, pc), mutex' = mutex, flavour' = flavour, disturbed' = disturbed
    PROVE  GitStep(w)
<1>1. /\ DOMAIN work' = Workers /\ DOMAIN work'[w] = GitFields /\ work'[w].pc = pc
      /\ work'[w].op = work[w].op /\ work'[w].name = work[w].name /\ work'[w].ver = work[w].ver
      /\ \A u \in Workers \ {w} : work'[u] = work[u]
  BY GitGoes
<1>2. GitCall(work[w])
  BY DEF GitCalls
<1>3. GitCall(work'[w])
  BY <1>1, <1>2 DEF GitCall
<1> QED BY <1>1, <1>3 DEF GitStep, GoesOn

LEMMA GitCallReturns ==
    ASSUME GitCalls, NEW w \in Workers, work[w].pc # "idle", Git!Returns(w), flavour' = flavour,
           ~disturbed' => ~disturbed
    PROVE  GitStep(w)
<1>1. GitCall(Git!Free)
  BY FreeIs DEF GitCall
<1> QED BY <1>1, FreeIs, GitReturns DEF GitStep, Ends

\* Where calls begin and what the steps are, by store.
LEMMA GitStepsAre ==
    /\ flavour = "agent" =>
         /\ GitSteps("create") = {"truncate", "write", "add", "commit", "setref"}
         /\ GitSteps("activate") = {"draft", "truncate", "write", "add", "commit", "setref"}
         /\ GitSteps("delete") = {"unref", "draft_gone", "draft_kept"}
         /\ GitSteps("get") = {"draft"}
    /\ flavour # "agent" =>
         /\ GitSteps("create") = {"checkout", "stat", "truncate", "write", "add", "commit"}
         /\ GitSteps("activate") = {"checkout", "stat", "truncate", "write", "add", "commit"}
         /\ GitSteps("delete") = {"checkout", "remove", "commit"}
         /\ GitSteps("get") = {"checkout", "pointer", "spec"}
  BY DEF GitSteps

LEMMA FirstSteps ==
    ASSUME flavour \in {"workflow", "skill", "agent"}, NEW op \in {"create", "activate", "delete", "get"}
    PROVE  /\ Git!FirstStep(op) \in GitSteps(op)
           /\ Git!FirstStep(op) \in {"checkout", "pointer", "stat", "truncate", "unref", "draft"}
           /\ flavour = "skill" => Git!FirstStep(op) # "truncate"
           /\ flavour = "workflow" => Git!FirstStep(op) = "checkout"
  BY DEF Git!FirstStep, GitSteps

LEMMA CallBegins ==
    ASSUME GitCalls, NEW w \in Workers, Git!Call(w)
    PROVE  GitStep(w) /\ Begins(w) /\ work'[w].pc = Git!FirstStep(work'[w].op)
<1>1. PICK op \in {"create", "activate", "delete", "get"}, v \in Versions,
           a \in IF flavour = "agent" THEN Agents ELSE {StoreName} :
         /\ Git!Locks(op) => mutex = {}
         /\ mutex' = IF Git!Locks(op) THEN {w} ELSE mutex
         /\ Git!Becomes(w, [Git!Free EXCEPT !.pc = Git!FirstStep(op), !.op = op, !.name = a, !.ver = v])
         /\ disturbed' = (disturbed \/ (flavour = "agent" /\ Git!Writes(op) /\ \E u \in Workers \ {w} : Git!Writing(u)))
  BY DEF Git!Call, StoreName
<1>2. PICK k : k = [Git!Free EXCEPT !.pc = Git!FirstStep(op), !.op = op, !.name = a, !.ver = v]
  OBVIOUS
<1>3. DOMAIN k = GitFields /\ k.pc = Git!FirstStep(op) /\ k.op = op /\ k.name = a /\ k.ver = v
  BY <1>2, FreeIs DEF GitFields
<1>4. DOMAIN work' = Workers /\ work'[w] = k /\ \A u \in Workers \ {w} : work'[u] = work[u]
  BY <1>1, <1>2, GitBecomes
<1>5. flavour \in {"workflow", "skill", "agent"}
  BY DEF GitCalls
<1>6. k.pc \in GitSteps(k.op) /\ k.pc # "idle"
  BY <1>3, <1>5, FirstSteps
<1>7. GitCall(k)
  BY <1>3, <1>6 DEF GitCall
<1>8. work[w].pc = "idle" /\ flavour' = flavour
  BY DEF Git!Call
<1>9. Begins(w)
  BY <1>1, <1>3, <1>4, <1>6, <1>8 DEF Begins
<1> QED BY <1>1, <1>3, <1>4, <1>6, <1>7, <1>8, <1>9 DEF GitStep

\* Every action is one of those steps.
LEMMA GitActionsAreSteps ==
    ASSUME GitCalls, NEW w \in Workers,
           \/ Git!Checkout(w) \/ Git!Stat(w) \/ Git!Truncate(w) \/ Git!Write(w) \/ Git!Add(w)
           \/ Git!Remove(w) \/ Git!Commit(w) \/ Git!ReadDraft(w) \/ Git!SetReference(w)
           \/ Git!RemoveDraft(w) \/ Git!RemoveMain(w) \/ Git!ReadPointer(w) \/ Git!ReadSpec(w)
    PROVE  GitStep(w)
<1>. DEFINE k == work[w]
<1>. DEFINE Others == \/ Git!Stat(w) \/ Git!Truncate(w) \/ Git!Write(w) \/ Git!Add(w) \/ Git!Remove(w)
                     \/ Git!Commit(w) \/ Git!ReadDraft(w) \/ Git!SetReference(w) \/ Git!RemoveDraft(w) \/ Git!RemoveMain(w)
                     \/ Git!ReadPointer(w) \/ Git!ReadSpec(w)
<1>0. /\ flavour \in {"workflow", "skill", "agent"} /\ GitCall(k)
      /\ flavour' = flavour /\ k.pc # "idle" /\ (~disturbed' => ~disturbed)
  <2>1. flavour \in {"workflow", "skill", "agent"} /\ GitCall(k)
    BY DEF GitCalls
  <2>2. Git!Checkout(w) => flavour' = flavour /\ k.pc # "idle" /\ (~disturbed' => ~disturbed)
    BY DEF Git!Checkout
  <2>3. Others => flavour' = flavour
    BY DEF Git!Stat, Git!Truncate, Git!Write, Git!Add, Git!Remove, Git!Commit, Git!ReadDraft, Git!SetReference,
           Git!RemoveDraft, Git!RemoveMain, Git!ReadPointer, Git!ReadSpec
  <2>4. Others => k.pc # "idle"
    BY DEF Git!Stat, Git!Truncate, Git!Write, Git!Add, Git!Remove, Git!Commit, Git!ReadDraft, Git!SetReference,
           Git!RemoveDraft, Git!RemoveMain, Git!ReadPointer, Git!ReadSpec
  <2>5. Others => disturbed' = disturbed
    BY DEF Git!Stat, Git!Truncate, Git!Write, Git!Add, Git!Remove, Git!Commit, Git!ReadDraft, Git!SetReference,
           Git!RemoveDraft, Git!RemoveMain, Git!ReadPointer, Git!ReadSpec
  <2> QED BY <2>1, <2>2, <2>3, <2>4, <2>5
<1>1. k.op \in {"create", "activate", "delete", "get"} /\ k.pc \in GitSteps(k.op)
  BY <1>0 DEF GitCall
<1>z. ASSUME Git!Returns(w) PROVE GitStep(w)
  BY <1>z, <1>0, GitCallReturns
<1>a. CASE Git!Checkout(w) /\ ~Git!Returns(w)
  <2>1. k.pc = "checkout" /\ Git!Goes(w, Git!AfterCheckout(k)) /\ mutex' = mutex
    BY <1>a DEF Git!Checkout, Git!Fails
  <2>2. flavour # "agent"
    BY <2>1, <1>0, <1>1, GitStepsAre
  <2>3. Git!AfterCheckout(k) \in GitSteps(k.op) /\ Git!AfterCheckout(k) # "idle"
    BY <2>1, <2>2, <1>0, <1>1, GitStepsAre DEF Git!AfterCheckout
  <2>4. DOMAIN work' = Workers /\ DOMAIN work'[w] = GitFields /\ work'[w].pc = Git!AfterCheckout(k)
        /\ work'[w].op = k.op /\ work'[w].name = k.name /\ work'[w].ver = k.ver
        /\ \A u \in Workers \ {w} : work'[u] = work[u]
    BY <2>1, GitGoes
  <2>5. GitCall(work'[w])
    BY <2>3, <2>4, <1>0 DEF GitCall
  <2> QED BY <2>1, <2>3, <2>4, <2>5, <1>0 DEF GitStep, GoesOn
<1>b. CASE Git!Stat(w) /\ ~Git!Returns(w)
  <2>1. Git!Goes(w, IF flavour = "workflow" THEN "truncate" ELSE "checkout") /\ mutex' = mutex
        /\ k.pc = "stat" /\ disturbed' = disturbed
    BY <1>b DEF Git!Stat, Git!Succeeds, Git!Fails
  <2>2. flavour # "agent" /\ k.op \in {"create", "activate"}
    BY <2>1, <1>0, <1>1, GitStepsAre
  <2>3. "truncate" \in GitSteps(k.op) /\ "checkout" \in GitSteps(k.op)
    BY <2>2, GitStepsAre
  <2>4. CASE flavour = "workflow"
    BY <2>1, <2>3, <2>4, <1>0, GitCallGoes
  <2>5. CASE flavour # "workflow"
    BY <2>1, <2>3, <2>5, <1>0, GitCallGoes
  <2> QED BY <2>4, <2>5
<1>c. CASE Git!Truncate(w) /\ ~Git!Returns(w)
  <2>1. Git!Goes(w, "write") /\ mutex' = mutex /\ k.pc = "truncate" /\ disturbed' = disturbed
    BY <1>c DEF Git!Truncate, Git!Fails
  <2>2. "write" \in GitSteps(k.op)
    BY <2>1, <1>0, <1>1, GitStepsAre
  <2> QED BY <2>1, <2>2, <1>0, GitCallGoes
<1>d. CASE Git!Write(w) /\ ~Git!Returns(w)
  <2>1. Git!Goes(w, "add") /\ mutex' = mutex /\ k.pc = "write" /\ disturbed' = disturbed
    BY <1>d DEF Git!Write, Git!Fails
  <2>2. "add" \in GitSteps(k.op)
    BY <2>1, <1>0, <1>1, GitStepsAre
  <2> QED BY <2>1, <2>2, <1>0, GitCallGoes
<1>e. CASE Git!Add(w) /\ ~Git!Returns(w)
  <2>1. Git!Goes(w, "commit") /\ mutex' = mutex /\ k.pc = "add" /\ disturbed' = disturbed
    BY <1>e DEF Git!Add, Git!Fails
  <2>2. "commit" \in GitSteps(k.op)
    BY <2>1, <1>0, <1>1, GitStepsAre
  <2> QED BY <2>1, <2>2, <1>0, GitCallGoes
<1>f. CASE Git!Remove(w) /\ ~Git!Returns(w)
  <2>1. Git!Goes(w, "commit") /\ mutex' = mutex /\ k.pc = "remove" /\ disturbed' = disturbed
    BY <1>f DEF Git!Remove, Git!Fails
  <2>2. "commit" \in GitSteps(k.op)
    BY <2>1, <1>0, <1>1, GitStepsAre
  <2> QED BY <2>1, <2>2, <1>0, GitCallGoes
<1>g. CASE Git!Commit(w) /\ ~Git!Returns(w)
  <2>1. flavour = "agent" /\ Git!Becomes(w, [k EXCEPT !.pc = "setref", !.tree = index]) /\ mutex' = mutex
        /\ k.pc = "commit"
    BY <1>g DEF Git!Commit, Git!Succeeds, Git!Fails
  <2>2. k.op \in {"create", "activate"} /\ "setref" \in GitSteps(k.op)
    BY <2>1, <1>1, GitStepsAre
  <2>3. PICK j : j = [k EXCEPT !.pc = "setref", !.tree = index]
    OBVIOUS
  <2>4. DOMAIN k = GitFields
    BY <1>0 DEF GitCall
  <2>5. DOMAIN j = GitFields /\ j.pc = "setref" /\ j.op = k.op /\ j.name = k.name /\ j.ver = k.ver
    BY <2>3, <2>4 DEF GitFields
  <2>6. GitCall(j)
    BY <2>2, <2>5, <1>0 DEF GitCall
  <2>7. DOMAIN work' = Workers /\ work'[w] = j /\ \A u \in Workers \ {w} : work'[u] = work[u]
    BY <2>1, <2>3, GitBecomes
  <2> QED BY <2>1, <2>5, <2>6, <2>7, <1>0 DEF GitStep, GoesOn
<1>h. CASE Git!ReadDraft(w) /\ ~Git!Returns(w)
  <2>1. k.op = "activate" /\ Git!Goes(w, "truncate") /\ mutex' = mutex /\ disturbed' = disturbed
    BY <1>h DEF Git!ReadDraft, Git!Fails
  <2>2. "truncate" \in GitSteps(k.op)
    BY <2>1, <1>0, GitStepsAre
  <2> QED BY <2>1, <2>2, <1>0, GitCallGoes
<1>i. Git!SetReference(w) => Git!Returns(w)
  BY DEF Git!SetReference, Git!Succeeds, Git!Fails
<1>j. CASE Git!RemoveDraft(w)
  <2>1. PICK pc \in {"draft_gone", "draft_kept"} : Git!Goes(w, pc) /\ mutex' = mutex
    BY <1>j DEF Git!RemoveDraft
  <2>2. k.pc = "unref" /\ disturbed' = disturbed
    BY <1>j DEF Git!RemoveDraft
  <2>3. pc \in GitSteps(k.op) /\ pc # "idle"
    BY <2>1, <2>2, <1>0, <1>1, GitStepsAre
  <2> QED BY <2>1, <2>2, <2>3, <1>0, GitCallGoes
<1>k. Git!RemoveMain(w) => Git!Returns(w)
  BY DEF Git!RemoveMain, Git!Fails
<1>l. CASE Git!ReadPointer(w) /\ ~Git!Returns(w)
  <2>1. Git!Becomes(w, [k EXCEPT !.pc = "spec", !.ver = files[Git!Active][2]]) /\ mutex' = mutex
        /\ k.pc = "pointer"
    BY <1>l DEF Git!ReadPointer, Git!Fails
  <2>2. k.op = "get" /\ flavour # "agent"
    BY <2>1, <1>0, <1>1, GitStepsAre
  <2>3. PICK j : j = [k EXCEPT !.pc = "spec", !.ver = files[Git!Active][2]]
    OBVIOUS
  <2>4. DOMAIN k = GitFields
    BY <1>0 DEF GitCall
  <2>5. DOMAIN j = GitFields /\ j.pc = "spec" /\ j.op = k.op /\ j.name = k.name
    BY <2>3, <2>4 DEF GitFields
  <2>6. GitCall(j)
    BY <2>2, <2>5, <1>0, GitStepsAre DEF GitCall
  <2>7. DOMAIN work' = Workers /\ work'[w] = j /\ \A u \in Workers \ {w} : work'[u] = work[u]
    BY <2>1, <2>3, GitBecomes
  <2> QED BY <2>1, <2>5, <2>6, <2>7, <1>0 DEF GitStep, GoesOn
<1>m. Git!ReadSpec(w) => Git!Returns(w)
  BY DEF Git!ReadSpec
<1> QED BY <1>z, <1>a, <1>b, <1>c, <1>d, <1>e, <1>f, <1>g, <1>h, <1>i, <1>j, <1>k, <1>l, <1>m

LEMMA GitStepCalls == ASSUME GitCalls, NEW w \in Workers, GitStep(w) PROVE GitCalls'
  BY GitCallsFrame DEF GitStep

LEMMA GitStepMutex ==
    ASSUME GitCalls, MutexHeld, NEW w \in Workers, GitStep(w)
    PROVE  MutexHeld'
<1>0. flavour' = flavour /\ \A u \in Workers \ {w} : work'[u] = work[u]
  BY DEF GitStep
<1>1. ASSUME NEW u \in Workers
      PROVE  Git!Locks(work[u].op)' <=> Git!Locks(work'[u].op)
  BY <1>0 DEF Git!Locks, Git!Writes
<1>2. ASSUME NEW u \in Workers
      PROVE  u \in mutex' <=> work'[u].pc # "idle" /\ Git!Locks(work'[u].op)
  <2>1. CASE Begins(w)
    BY <2>1, <1>0 DEF Begins, MutexHeld
  <2>2. CASE GoesOn(w)
    BY <2>2, <1>0 DEF GoesOn, MutexHeld
  <2>3. CASE Ends(w)
    BY <2>3, <1>0 DEF Ends, MutexHeld
  <2> QED BY <2>1, <2>2, <2>3 DEF GitStep
<1>3. \A u, v \in mutex' : u = v
  BY DEF GitStep, Begins, GoesOn, Ends, MutexHeld
<1> QED BY <1>1, <1>2, <1>3 DEF MutexHeld

\* Writers take turns: those of the two stores with a lock because they hold it, those of the agent
\* store as long as nothing was disturbed.
LEMMA GitStepTurns ==
    ASSUME GitCalls, MutexHeld, NEW w \in Workers, GitStep(w), ~disturbed', GitWritersTakeTurns
    PROVE  GitWritersTakeTurns'
<1>0. flavour' = flavour /\ GitCalls' /\ MutexHeld' /\ flavour \in {"workflow", "skill", "agent"}
  BY GitStepCalls, GitStepMutex DEF GitStep, GitCalls
<1>1. CASE flavour # "agent"
  <2>1. ASSUME NEW u \in Workers, Git!Writing(u)' PROVE u \in mutex'
    BY <1>0, <1>1, <2>1 DEF MutexHeld, Git!Writing, Git!Locks
  <2> QED BY <1>0, <2>1 DEF MutexHeld, GitWritersTakeTurns
<1>2. CASE flavour = "agent"
  <2>0. \A u \in Workers \ {w} : Git!Writing(u)' <=> Git!Writing(u)
    BY DEF GitStep, Git!Writing, Git!Writes
  <2>1. CASE Begins(w)
    <3>1. Git!Writing(w)' => \A u \in Workers \ {w} : ~Git!Writing(u)
      BY <2>1, <1>2 DEF Begins, Git!Writing, Git!Writes
    <3> QED BY <3>1, <2>0 DEF GitWritersTakeTurns
  <2>2. CASE GoesOn(w)
    <3>1. Git!Writing(w)' <=> Git!Writing(w)
      BY <2>2 DEF GoesOn, Git!Writing, Git!Writes
    <3> QED BY <3>1, <2>0 DEF GitWritersTakeTurns
  <2>3. CASE Ends(w)
    <3>1. ~Git!Writing(w)'
      BY <2>3 DEF Ends, Git!Writing, Git!Writes
    <3> QED BY <3>1, <2>0 DEF GitWritersTakeTurns
  <2> QED BY <2>1, <2>2, <2>3 DEF GitStep
<1> QED BY <1>1, <1>2

-----------------------------------------------------------------------------
\* The workflow and the skill store.

\* A call that is not a writer's knows nothing of the repository, and has no file under way.
LEMMA ReadersKnowNothing ==
    ASSUME flavour # "agent", NEW w \in Workers, GitCall(work[w]), ~Git!Writing(w)
    PROVE  StoreAt(w) /\ UnderWay(work[w]) = {} /\ work[w].pc \in {"idle", "checkout", "pointer", "spec"}
<1>1. work[w].pc = "idle" \/ (work[w].op = "get" /\ work[w].pc \in {"checkout", "pointer", "spec"})
  BY GitStepsAre DEF GitCall, Git!Writing, Git!Writes
<1>2. work[w].pc \in {"idle", "checkout", "pointer", "spec"} /\ ~CheckedOutAt(work[w])
  BY <1>1 DEF CheckedOutAt
<1>3. UnderWay(work[w]) = {}
  BY <1>1 DEF UnderWay, HalfDone
<1>4. StoreAt(w)
  BY <1>1, <1>2 DEF StoreAt
<1> QED BY <1>2, <1>3, <1>4

LEMMA ReadersKnowNothingThen ==
    ASSUME flavour # "agent", flavour' = flavour, NEW w \in Workers, GitCall(work'[w]), ~Git!Writing(w)'
    PROVE  StoreAt(w)' /\ UnderWay(work'[w]) = {}
<1>1. work'[w].pc = "idle" \/ (work'[w].op = "get" /\ work'[w].pc \in {"checkout", "pointer", "spec"})
  BY GitStepsAre DEF GitCall, Git!Writing, Git!Writes
<1>2. UnderWay(work'[w]) = {}
  BY <1>1 DEF UnderWay, HalfDone
<1>3. work'[w].pc \notin {"stat", "truncate", "write", "add", "remove", "commit"}
  BY <1>1
<1>4. ~CheckedOutAt(work[w])'
  BY <1>3 DEF CheckedOutAt
<1>5. ~(work'[w].op = "activate" /\ work'[w].pc \in {"checkout", "truncate", "write", "add", "commit"})
  BY <1>1
<1>6. work'[w].pc # "remove" /\ work'[w].pc # "commit" /\ work'[w].pc # "write" /\ work'[w].pc # "add"
  BY <1>3
<1>7. StoreAt(w)'
  BY <1>4, <1>5, <1>6, Zenon DEF StoreAt
<1> QED BY <1>2, <1>7

\* The files there are while w is the only writer.
FilesAreKnown(w) == DOMAIN files \subseteq Known \union UnderWay(work[w])

\* A step of a worker while no other one is writing.
LEMMA StoreWriterFrame ==
    ASSUME GitCalls, GitCalls', flavour # "agent", flavour' = flavour, NEW w \in Workers,
           \A u \in Workers \ {w} : work'[u] = work[u],
           \A u \in Workers \ {w} : ~Git!Writing(u),
           StoreTree', StoreAt(w)', FilesAreKnown(w)'
    PROVE  StoreInTurn'
<1>1. ASSUME NEW u \in Workers PROVE StoreAt(u)'
  <2>1. CASE u = w
    BY <2>1
  <2>2. CASE u # w
    <3>1. ~Git!Writing(u)'
      BY <2>2 DEF Git!Writing, Git!Writes
    <3>2. GitCall(work'[u])
      BY <2>2 DEF GitCalls
    <3> QED BY <3>1, <3>2, ReadersKnowNothingThen
  <2> QED BY <2>1, <2>2
<1>2. \A f \in DOMAIN files' : f \in Known' \/ f \in UnderWay(work'[w])
  BY DEF FilesAreKnown
<1> QED BY <1>1, <1>2 DEF StoreInTurn

\* A step that leaves the repository alone, of a call that knows nothing yet.
LEMMA StoreReaderFrame ==
    ASSUME GitCalls, flavour # "agent", NEW w \in Workers, StoreInTurn,
           UNCHANGED <<flavour, refs, head, index, files, promised, amiss>>,
           \A u \in Workers \ {w} : work'[u] = work[u],
           StoreAt(w)', UnderWay(work[w]) = {}
    PROVE  StoreInTurn'
<1>0. /\ flavour' = flavour /\ refs' = refs /\ head' = head /\ index' = index /\ files' = files
      /\ promised' = promised /\ amiss' = amiss
  OBVIOUS
<1>1. Git!TreeOf(Git!Store)' = Git!TreeOf(Git!Store) /\ Git!Promised(Git!Store)' = Git!Promised(Git!Store)
  BY <1>0 DEF Git!TreeOf, Git!Promised
<1>2. ASSUME NEW u \in Workers PROVE StoreAt(u)'
  <2>1. CASE u = w
    BY <2>1
  <2>2. CASE u # w
    <3>1. StoreAt(u) /\ work'[u] = work[u]
      BY <2>2 DEF StoreInTurn
    <3>2. After(work[u])' = After(work[u])
      BY <1>0, <1>1, <3>1 DEF After, Git!Path, Git!Content
    <3> QED BY <1>0, <1>1, <3>1, <3>2 DEF StoreAt, CheckedOutAt, Git!Path, Git!Content
  <2> QED BY <2>1, <2>2
<1>3. StoreTree'
  BY <1>0, <1>1 DEF StoreInTurn, StoreTree
<1>4. ASSUME NEW f \in DOMAIN files', ~(f \in Known')
      PROVE  \E u \in Workers : f \in UnderWay(work'[u])
  <2>1. f \in DOMAIN files /\ ~(f \in Known)
    BY <1>0, <1>1, <1>4 DEF Known
  <2>2. PICK u \in Workers : f \in UnderWay(work[u])
    BY <2>1 DEF StoreInTurn
  <2> QED BY <2>2
<1> QED BY <1>2, <1>3, <1>4 DEF StoreInTurn

LEMMA StoreFiles ==
    ASSUME GitCalls, flavour # "agent", StoreInTurn, NEW w \in Workers,
           \A u \in Workers \ {w} : ~Git!Writing(u)
    PROVE  FilesAreKnown(w)
<1>1. ASSUME NEW f \in DOMAIN files, NEW u \in Workers, f \in UnderWay(work[u]) PROVE u = w
  BY <1>1, ReadersKnowNothing DEF GitCalls
<1> QED BY <1>1 DEF FilesAreKnown, StoreInTurn

\* What a call writes, and where, is settled when it begins; what the branch will hold then, while
\* nobody else writes.
LEMMA PathIsSettled ==
    ASSUME flavour' = flavour, NEW w \in Workers, work'[w].op = work[w].op, work'[w].name = work[w].name,
           work'[w].ver = work[w].ver
    PROVE  Git!Path(work[w])' = Git!Path(work[w]) /\ Git!Content(work[w])' = Git!Content(work[w])
  BY DEF Git!Path, Git!Content

LEMMA AfterIsSettled ==
    ASSUME flavour' = flavour, Git!TreeOf(Git!Store)' = Git!TreeOf(Git!Store), NEW w \in Workers,
           work'[w].op = work[w].op, work'[w].name = work[w].name, work'[w].ver = work[w].ver
    PROVE  After(work[w])' = After(work[w])
<1>1. Git!Path(work[w])' = Git!Path(work[w]) /\ Git!Content(work[w])' = Git!Content(work[w])
  BY PathIsSettled
<1> QED BY <1>1 DEF After

\* A call of a writer of the two stores.
LEMMA StoreCallIs ==
    ASSUME GitCalls, flavour # "agent", NEW w \in Workers, work[w].pc \in {"stat", "truncate", "write", "add", "remove", "commit"}
    PROVE  /\ work[w].op \in {"create", "activate", "delete"} /\ work[w].name = StoreName /\ work[w].ver \in Versions
           /\ work[w].pc # "remove" /\ work[w].pc # "commit" => work[w].op \in {"create", "activate"}
           /\ work[w].pc = "remove" => work[w].op = "delete"
           /\ work[w].ver # Git!Active
           /\ work[w].op = "create" => Git!Path(work[w]) = work[w].ver
           /\ work[w].op # "create" => Git!Path(work[w]) = Git!Active
           /\ Git!Leftover(work[w]) = IF work[w].op = "create" THEN {work[w].ver} ELSE {}
<1>1. GitCall(work[w])
  BY DEF GitCalls
<1>2. /\ work[w].op \in {"create", "activate", "delete"}
      /\ work[w].pc # "remove" /\ work[w].pc # "commit" => work[w].op \in {"create", "activate"}
      /\ work[w].pc = "remove" => work[w].op = "delete"
  BY <1>1, GitStepsAre DEF GitCall
<1>3. work[w].name = StoreName /\ work[w].ver \in Versions
  BY <1>1, <1>2 DEF GitCall
<1> QED BY <1>2, <1>3, ActiveIsNoVersion DEF Git!Path, Git!Leftover

\* A call that fails leaves the branch, and what was said of it, and more amiss than before.
LEMMA StoreTreeAmiss ==
    ASSUME UNCHANGED promised, Git!TreeOf(Git!Store)' = Git!TreeOf(Git!Store), amiss \subseteq amiss',
           DOMAIN refs' \subseteq {Git!Master, Git!Store}, StoreTree
    PROVE  StoreTree' /\ Known \subseteq Known'
<1>1. promised' = promised
  OBVIOUS
<1>2. Git!Promised(Git!Store)' = Git!Promised(Git!Store)
  BY <1>1 DEF Git!Promised
<1>3. AgreeOutside(Git!TreeOf(Git!Store), Git!Promised(Git!Store), amiss)'
  BY <1>2 DEF StoreTree, AgreeOutside
<1>4. IsStoreTree(Git!TreeOf(Git!Store))' /\ PointsTo(Git!TreeOf(Git!Store), amiss)'
  BY DEF StoreTree, IsStoreTree, IsTree, PointsTo
<1>5. Known \subseteq Known'
  BY DEF Known
<1> QED BY <1>1, <1>3, <1>4, <1>5 DEF StoreTree

\* A writer whose call fails, having named what it leaves.
LEMMA StoreFails ==
    ASSUME GitCalls, GitCalls', flavour # "agent", flavour' = flavour, NEW w \in Workers, StoreInTurn,
           \A u \in Workers \ {w} : work'[u] = work[u],
           \A u \in Workers \ {w} : ~Git!Writing(u),
           NEW F, Git!Fails(w, F), UnderWay(work[w]) \subseteq F,
           Git!TreeOf(Git!Store)' = Git!TreeOf(Git!Store), DOMAIN refs' \subseteq {Git!Master, Git!Store},
           DOMAIN files' \subseteq Known \union UnderWay(work[w])
    PROVE  StoreInTurn'
<1>1. Git!Returns(w) /\ promised' = promised /\ amiss' = amiss \union F
  BY DEF Git!Fails
<1>2. work'[w].pc = "idle"
  BY <1>1, GitReturns, FreeIs
<1>3. StoreTree' /\ Known \subseteq Known'
  BY <1>1, StoreTreeAmiss DEF StoreInTurn
<1>4. FilesAreKnown(w)'
  BY <1>1, <1>3 DEF FilesAreKnown, Known
<1>5. StoreAt(w)'
  BY <1>2 DEF StoreAt, CheckedOutAt
<1> QED BY <1>3, <1>4, <1>5, StoreWriterFrame

\* A writer whose call goes on, the branch as it was.
LEMMA StoreGoesOn ==
    ASSUME GitCalls, GitCalls', flavour # "agent", flavour' = flavour, NEW w \in Workers, StoreInTurn,
           \A u \in Workers \ {w} : work'[u] = work[u],
           \A u \in Workers \ {w} : ~Git!Writing(u),
           promised' = promised, amiss' = amiss,
           Git!TreeOf(Git!Store)' = Git!TreeOf(Git!Store), DOMAIN refs' \subseteq {Git!Master, Git!Store},
           DOMAIN files' \subseteq Known \union UnderWay(work'[w]), StoreAt(w)'
    PROVE  StoreInTurn'
<1>1. StoreTree' /\ Known \subseteq Known'
  BY StoreTreeAmiss DEF StoreInTurn
<1>2. FilesAreKnown(w)'
  BY <1>1 DEF FilesAreKnown
<1> QED BY <1>1, <1>2, StoreWriterFrame

-----------------------------------------------------------------------------
\* What a commit makes of the branch and of what was said of it.

LEMMA AfterIsStoreTree ==
    ASSUME GitCalls, flavour # "agent", NEW w \in Workers, work[w].pc = "commit", StoreTree, StoreAt(w)
    PROVE  /\ IsStoreTree(After(work[w]))
           /\ PointsTo(After(work[w]), amiss \ {Git!Path(work[w])})
           /\ PointsTo(After(work[w]), amiss)
           /\ AgreeOutside(After(work[w]), Git!Said(work[w]), amiss \ {Git!Path(work[w])})
           /\ flavour # "workflow" => AgreeOutside(After(work[w]), Git!Promised(Git!Store), amiss \union {Git!Path(work[w])})
<1>. DEFINE k == work[w]
<1>0. PICK tree : tree = Git!TreeOf(Git!Store)
  OBVIOUS
<1>1. PICK said : said = Git!Promised(Git!Store)
  OBVIOUS
<1>2. IsStoreTree(tree) /\ PointsTo(tree, amiss) /\ AgreeOutside(tree, said, amiss)
  BY <1>0, <1>1 DEF StoreTree
<1>3. /\ k.op \in {"create", "activate", "delete"} /\ k.ver # Git!Active /\ k.name = StoreName
      /\ k.op = "create" => Git!Path(k) = k.ver
      /\ k.op # "create" => Git!Path(k) = Git!Active
  BY StoreCallIs
<1>4. PICK c : c = <<StoreName, k.ver>>
  OBVIOUS
<1>5. Git!Content(k) = c /\ c # <<>> /\ c[2] = k.ver
  BY <1>3, <1>4 DEF Git!Content
<1>6. CASE k.op = "create"
  <2>1. PICK s : s = Git!Set(tree, k.ver, c)
    OBVIOUS
  <2>2. PICK t : t = Git!Set(said, k.ver, c)
    OBVIOUS
  <2>3. After(k) = s /\ Git!Said(k) = t
    BY <1>0, <1>1, <1>3, <1>5, <1>6, <2>1, <2>2 DEF After, Git!Said
  <2>4. /\ DOMAIN s = DOMAIN tree \union {k.ver} /\ s[k.ver] = c /\ IsTree(s)
        /\ \A f \in DOMAIN tree : f # k.ver => s[f] = tree[f]
    BY <2>1 DEF Git!Set, IsTree
  <2>5. /\ DOMAIN t = DOMAIN said \union {k.ver} /\ t[k.ver] = c
        /\ \A f \in DOMAIN said : f # k.ver => t[f] = said[f]
    BY <2>2 DEF Git!Set
  <2>6. IsStoreTree(s)
    BY <1>2, <1>3, <1>4, <2>4 DEF IsStoreTree
  <2>7. PointsTo(s, amiss \ {k.ver}) /\ PointsTo(s, amiss)
    BY <1>2, <1>3, <2>4 DEF PointsTo
  <2>8. AgreeOutside(s, t, amiss \ {k.ver}) /\ AgreeOutside(s, said, amiss \union {k.ver})
    BY <1>2, <2>4, <2>5 DEF AgreeOutside
  <2> QED BY <1>0, <1>1, <1>3, <1>6, <2>3, <2>6, <2>7, <2>8
<1>7. CASE k.op = "activate"
  <2>1. PICK s : s = Git!Set(tree, Git!Active, c)
    OBVIOUS
  <2>2. PICK t : t = Git!Set(said, Git!Active, c)
    OBVIOUS
  <2>3. After(k) = s /\ Git!Said(k) = t
    BY <1>0, <1>1, <1>3, <1>5, <1>7, <2>1, <2>2 DEF After, Git!Said
  <2>4. /\ DOMAIN s = DOMAIN tree \union {Git!Active} /\ s[Git!Active] = c /\ IsTree(s)
        /\ \A f \in DOMAIN tree : f # Git!Active => s[f] = tree[f]
    BY <2>1 DEF Git!Set, IsTree
  <2>5. /\ DOMAIN t = DOMAIN said \union {Git!Active} /\ t[Git!Active] = c
        /\ \A f \in DOMAIN said : f # Git!Active => t[f] = said[f]
    BY <2>2 DEF Git!Set
  <2>6. IsStoreTree(s)
    BY <1>2, <1>5, <2>4 DEF IsStoreTree
  <2>7. k.ver \in DOMAIN tree \union amiss
    BY <1>0, <1>7 DEF StoreAt
  <2>8. PointsTo(s, amiss \ {Git!Active}) /\ PointsTo(s, amiss)
    BY <1>3, <1>5, <2>4, <2>7 DEF PointsTo
  <2>9. AgreeOutside(s, t, amiss \ {Git!Active}) /\ AgreeOutside(s, said, amiss \union {Git!Active})
    BY <1>2, <2>4, <2>5 DEF AgreeOutside
  <2> QED BY <1>0, <1>1, <1>3, <1>7, <2>3, <2>6, <2>8, <2>9
<1>8. CASE k.op = "delete" /\ flavour = "workflow"
  <2>1. After(k) = Git!NoTree /\ Git!Said(k) = Git!NoTree
    BY <1>8 DEF After, Git!Said
  <2>2. IsStoreTree(After(k)) /\ DOMAIN After(k) = {} /\ DOMAIN Git!Said(k) = {}
    BY <2>1, NoTreeIs
  <2>3. PointsTo(After(k), amiss) /\ PointsTo(After(k), amiss \ {Git!Path(k)})
    BY <2>2 DEF PointsTo
  <2>4. AgreeOutside(After(k), Git!Said(k), amiss \ {Git!Path(k)})
    BY <2>2 DEF AgreeOutside
  <2> QED BY <1>8, <2>2, <2>3, <2>4
<1>9. CASE k.op = "delete" /\ flavour # "workflow"
  <2>1. PICK s : s = Git!Without(tree, {Git!Active})
    OBVIOUS
  <2>2. PICK t : t = Git!Without(said, {Git!Active})
    OBVIOUS
  <2>3. After(k) = s /\ Git!Said(k) = t
    BY <1>0, <1>1, <1>9, <2>1, <2>2 DEF After, Git!Said
  <2>4. DOMAIN s = DOMAIN tree \ {Git!Active} /\ IsTree(s) /\ \A f \in DOMAIN s : s[f] = tree[f]
    BY <2>1 DEF Git!Without, IsTree
  <2>5. DOMAIN t = DOMAIN said \ {Git!Active} /\ \A f \in DOMAIN t : t[f] = said[f]
    BY <2>2 DEF Git!Without
  <2>6. IsStoreTree(s) /\ PointsTo(s, amiss) /\ PointsTo(s, amiss \ {Git!Active})
    BY <1>2, <2>4 DEF IsStoreTree, PointsTo
  <2>7. AgreeOutside(s, t, amiss \ {Git!Active}) /\ AgreeOutside(s, said, amiss \union {Git!Active})
    BY <1>2, <2>4, <2>5 DEF AgreeOutside
  <2> QED BY <1>0, <1>1, <1>3, <1>9, <2>3, <2>6, <2>7
<1> QED BY <1>3, <1>6, <1>7, <1>8, <1>9

-----------------------------------------------------------------------------
\* One lemma per action: a step taken while no other worker is writing.

LEMMA StoreCall ==
    ASSUME GitCalls, flavour # "agent", NEW w \in Workers, StoreInTurn, Git!Call(w)
    PROVE  StoreInTurn'
<1>1. /\ GitStep(w) /\ Begins(w) /\ work'[w].pc = Git!FirstStep(work'[w].op) /\ GitCalls'
  BY CallBegins, GitStepCalls
<1>2. flavour \in {"workflow", "skill"} /\ GitCall(work'[w]) /\ work'[w].pc # "idle"
      /\ UNCHANGED <<flavour, refs, head, index, files, promised, amiss>> /\ work[w].pc = "idle"
  BY <1>1 DEF GitCalls, GitStep, Begins, Git!Call
<1>3. work'[w].pc \in {"checkout", "pointer", "stat"}
      /\ (flavour = "skill" /\ work'[w].pc = "checkout" => work'[w].op = "delete")
      /\ (flavour = "workflow" => work'[w].pc = "checkout")
  BY <1>1, <1>2 DEF GitCall, Git!FirstStep
<1>4. StoreAt(w)'
  BY <1>2, <1>3 DEF StoreAt, CheckedOutAt
<1>5. UnderWay(work[w]) = {}
  BY <1>2 DEF UnderWay, HalfDone
<1> QED BY <1>1, <1>2, <1>4, <1>5, StoreReaderFrame DEF GitStep

\* Making branches of an empty repository does not change what the store's holds.
LEMMA MadeIs ==
    ASSUME NEW B \in SUBSET {Git!Master, Git!Store}, refs' = refs \/ refs' = Git!Made(B),
           DOMAIN refs \subseteq {Git!Master, Git!Store}
    PROVE  /\ Git!TreeOf(Git!Store)' = Git!TreeOf(Git!Store) /\ DOMAIN refs' \subseteq {Git!Master, Git!Store}
           /\ refs' = Git!Made(B) => B \subseteq DOMAIN refs'
<1>1. CASE refs' = refs /\ refs' # Git!Made(B)
  BY <1>1 DEF Git!TreeOf
<1>2. CASE refs' = Git!Made(B)
  <2>1. PICK t : t = Git!TreeOf(Git!Store)
    OBVIOUS
  <2>2. PICK r : r = [b \in DOMAIN refs \union B |-> IF b \in DOMAIN refs THEN refs[b] ELSE t]
    OBVIOUS
  <2>3. refs' = r
    BY <1>2, <2>1, <2>2 DEF Git!Made
  <2>4. DOMAIN r = DOMAIN refs \union B /\ \A b \in DOMAIN r : r[b] = IF b \in DOMAIN refs THEN refs[b] ELSE t
    BY <2>2
  <2>5. (IF Git!Store \in DOMAIN r THEN r[Git!Store] ELSE Git!NoTree) = t
    BY <2>1, <2>4 DEF Git!TreeOf
  <2>6. Git!TreeOf(Git!Store)' = t
    BY <2>3, <2>5 DEF Git!TreeOf
  <2> QED BY <2>1, <2>3, <2>4, <2>6
<1> QED BY <1>1, <1>2

LEMMA CheckedOutIs ==
    ASSUME NEW R, NEW K, K \subseteq DOMAIN files, R \subseteq DOMAIN Git!TreeOf(Git!Store)
    PROVE  /\ DOMAIN Git!CheckedOut(R, K) \subseteq DOMAIN files \union DOMAIN Git!TreeOf(Git!Store)
           /\ R \subseteq DOMAIN Git!CheckedOut(R, K)
  BY DEF Git!CheckedOut

LEMMA StoreCheckout ==
    ASSUME GitCalls, flavour # "agent", NEW w \in Workers, StoreInTurn, GitStep(w),
           \A u \in Workers \ {w} : ~Git!Writing(u), Git!Checkout(w)
    PROVE  StoreInTurn'
<1>. DEFINE k == work[w]
             tree == Git!TreeOf(Git!Store)
             Both == {Git!Master, Git!Store}
<1>0. /\ k.pc = "checkout" /\ flavour' = flavour /\ flavour \in {"workflow", "skill"} /\ GitCalls'
      /\ GitCall(work[w]) /\ StoreTree /\ StoreAt(w) /\ \A u \in Workers \ {w} : work'[u] = work[u]
  BY GitStepCalls DEF Git!Checkout, GitStep, GitCalls, StoreInTurn
<1>1. DOMAIN refs \subseteq Both /\ UnderWay(k) = {} /\ DOMAIN files \subseteq Known
  <2>1. UnderWay(k) = {}
    BY <1>0 DEF UnderWay, HalfDone
  <2> QED BY <1>0, <2>1, StoreFiles DEF StoreTree, FilesAreKnown
<1>2. PICK B \in SUBSET Both : refs' = refs \/ refs' = Git!Made(B)
  BY DEF Git!Checkout
<1>3. Git!TreeOf(Git!Store)' = tree /\ DOMAIN refs' \subseteq Both
  BY <1>1, <1>2, MadeIs
<1>4. DOMAIN files' \subseteq Known
  <2>1. files' = files \/ \E R \in SUBSET DOMAIN tree, K \in SUBSET (DOMAIN files \ DOMAIN tree) :
                            files' = Git!CheckedOut(R, K)
    BY DEF Git!Checkout
  <2>2. DOMAIN tree \subseteq Known
    BY DEF Known
  <2> QED BY <1>1, <2>1, <2>2, CheckedOutIs
<1>5. CASE Git!Fails(w, {})
  BY <1>0, <1>1, <1>3, <1>4, <1>5, StoreFails
<1>6. CASE ~Git!Fails(w, {})
  <2>1. PICK K \in SUBSET (DOMAIN files \ DOMAIN tree) :
           /\ refs' = Git!Made(Both) /\ head' = Git!Store /\ index' = tree
           /\ files' = Git!CheckedOut(DOMAIN tree, K)
           /\ Git!Goes(w, Git!AfterCheckout(k)) /\ promised' = promised /\ amiss' = amiss
    BY <1>6 DEF Git!Checkout
  <2>2. Git!Store \in DOMAIN refs'
    BY <1>1, <2>1, MadeIs
  <2>3. DOMAIN tree \subseteq DOMAIN files'
    BY <2>1, CheckedOutIs
  <2>4. /\ work'[w].pc = Git!AfterCheckout(k) /\ work'[w].op = k.op /\ work'[w].ver = k.ver
    BY <2>1, GitGoes
  <2>5. work'[w].pc \in {"remove", "pointer", "stat", "truncate"}
        /\ (work'[w].pc = "truncate" => flavour = "skill")
    BY <1>0, <2>4 DEF Git!AfterCheckout
  <2>6. StoreAt(w)'
    <3>1. /\ head' = Git!Store /\ Git!Store \in DOMAIN refs' /\ index' = tree /\ amiss' = amiss
          /\ Git!TreeOf(Git!Store)' = tree
      BY <1>3, <2>1, <2>2
    <3>2. work'[w].op = "activate" /\ work'[w].pc = "truncate" => work'[w].ver \in DOMAIN tree \union amiss
      BY <1>0, <2>4, <2>5 DEF StoreAt
    <3> QED BY <1>0, <2>3, <2>5, <3>1, <3>2 DEF StoreAt, CheckedOutAt
  <2> QED BY <1>0, <1>3, <1>4, <2>1, <2>6, StoreGoesOn
<1> QED BY <1>5, <1>6

LEMMA StoreStat ==
    ASSUME GitCalls, flavour # "agent", NEW w \in Workers, StoreInTurn, GitStep(w),
           \A u \in Workers \ {w} : ~Git!Writing(u), Git!Stat(w)
    PROVE  StoreInTurn'
<1>. DEFINE k == work[w]
             tree == Git!TreeOf(Git!Store)
<1>0. /\ k.pc = "stat" /\ flavour' = flavour /\ flavour \in {"workflow", "skill"} /\ GitCalls'
      /\ StoreTree /\ StoreAt(w) /\ refs' = refs /\ head' = head /\ index' = index /\ files' = files
      /\ \A u \in Workers \ {w} : work'[u] = work[u]
  BY GitStepCalls DEF Git!Stat, GitStep, GitCalls, StoreInTurn
<1>1. k.op \in {"create", "activate"} /\ k.name = StoreName /\ k.ver \in Versions /\ k.ver # Git!Active
  BY <1>0, StoreCallIs
<1>2. UnderWay(k) = {} /\ DOMAIN files \subseteq Known /\ DOMAIN refs \subseteq {Git!Master, Git!Store}
  <2>1. UnderWay(k) = {}
    BY <1>0 DEF UnderWay, HalfDone
  <2> QED BY <1>0, <2>1, StoreFiles DEF StoreTree, FilesAreKnown
<1>3. Git!TreeOf(Git!Store)' = tree
  BY <1>0 DEF Git!TreeOf
<1>4. Git!Found(k) => k.ver \in DOMAIN tree \union amiss
  BY <1>1, <1>2 DEF Git!Found, Known
<1>5. CASE k.op = "create" /\ Git!Found(k)
  <2>1. PICK c : c = <<k.name, k.ver>>
    OBVIOUS
  <2>2. PICK said : said = Git!Promised(Git!Store)
    OBVIOUS
  <2>3. PICK t : t = Git!Set(said, k.ver, c)
    OBVIOUS
  <2>4. Git!Returns(w) /\ promised' = Git!Set(promised, Git!Store, t) /\ amiss' = amiss
    BY <1>0, <1>5, <2>1, <2>2, <2>3 DEF Git!Stat, Git!Succeeds
  <2>5. Git!Promised(Git!Store)' = t /\ DOMAIN promised' \subseteq {Git!Store}
    BY <1>0, <2>4, PromisedSet DEF StoreTree
  <2>6. /\ DOMAIN t = DOMAIN said \union {k.ver} /\ t[k.ver] = c
        /\ \A f \in DOMAIN said : f # k.ver => t[f] = said[f]
    BY <2>3 DEF Git!Set
  <2>7. k.ver \in DOMAIN tree => tree[k.ver] = c
    BY <1>0, <1>1, <2>1 DEF StoreTree, IsStoreTree
  <2>8. AgreeOutside(tree, said, amiss)
    BY <1>0, <2>2 DEF StoreTree
  <2>9. AgreeOutside(tree, t, amiss)
    BY <1>4, <1>5, <2>6, <2>7, <2>8 DEF AgreeOutside
  <2>10. StoreTree'
    BY <1>0, <1>2, <1>3, <2>4, <2>5, <2>9 DEF StoreTree, IsStoreTree, IsTree, PointsTo, AgreeOutside
  <2>11. work'[w].pc = "idle"
    BY <2>4, GitReturns, FreeIs
  <2>12. StoreAt(w)'
    BY <2>11 DEF StoreAt, CheckedOutAt
  <2>13. FilesAreKnown(w)'
    BY <1>0, <1>2, <1>3, <2>4 DEF FilesAreKnown, Known
  <2> QED BY <1>0, <2>10, <2>12, <2>13, StoreWriterFrame
<1>6. CASE k.op = "activate" /\ ~Git!Found(k)
  <2>1. Git!Fails(w, {})
    BY <1>0, <1>6 DEF Git!Stat
  <2> QED BY <1>0, <1>2, <1>3, <2>1, StoreFails
<1>7. CASE ~(k.op = "create" /\ Git!Found(k)) /\ ~(k.op = "activate" /\ ~Git!Found(k))
  <2>1. PICK pc \in {"truncate", "checkout"} : /\ Git!Goes(w, pc) /\ promised' = promised /\ amiss' = amiss
                                               /\ pc = "truncate" <=> flavour = "workflow"
    BY <1>0, <1>7 DEF Git!Stat
  <2>2. work'[w].pc = pc /\ work'[w].op = k.op /\ work'[w].ver = k.ver
    BY <2>1, GitGoes
  <2>3. k.op = "activate" => k.ver \in DOMAIN tree \union amiss
    BY <1>4, <1>7
  <2>4. pc = "truncate" => head = Git!Store /\ Git!Store \in DOMAIN refs /\ index = tree
    BY <1>0, <2>1 DEF StoreAt, CheckedOutAt
  <2>5. StoreAt(w)'
    BY <1>0, <1>3, <2>1, <2>2, <2>3, <2>4 DEF StoreAt, CheckedOutAt
  <2> QED BY <1>0, <1>2, <1>3, <2>1, <2>5, StoreGoesOn
<1> QED BY <1>1, <1>5, <1>6, <1>7

\* The steps that write and stage, in which the branch stays.
LEMMA StoreTruncate ==
    ASSUME GitCalls, flavour # "agent", NEW w \in Workers, StoreInTurn, GitStep(w),
           \A u \in Workers \ {w} : ~Git!Writing(u), Git!Truncate(w)
    PROVE  StoreInTurn'
<1>. DEFINE k == work[w]
             tree == Git!TreeOf(Git!Store)
<1>0. /\ k.pc = "truncate" /\ flavour' = flavour /\ GitCalls' /\ StoreTree /\ StoreAt(w)
      /\ refs' = refs /\ head' = head /\ index' = index /\ \A u \in Workers \ {w} : work'[u] = work[u]
  BY GitStepCalls DEF Git!Truncate, GitStep, StoreInTurn
<1>1. UnderWay(k) = {} /\ DOMAIN files \subseteq Known /\ DOMAIN refs \subseteq {Git!Master, Git!Store}
  <2>1. UnderWay(k) = {}
    BY <1>0 DEF UnderWay, HalfDone
  <2> QED BY <1>0, <2>1, StoreFiles DEF StoreTree, FilesAreKnown
<1>2. Git!TreeOf(Git!Store)' = tree
  BY <1>0 DEF Git!TreeOf
<1>3. CASE Git!Fails(w, {}) /\ files' = files
  BY <1>0, <1>1, <1>2, <1>3, StoreFails
<1>4. CASE ~(Git!Fails(w, {}) /\ files' = files)
  <2>1. files' = Git!Set(files, Git!Path(k), <<>>) /\ Git!Goes(w, "write") /\ promised' = promised /\ amiss' = amiss
    BY <1>4 DEF Git!Truncate
  <2>2. work'[w].pc = "write" /\ work'[w].op = k.op /\ work'[w].name = k.name /\ work'[w].ver = k.ver
    BY <2>1, GitGoes
  <2>3. Git!Path(k)' = Git!Path(k)
    BY <1>0, <2>2, PathIsSettled
  <2>4. DOMAIN files' = DOMAIN files \union {Git!Path(k)}
    BY <2>1, SetIs
  <2>5. Git!Path(k) \in Known \union UnderWay(work'[w])
    BY <1>0, <2>2, StoreCallIs DEF Known, UnderWay, HalfDone
  <2>6. StoreAt(w)'
    <3>1. head = Git!Store /\ Git!Store \in DOMAIN refs /\ index = tree
          /\ (k.op = "activate" => k.ver \in DOMAIN tree \union amiss)
      BY <1>0 DEF StoreAt, CheckedOutAt
    <3> QED BY <1>0, <1>2, <2>1, <2>2, <2>3, <2>4, <3>1 DEF StoreAt, CheckedOutAt
  <2> QED BY <1>0, <1>1, <1>2, <2>1, <2>4, <2>5, <2>6, StoreGoesOn
<1> QED BY <1>3, <1>4

\* What a call of which a step fails has under way is what it leaves.
LEMMA LeftoverIs ==
    ASSUME GitCalls, flavour # "agent", NEW w \in Workers, work[w].pc \in HalfDone
    PROVE  UnderWay(work[w]) = Git!Leftover(work[w])
<1>1. work[w].op \in {"create", "activate", "delete"}
  BY StoreCallIs DEF HalfDone
<1> QED BY <1>1, StoreCallIs DEF UnderWay, HalfDone

LEMMA StoreWrite ==
    ASSUME GitCalls, flavour # "agent", NEW w \in Workers, StoreInTurn, GitStep(w),
           \A u \in Workers \ {w} : ~Git!Writing(u), Git!Write(w)
    PROVE  StoreInTurn'
<1>. DEFINE k == work[w]
             tree == Git!TreeOf(Git!Store)
<1>0. /\ k.pc = "write" /\ flavour' = flavour /\ GitCalls' /\ StoreTree /\ StoreAt(w)
      /\ refs' = refs /\ head' = head /\ index' = index /\ \A u \in Workers \ {w} : work'[u] = work[u]
  BY GitStepCalls DEF Git!Write, GitStep, StoreInTurn
<1>1. DOMAIN files \subseteq Known \union UnderWay(k) /\ DOMAIN refs \subseteq {Git!Master, Git!Store}
  BY <1>0, StoreFiles DEF StoreTree, FilesAreKnown
<1>2. Git!TreeOf(Git!Store)' = tree
  BY <1>0 DEF Git!TreeOf
<1>3. CASE Git!Fails(w, Git!Leftover(k)) /\ files' = files
  <2>1. UnderWay(k) \subseteq Git!Leftover(k)
    BY <1>0, LeftoverIs DEF HalfDone
  <2> QED BY <1>0, <1>1, <1>2, <1>3, <2>1, StoreFails
<1>4. CASE ~(Git!Fails(w, Git!Leftover(k)) /\ files' = files)
  <2>1. Git!Path(k) \in DOMAIN files
    BY <1>0 DEF StoreAt
  <2>2. files' = Git!Set(files, Git!Path(k), Git!Content(k)) /\ Git!Goes(w, "add") /\ promised' = promised /\ amiss' = amiss
    BY <1>4, <2>1 DEF Git!Write
  <2>3. work'[w].pc = "add" /\ work'[w].op = k.op /\ work'[w].name = k.name /\ work'[w].ver = k.ver
    BY <2>2, GitGoes
  <2>4. Git!Path(k)' = Git!Path(k) /\ Git!Content(k)' = Git!Content(k)
    BY <1>0, <2>3, PathIsSettled
  <2>5. DOMAIN files' = DOMAIN files /\ files'[Git!Path(k)] = Git!Content(k)
    BY <2>1, <2>2 DEF Git!Set
  <2>6. UnderWay(work'[w]) = UnderWay(k)
    BY <1>0, <2>3 DEF UnderWay, HalfDone
  <2>7. StoreAt(w)'
    <3>1. head = Git!Store /\ Git!Store \in DOMAIN refs /\ index = tree
          /\ (k.op = "activate" => k.ver \in DOMAIN tree \union amiss)
      BY <1>0 DEF StoreAt, CheckedOutAt
    <3> QED BY <1>0, <1>2, <2>1, <2>2, <2>3, <2>4, <2>5, <3>1 DEF StoreAt, CheckedOutAt
  <2> QED BY <1>0, <1>1, <1>2, <2>2, <2>5, <2>6, <2>7, StoreGoesOn
<1> QED BY <1>3, <1>4

LEMMA StoreAdd ==
    ASSUME GitCalls, flavour # "agent", NEW w \in Workers, StoreInTurn, GitStep(w),
           \A u \in Workers \ {w} : ~Git!Writing(u), Git!Add(w)
    PROVE  StoreInTurn'
<1>. DEFINE k == work[w]
             tree == Git!TreeOf(Git!Store)
<1>0. /\ k.pc = "add" /\ flavour' = flavour /\ GitCalls' /\ StoreTree /\ StoreAt(w)
      /\ refs' = refs /\ head' = head /\ files' = files /\ \A u \in Workers \ {w} : work'[u] = work[u]
  BY GitStepCalls DEF Git!Add, GitStep, StoreInTurn
<1>1. DOMAIN files \subseteq Known \union UnderWay(k) /\ DOMAIN refs \subseteq {Git!Master, Git!Store}
  BY <1>0, StoreFiles DEF StoreTree, FilesAreKnown
<1>2. Git!TreeOf(Git!Store)' = tree
  BY <1>0 DEF Git!TreeOf
<1>3. CASE Git!Fails(w, Git!Leftover(k)) /\ index' = index
  <2>1. UnderWay(k) \subseteq Git!Leftover(k)
    BY <1>0, LeftoverIs DEF HalfDone
  <2> QED BY <1>0, <1>1, <1>2, <1>3, <2>1, StoreFails
<1>4. CASE ~(Git!Fails(w, Git!Leftover(k)) /\ index' = index)
  <2>1. /\ index' = Git!Set(index, Git!Path(k), files[Git!Path(k)]) /\ Git!Goes(w, "commit")
        /\ promised' = promised /\ amiss' = amiss
    BY <1>4 DEF Git!Add
  <2>2. /\ head = Git!Store /\ Git!Store \in DOMAIN refs /\ index = tree /\ files[Git!Path(k)] = Git!Content(k)
        /\ (k.op = "activate" => k.ver \in DOMAIN tree \union amiss)
    BY <1>0 DEF StoreAt, CheckedOutAt
  <2>3. work'[w].pc = "commit" /\ work'[w].op = k.op /\ work'[w].name = k.name /\ work'[w].ver = k.ver
    BY <2>1, GitGoes
  <2>4. After(k)' = After(k)
    BY <1>0, <1>2, <2>3, AfterIsSettled
  <2>5. k.op \in {"create", "activate"}
    BY <1>0, StoreCallIs
  <2>6. index' = After(k)
    BY <2>1, <2>2, <2>5 DEF After
  <2>7. UnderWay(work'[w]) = UnderWay(k)
    BY <1>0, <2>3 DEF UnderWay, HalfDone
  <2>8. StoreAt(w)'
    <3>1. head' = Git!Store /\ Git!Store \in DOMAIN refs' /\ index' = After(work[w])'
      BY <1>0, <2>2, <2>4, <2>6
    <3>2. work'[w].op # "delete"
      BY <2>3, <2>5
    <3>3. work'[w].op = "activate" => work'[w].ver \in (DOMAIN Git!TreeOf(Git!Store))' \union amiss'
      BY <1>2, <2>1, <2>2, <2>3
    <3> QED BY <2>3, <3>1, <3>2, <3>3 DEF StoreAt
  <2> QED BY <1>0, <1>1, <1>2, <2>1, <2>7, <2>8, StoreGoesOn
<1> QED BY <1>3, <1>4

LEMMA StoreRemove ==
    ASSUME GitCalls, flavour # "agent", NEW w \in Workers, StoreInTurn, GitStep(w),
           \A u \in Workers \ {w} : ~Git!Writing(u), Git!Remove(w)
    PROVE  StoreInTurn'
<1>. DEFINE k == work[w]
            tree == Git!TreeOf(Git!Store)
            there == IF flavour = "workflow" THEN DOMAIN files ELSE DOMAIN files \intersect {Git!Active}
            gone == there \intersect DOMAIN index
<1>0. /\ k.pc = "remove" /\ flavour' = flavour /\ GitCalls' /\ StoreTree /\ StoreAt(w)
      /\ refs' = refs /\ head' = head /\ \A u \in Workers \ {w} : work'[u] = work[u]
  BY GitStepCalls DEF Git!Remove, GitStep, StoreInTurn
<1>1. UnderWay(k) = {} /\ DOMAIN files \subseteq Known /\ DOMAIN refs \subseteq {Git!Master, Git!Store}
  <2>1. UnderWay(k) = {}
    BY <1>0 DEF UnderWay, HalfDone
  <2> QED BY <1>0, <2>1, StoreFiles DEF StoreTree, FilesAreKnown
<1>2. Git!TreeOf(Git!Store)' = tree
  BY <1>0 DEF Git!TreeOf
<1>3. PICK F : files' = Git!Without(files, F)
  BY DEF Git!Remove
<1>4. DOMAIN files' \subseteq DOMAIN files
  BY <1>3 DEF Git!Without
<1>5. CASE Git!Fails(w, {})
  BY <1>0, <1>1, <1>2, <1>4, <1>5, StoreFails
<1>6. CASE ~Git!Fails(w, {})
  <2>1. index' = Git!Without(index, gone) /\ Git!Goes(w, "commit") /\ promised' = promised /\ amiss' = amiss
        /\ gone # {}
    BY <1>6 DEF Git!Remove, Git!Staged
  <2>2. head = Git!Store /\ Git!Store \in DOMAIN refs /\ index = tree /\ DOMAIN tree \subseteq DOMAIN files
    BY <1>0 DEF StoreAt, CheckedOutAt
  <2>3. work'[w].pc = "commit" /\ work'[w].op = k.op /\ work'[w].name = k.name /\ work'[w].ver = k.ver
    BY <2>1, GitGoes
  <2>4. k.op = "delete"
    BY <1>0, StoreCallIs
  <2>5. index' = After(k)
    <3>1. CASE flavour = "workflow"
      <4>1. gone = DOMAIN tree
        BY <2>2, <3>1
      <4>2. index' = Git!Without(tree, DOMAIN tree)
        BY <2>1, <2>2, <4>1
      <4> QED BY <2>4, <3>1, <4>2, WithoutAll DEF After
    <3>2. CASE flavour # "workflow"
      <4>1. gone = {Git!Active}
        BY <2>1, <3>2
      <4> QED BY <2>1, <2>2, <2>4, <3>2, <4>1 DEF After
    <3> QED BY <3>1, <3>2
  <2>6. After(k)' = After(k)
    BY <1>0, <1>2, <2>3, AfterIsSettled
  <2>7. flavour = "workflow" => DOMAIN files' \intersect DOMAIN tree = {}
    <3>1. files' = Git!Without(files, gone)
      BY <1>6 DEF Git!Remove
    <3> QED BY <2>2, <3>1 DEF Git!Without
  <2>8. StoreAt(w)'
    BY <1>0, <1>2, <2>1, <2>2, <2>3, <2>4, <2>5, <2>6, <2>7 DEF StoreAt, CheckedOutAt
  <2> QED BY <1>0, <1>1, <1>2, <1>4, <2>1, <2>8, StoreGoesOn
<1> QED BY <1>5, <1>6

\* A commit that succeeds, and one whose call fails after it.
LEMMA StoreCommits ==
    ASSUME GitCalls, GitCalls', flavour # "agent", flavour' = flavour, NEW w \in Workers, StoreInTurn,
           \A u \in Workers \ {w} : work'[u] = work[u],
           \A u \in Workers \ {w} : ~Git!Writing(u),
           work[w].pc = "commit", refs' = Git!Set(refs, head, index), files' = files, Git!Returns(w),
           \/ promised' = Git!Set(promised, Git!Store, Git!Said(work[w])) /\ amiss' = amiss \ {Git!Path(work[w])}
           \/ flavour # "workflow" /\ promised' = promised /\ amiss' = amiss \union {Git!Path(work[w])}
    PROVE  StoreInTurn'
<1>. DEFINE k == work[w]
<1>0. StoreTree /\ StoreAt(w) /\ head = Git!Store /\ Git!Store \in DOMAIN refs /\ index = After(k)
  BY DEF StoreInTurn, StoreAt, CheckedOutAt
<1>1. PICK tree : tree = Git!TreeOf(Git!Store)
  OBVIOUS
<1>2. PICK s : s = After(k)
  OBVIOUS
<1>3. Git!TreeOf(Git!Store)' = s /\ DOMAIN refs' \subseteq {Git!Master, Git!Store}
  BY <1>0, <1>2, RefsSet DEF StoreTree
<1>4. IsStoreTree(s) /\ PointsTo(s, amiss')
  BY <1>0, <1>2, AfterIsStoreTree DEF PointsTo
<1>5. AgreeOutside(s, Git!Promised(Git!Store)', amiss') /\ DOMAIN promised' \subseteq {Git!Store}
  <2>1. CASE promised' = Git!Set(promised, Git!Store, Git!Said(k)) /\ amiss' = amiss \ {Git!Path(k)}
    <3>1. Git!Promised(Git!Store)' = Git!Said(k) /\ DOMAIN promised' \subseteq {Git!Store}
      BY <1>0, <2>1, PromisedSet DEF StoreTree
    <3> QED BY <1>0, <1>2, <2>1, <3>1, AfterIsStoreTree
  <2>2. CASE flavour # "workflow" /\ promised' = promised /\ amiss' = amiss \union {Git!Path(k)}
    <3>1. Git!Promised(Git!Store)' = Git!Promised(Git!Store)
      BY <2>2 DEF Git!Promised
    <3> QED BY <1>0, <1>2, <2>2, <3>1, AfterIsStoreTree DEF StoreTree
  <2> QED BY <2>1, <2>2
<1>6. StoreTree'
  BY <1>3, <1>4, <1>5 DEF StoreTree, IsStoreTree, IsTree, PointsTo, AgreeOutside
<1>7. work'[w].pc = "idle"
  BY GitReturns, FreeIs
<1>8. StoreAt(w)'
  BY <1>7 DEF StoreAt, CheckedOutAt
<1>9. FilesAreKnown(w)'
  <2>1. DOMAIN files \subseteq DOMAIN tree \union amiss \union {Git!Active} \union UnderWay(k)
    BY <1>1, StoreFiles DEF FilesAreKnown, Known
  <2>2. k.op \in {"create", "activate", "delete"} /\ (k.op = "create" => Git!Path(k) = k.ver)
        /\ (k.op # "create" => Git!Path(k) = Git!Active)
    BY StoreCallIs
  <2>3. DOMAIN files \subseteq DOMAIN s \union amiss \union {Git!Active}
    <3>1. CASE k.op = "delete" /\ flavour = "workflow"
      <4>1. DOMAIN files \intersect DOMAIN tree = {}
        BY <1>0, <1>1, <3>1 DEF StoreAt
      <4>2. UnderWay(k) = {}
        BY <3>1 DEF UnderWay
      <4> QED BY <2>1, <4>1, <4>2
    <3>2. CASE k.op = "delete" /\ flavour # "workflow"
      <4>1. DOMAIN s = DOMAIN tree \ {Git!Active} /\ UnderWay(k) = {}
        BY <1>1, <1>2, <3>2, WithoutIs DEF After, UnderWay
      <4> QED BY <2>1, <4>1
    <3>3. CASE k.op # "delete"
      <4>1. DOMAIN s = DOMAIN tree \union {Git!Path(k)}
        BY <1>1, <1>2, <3>3, SetIs DEF After
      <4> QED BY <2>1, <2>2, <4>1 DEF UnderWay
    <3> QED BY <3>1, <3>2, <3>3
  <2>4. amiss \subseteq DOMAIN s \union amiss' \union {Git!Active}
    <3>1. k.op = "create" => k.ver \in DOMAIN s
      BY <1>2, <2>2 DEF After, Git!Set
    <3> QED BY <2>2, <3>1
  <2> QED BY <1>3, <2>1, <2>3, <2>4 DEF FilesAreKnown, Known
<1> QED BY <1>6, <1>8, <1>9, StoreWriterFrame

LEMMA StoreCommit ==
    ASSUME GitCalls, flavour # "agent", NEW w \in Workers, StoreInTurn, GitStep(w),
           \A u \in Workers \ {w} : ~Git!Writing(u), Git!Commit(w)
    PROVE  StoreInTurn'
<1>. DEFINE k == work[w]
<1>0. /\ k.pc = "commit" /\ flavour' = flavour /\ GitCalls' /\ StoreTree
      /\ files' = files /\ \A u \in Workers \ {w} : work'[u] = work[u]
  BY GitStepCalls DEF Git!Commit, GitStep, StoreInTurn
<1>1. CASE refs' = refs /\ Git!Fails(w, Git!Leftover(k))
  <2>1. UnderWay(k) \subseteq Git!Leftover(k)
    BY <1>0, LeftoverIs DEF HalfDone
  <2>2. Git!TreeOf(Git!Store)' = Git!TreeOf(Git!Store) /\ DOMAIN refs' \subseteq {Git!Master, Git!Store}
    BY <1>0, <1>1 DEF StoreTree, Git!TreeOf
  <2>3. DOMAIN files' \subseteq Known \union UnderWay(k)
    BY <1>0, StoreFiles DEF FilesAreKnown
  <2> QED BY <1>0, <1>1, <2>1, <2>2, <2>3, StoreFails
<1>2. CASE ~(refs' = refs /\ Git!Fails(w, Git!Leftover(k)))
  <2>1. /\ refs' = Git!Set(refs, head, index)
        /\ \/ Git!Succeeds(w, Git!Store, Git!Said(k), {Git!Path(k)})
           \/ flavour = "skill" /\ Git!Fails(w, {Git!Path(k)})
    BY <1>2 DEF Git!Commit
  <2>2. /\ Git!Returns(w)
        /\ \/ promised' = Git!Set(promised, Git!Store, Git!Said(k)) /\ amiss' = amiss \ {Git!Path(k)}
           \/ flavour # "workflow" /\ promised' = promised /\ amiss' = amiss \union {Git!Path(k)}
    BY <2>1 DEF Git!Succeeds, Git!Fails
  <2> QED BY <1>0, <2>1, <2>2, StoreCommits
<1> QED BY <1>1, <1>2

LEMMA StoreRead ==
    ASSUME GitCalls, flavour # "agent", NEW w \in Workers, StoreInTurn, GitStep(w),
           Git!ReadPointer(w) \/ Git!ReadSpec(w)
    PROVE  StoreInTurn'
<1>1. /\ work[w].pc \in {"pointer", "spec"} /\ UNCHANGED <<flavour, refs, head, index, files, promised, amiss>>
      /\ GitCall(work[w]) /\ GitCall(work'[w]) /\ \A u \in Workers \ {w} : work'[u] = work[u]
  BY DEF Git!ReadPointer, Git!ReadSpec, Git!Fails, GitStep, GitCalls
<1>2. work[w].op = "get"
  BY <1>1, GitStepsAre DEF GitCall
<1>3. ~Git!Writing(w)'
  BY <1>1, <1>2 DEF GitStep, Begins, GoesOn, Ends, Git!Writing, Git!Writes
<1>4. StoreAt(w)'
  BY <1>1, <1>3, ReadersKnowNothingThen
<1>5. UnderWay(work[w]) = {}
  BY <1>1 DEF UnderWay, HalfDone
<1> QED BY <1>1, <1>4, <1>5, StoreReaderFrame

LEMMA StoreNextInTurn ==
    ASSUME GitCalls, flavour # "agent", GitWritersTakeTurns, StoreInTurn, ~disturbed',
           NEW w \in Workers, GitStep(w),
           \/ Git!Call(w) \/ Git!Checkout(w) \/ Git!Stat(w) \/ Git!Truncate(w) \/ Git!Write(w) \/ Git!Add(w)
           \/ Git!Remove(w) \/ Git!Commit(w) \/ Git!ReadDraft(w) \/ Git!SetReference(w)
           \/ Git!RemoveDraft(w) \/ Git!RemoveMain(w) \/ Git!ReadPointer(w) \/ Git!ReadSpec(w)
    PROVE  StoreInTurn'
<1>0. GitCall(work[w])
  BY DEF GitCalls
<1>1. Git!Writing(w) => \A u \in Workers \ {w} : ~Git!Writing(u)
  BY DEF GitWritersTakeTurns
<1>2. work[w].pc \in {"stat", "truncate", "write", "add", "remove", "commit"} => Git!Writing(w)
  BY <1>0, GitStepsAre DEF GitCall, Git!Writing, Git!Writes
<1>3. work[w].pc \notin {"draft", "setref", "unref", "draft_gone", "draft_kept"}
  BY <1>0, GitStepsAre DEF GitCall
<1>a. CASE Git!Call(w)
  BY <1>a, StoreCall
<1>b. CASE Git!Checkout(w)
  <2>1. \A u \in Workers \ {w} : ~Git!Writing(u)
    BY <1>b, <1>1 DEF Git!Checkout
  <2> QED BY <1>b, <2>1, StoreCheckout
<1>c. CASE Git!Stat(w)
  <2>1. \A u \in Workers \ {w} : ~Git!Writing(u)
    BY <1>c, <1>1, <1>2 DEF Git!Stat
  <2> QED BY <1>c, <2>1, StoreStat
<1>d. CASE Git!Truncate(w)
  <2>1. \A u \in Workers \ {w} : ~Git!Writing(u)
    BY <1>d, <1>1, <1>2 DEF Git!Truncate
  <2> QED BY <1>d, <2>1, StoreTruncate
<1>e. CASE Git!Write(w)
  <2>1. \A u \in Workers \ {w} : ~Git!Writing(u)
    BY <1>e, <1>1, <1>2 DEF Git!Write
  <2> QED BY <1>e, <2>1, StoreWrite
<1>f. CASE Git!Add(w)
  <2>1. \A u \in Workers \ {w} : ~Git!Writing(u)
    BY <1>f, <1>1, <1>2 DEF Git!Add
  <2> QED BY <1>f, <2>1, StoreAdd
<1>g. CASE Git!Remove(w)
  <2>1. \A u \in Workers \ {w} : ~Git!Writing(u)
    BY <1>g, <1>1, <1>2 DEF Git!Remove
  <2> QED BY <1>g, <2>1, StoreRemove
<1>h. CASE Git!Commit(w)
  <2>1. \A u \in Workers \ {w} : ~Git!Writing(u)
    BY <1>h, <1>1, <1>2 DEF Git!Commit
  <2> QED BY <1>h, <2>1, StoreCommit
<1>i. CASE Git!ReadPointer(w) \/ Git!ReadSpec(w)
  BY <1>i, StoreRead
<1>j. ~Git!ReadDraft(w) /\ ~Git!SetReference(w) /\ ~Git!RemoveDraft(w) /\ ~Git!RemoveMain(w)
  BY <1>3 DEF Git!ReadDraft, Git!SetReference, Git!RemoveDraft, Git!RemoveMain
<1> QED BY <1>a, <1>b, <1>c, <1>d, <1>e, <1>f, <1>g, <1>h, <1>i, <1>j

-----------------------------------------------------------------------------
\* The agent store.

LEMMA AgentFrame ==
    ASSUME GitCalls, flavour = "agent", flavour' = flavour, NEW w \in Workers, AgentInTurn,
           \A u \in Workers \ {w} : work'[u] = work[u],
           \/ \A u \in Workers \ {w} : ~Git!Writing(u)
           \/ UNCHANGED <<index, files>>,
           AgentTrees', AgentAt(w)'
    PROVE  AgentInTurn'
<1>1. ASSUME NEW u \in Workers PROVE AgentAt(u)'
  <2>1. CASE u = w
    BY <2>1
  <2>2. CASE u # w /\ ~Git!Writing(u)
    <3>1. work'[u] = work[u] /\ work'[u].pc \in {"idle", "draft"}
      BY <2>2, GitStepsAre DEF GitCalls, GitCall, Git!Writing, Git!Writes
    <3> QED BY <3>1 DEF AgentAt
  <2>3. CASE u # w /\ UNCHANGED <<index, files>>
    <3>1. AgentAt(u) /\ work'[u] = work[u] /\ index' = index /\ files' = files
      BY <2>3 DEF AgentInTurn
    <3> QED BY <3>1 DEF AgentAt, Git!Content, OneSpec, Git!Set, Git!NoTree, Git!Spec_yaml
  <2> QED BY <2>1, <2>2, <2>3
<1> QED BY <1>1 DEF AgentInTurn

LEMMA AgentTreesSame ==
    ASSUME AgentTrees, UNCHANGED <<refs, head, promised>>, amiss \subseteq amiss', (DOMAIN index \subseteq {Git!Spec_yaml})'
    PROVE  AgentTrees'
<1>1. refs' = refs /\ head' = head /\ promised' = promised
  OBVIOUS
<1>2. AgreeOutside(refs, promised, amiss \union {Git!Master})'
  BY <1>1 DEF AgentTrees, AgreeOutside
<1> QED BY <1>1, <1>2 DEF AgentTrees

LEMMA AgentCall ==
    ASSUME GitCalls, flavour = "agent", NEW w \in Workers, AgentInTurn, Git!Call(w)
    PROVE  AgentInTurn'
<1>1. GitStep(w) /\ Begins(w) /\ work'[w].pc = Git!FirstStep(work'[w].op)
  BY CallBegins
<1>2. work'[w].pc \in {"truncate", "unref", "draft"} /\ flavour' = flavour
      /\ refs' = refs /\ head' = head /\ promised' = promised /\ index' = index /\ files' = files /\ amiss' = amiss
  BY <1>1 DEF Git!FirstStep, Git!Call
<1>3. AgentAt(w)'
  BY <1>2 DEF AgentAt
<1>4. AgentTrees'
  BY <1>2, AgentTreesSame DEF AgentInTurn, AgentTrees
<1> QED BY <1>1, <1>2, <1>3, <1>4, AgentFrame DEF GitStep

LEMMA AgentReadDraft ==
    ASSUME GitCalls, flavour = "agent", NEW w \in Workers, AgentInTurn, GitStep(w), Git!ReadDraft(w)
    PROVE  AgentInTurn'
<1>1. work[w].pc = "draft" /\ flavour' = flavour /\ refs' = refs /\ head' = head /\ promised' = promised
      /\ index' = index /\ files' = files /\ amiss \subseteq amiss'
  BY DEF Git!ReadDraft, Git!Fails
<1>2. Git!Returns(w) \/ Git!Goes(w, "truncate")
  BY DEF Git!ReadDraft, Git!Fails
<1>3. work'[w].pc \in {"idle", "truncate"}
  BY <1>2, GitReturns, GitGoes, FreeIs
<1>4. AgentAt(w)'
  BY <1>3 DEF AgentAt
<1>5. AgentTrees'
  BY <1>1, AgentTreesSame DEF AgentInTurn, AgentTrees
<1> QED BY <1>1, <1>4, <1>5, AgentFrame DEF GitStep

\* A writer whose call fails.
LEMMA AgentFails ==
    ASSUME GitCalls, flavour = "agent", NEW w \in Workers, AgentInTurn, GitStep(w),
           \A u \in Workers \ {w} : ~Git!Writing(u), NEW F, Git!Fails(w, F),
           UNCHANGED <<refs, head, index, files>>
    PROVE  AgentInTurn'
<1>1. /\ refs' = refs /\ head' = head /\ index' = index /\ promised' = promised /\ amiss \subseteq amiss'
      /\ Git!Returns(w)
  BY DEF Git!Fails
<1>2. AgentTrees'
  BY <1>1, AgentTreesSame DEF AgentInTurn, AgentTrees
<1>3. work'[w].pc = "idle"
  BY <1>1, GitReturns, FreeIs
<1>4. AgentAt(w)'
  BY <1>3 DEF AgentAt
<1> QED BY <1>2, <1>4, AgentFrame DEF GitStep

LEMMA AgentTruncate ==
    ASSUME GitCalls, flavour = "agent", NEW w \in Workers, AgentInTurn, GitStep(w),
           \A u \in Workers \ {w} : ~Git!Writing(u), Git!Truncate(w)
    PROVE  AgentInTurn'
<1>1. flavour' = flavour /\ refs' = refs /\ head' = head /\ index' = index
  BY DEF Git!Truncate
<1>2. CASE Git!Fails(w, {}) /\ files' = files
  BY <1>1, <1>2, AgentFails
<1>3. CASE ~(Git!Fails(w, {}) /\ files' = files)
  <2>1. Git!Goes(w, "write") /\ files' = Git!Set(files, Git!Spec_yaml, <<>>) /\ promised' = promised /\ amiss' = amiss
    BY <1>3 DEF Git!Truncate, Git!Path
  <2>2. Git!Spec_yaml \in DOMAIN files'
    BY <2>1 DEF Git!Set
  <2>3. work'[w].pc = "write"
    BY <2>1, GitGoes
  <2>4. AgentAt(w)'
    BY <2>2, <2>3 DEF AgentAt
  <2>5. AgentTrees'
    BY <1>1, <2>1, AgentTreesSame DEF AgentInTurn, AgentTrees
  <2> QED BY <1>1, <2>4, <2>5, AgentFrame DEF GitStep
<1> QED BY <1>2, <1>3

LEMMA AgentWrite ==
    ASSUME GitCalls, flavour = "agent", NEW w \in Workers, AgentInTurn, GitStep(w),
           \A u \in Workers \ {w} : ~Git!Writing(u), Git!Write(w)
    PROVE  AgentInTurn'
<1>1. flavour' = flavour /\ refs' = refs /\ head' = head /\ index' = index /\ work[w].pc = "write"
  BY DEF Git!Write
<1>2. CASE Git!Fails(w, Git!Leftover(work[w])) /\ files' = files
  BY <1>1, <1>2, AgentFails
<1>3. CASE ~(Git!Fails(w, Git!Leftover(work[w])) /\ files' = files)
  <2>1. Git!Spec_yaml \in DOMAIN files
    BY <1>1 DEF AgentInTurn, AgentAt
  <2>2. /\ files' = Git!Set(files, Git!Spec_yaml, Git!Content(work[w])) /\ Git!Goes(w, "add")
        /\ promised' = promised /\ amiss' = amiss
    BY <1>3, <2>1 DEF Git!Write, Git!Path
  <2>3. Git!Spec_yaml \in DOMAIN files' /\ files'[Git!Spec_yaml] = Git!Content(work[w])
    BY <2>2 DEF Git!Set
  <2>4. work'[w].pc = "add" /\ work'[w].op = work[w].op /\ work'[w].name = work[w].name /\ work'[w].ver = work[w].ver
    BY <2>2, GitGoes
  <2>5. Git!Content(work[w])' = Git!Content(work[w])
    BY <2>4 DEF Git!Content
  <2>6. AgentAt(w)'
    BY <2>3, <2>4, <2>5 DEF AgentAt
  <2>7. AgentTrees'
    BY <1>1, <2>2, AgentTreesSame DEF AgentInTurn, AgentTrees
  <2> QED BY <1>1, <2>6, <2>7, AgentFrame DEF GitStep
<1> QED BY <1>2, <1>3

LEMMA AgentAdd ==
    ASSUME GitCalls, flavour = "agent", NEW w \in Workers, AgentInTurn, GitStep(w),
           \A u \in Workers \ {w} : ~Git!Writing(u), Git!Add(w)
    PROVE  AgentInTurn'
<1>1. /\ flavour' = flavour /\ refs' = refs /\ head' = head /\ files' = files /\ work[w].pc = "add"
      /\ DOMAIN index \subseteq {Git!Spec_yaml}
  BY DEF Git!Add, AgentInTurn, AgentTrees
<1>2. CASE Git!Fails(w, Git!Leftover(work[w])) /\ index' = index
  BY <1>1, <1>2, AgentFails
<1>3. CASE ~(Git!Fails(w, Git!Leftover(work[w])) /\ index' = index)
  <2>1. files[Git!Spec_yaml] = Git!Content(work[w])
    BY <1>1 DEF AgentInTurn, AgentAt
  <2>2. /\ index' = Git!Set(index, Git!Spec_yaml, Git!Content(work[w])) /\ Git!Goes(w, "commit")
        /\ promised' = promised /\ amiss' = amiss
    BY <1>3, <2>1 DEF Git!Add, Git!Path
  <2>3. index' = OneSpec(Git!Content(work[w]))
    BY <1>1, <2>2, SetOneSpec
  <2>4. work'[w].pc = "commit" /\ work'[w].op = work[w].op /\ work'[w].name = work[w].name /\ work'[w].ver = work[w].ver
    BY <2>2, GitGoes
  <2>5. Git!Content(work[w])' = Git!Content(work[w])
    BY <2>4 DEF Git!Content
  <2>6. OneSpec(Git!Content(work[w]))' = OneSpec(Git!Content(work[w]))
    BY <2>5 DEF OneSpec, Git!Set, Git!NoTree, Git!Spec_yaml
  <2>7. AgentAt(w)'
    BY <2>3, <2>4, <2>6 DEF AgentAt
  <2>8. DOMAIN index' \subseteq {Git!Spec_yaml}
    BY <1>1, <2>2 DEF Git!Set
  <2>9. AgentTrees'
    BY <1>1, <2>2, <2>8, AgentTreesSame DEF AgentInTurn, AgentTrees
  <2> QED BY <1>1, <2>7, <2>9, AgentFrame DEF GitStep
<1> QED BY <1>2, <1>3

\* The branches once more, as facts about functions that may be primed.
LEMMA AgentTreesAre ==
    ASSUME head' = Git!Master, Git!Store \notin DOMAIN refs', Git!Store \notin DOMAIN promised',
           DOMAIN index' \subseteq {Git!Spec_yaml}, AgreeOutside(refs', promised', amiss' \union {Git!Master}),
           \A a \in Agents : \A b \in {Git!Draft(a), Git!Main(a)} \intersect DOMAIN refs' :
               \E v \in Versions : refs'[b] = OneSpec(<<a, v>>)
    PROVE  AgentTrees'
  BY DEF AgentTrees, AgreeOutside, OneSpec, Git!Set, Git!NoTree, Git!Master, Git!Store, Git!Spec_yaml, Git!Draft, Git!Main

LEMMA AgentCommit ==
    ASSUME GitCalls, flavour = "agent", NEW w \in Workers, AgentInTurn, GitStep(w),
           \A u \in Workers \ {w} : ~Git!Writing(u), Git!Commit(w)
    PROVE  AgentInTurn'
<1>1. /\ flavour' = flavour /\ head' = head /\ files' = files /\ index' = index /\ work[w].pc = "commit"
      /\ head = Git!Master
  BY DEF Git!Commit, AgentInTurn, AgentTrees
<1>2. CASE Git!Fails(w, Git!Leftover(work[w])) /\ refs' = refs
  BY <1>1, <1>2, AgentFails
<1>3. CASE ~(Git!Fails(w, Git!Leftover(work[w])) /\ refs' = refs)
  <2>1. /\ refs' = Git!Set(refs, Git!Master, index) /\ promised' = promised /\ amiss' = amiss
        /\ Git!Becomes(w, [work[w] EXCEPT !.pc = "setref", !.tree = index])
    BY <1>1, <1>3 DEF Git!Commit
  <2>2. DOMAIN refs' = DOMAIN refs \union {Git!Master} /\ \A c \in DOMAIN refs : c # Git!Master => refs'[c] = refs[c]
    BY <2>1, RefsSet
  <2>3. /\ head' = Git!Master /\ DOMAIN index' \subseteq {Git!Spec_yaml}
        /\ Git!Store \notin DOMAIN refs' /\ Git!Store \notin DOMAIN promised'
    BY <1>1, <2>1, <2>2, BranchNames DEF AgentInTurn, AgentTrees
  <2>4. AgreeOutside(refs', promised', amiss' \union {Git!Master})
    BY <2>1, <2>2 DEF AgentInTurn, AgentTrees, AgreeOutside
  <2>5. ASSUME NEW a \in Agents, NEW b \in {Git!Draft(a), Git!Main(a)} \intersect DOMAIN refs'
        PROVE  \E v \in Versions : refs'[b] = OneSpec(<<a, v>>)
    <3>1. b # Git!Master
      BY BranchNames
    <3>2. b \in DOMAIN refs /\ refs'[b] = refs[b]
      BY <2>2, <3>1
    <3> QED BY <3>2 DEF AgentInTurn, AgentTrees
  <2>6. AgentTrees'
    BY <2>3, <2>4, <2>5, AgentTreesAre
  <2>7. PICK j : j = [work[w] EXCEPT !.pc = "setref", !.tree = index]
    OBVIOUS
  <2>8. DOMAIN work[w] = GitFields
    BY DEF GitCalls, GitCall
  <2>9. j.pc = "setref" /\ j.tree = index /\ j.name = work[w].name /\ j.ver = work[w].ver
    BY <2>7, <2>8 DEF GitFields
  <2>10. work'[w] = j
    BY <2>1, <2>7, GitBecomes
  <2>11. Git!Content(work[w])' = Git!Content(work[w])
    BY <2>9, <2>10 DEF Git!Content
  <2>12. OneSpec(Git!Content(work[w]))' = OneSpec(Git!Content(work[w]))
    BY <2>11 DEF OneSpec, Git!Set, Git!NoTree, Git!Spec_yaml
  <2>13. index = OneSpec(Git!Content(work[w]))
    BY <1>1 DEF AgentInTurn, AgentAt
  <2>14. AgentAt(w)'
    BY <2>9, <2>10, <2>12, <2>13 DEF AgentAt
  <2> QED BY <1>1, <2>6, <2>14, AgentFrame DEF GitStep
<1> QED BY <1>2, <1>3

\* A reference is given to the tree of its call.
LEMMA AgentSetReference ==
    ASSUME GitCalls, flavour = "agent", NEW w \in Workers, AgentInTurn, GitStep(w),
           \A u \in Workers \ {w} : ~Git!Writing(u), Git!SetReference(w)
    PROVE  AgentInTurn'
<1>1. /\ flavour' = flavour /\ head' = head /\ files' = files /\ index' = index /\ work[w].pc = "setref"
      /\ GitCall(work[w])
  BY DEF Git!SetReference, GitCalls
<1>2. work[w].op \in {"create", "activate"} /\ work[w].name \in Agents /\ work[w].ver \in Versions
  BY <1>1, GitStepsAre DEF GitCall
<1>3. CASE Git!Fails(w, {}) /\ refs' = refs
  BY <1>1, <1>3, AgentFails
<1>4. CASE ~(Git!Fails(w, {}) /\ refs' = refs)
  <2>1. PICK t : t = OneSpec(Git!Content(work[w]))
    OBVIOUS
  <2>2. PICK b : b = Git!BranchOf(work[w])
    OBVIOUS
  <2>3. work[w].tree = t
    BY <1>1, <2>1 DEF AgentInTurn, AgentAt
  <2>4. /\ refs' = Git!Set(refs, b, t) /\ promised' = Git!Set(promised, b, t) /\ amiss' = amiss \ {b}
        /\ Git!Returns(w)
    BY <1>2, <1>4, <2>1, <2>2, <2>3 DEF Git!SetReference, Git!Succeeds, Git!BranchOf, OneSpec
  <2>5. b \in {Git!Draft(work[w].name), Git!Main(work[w].name)}
    BY <2>2 DEF Git!BranchOf
  <2>6. b # Git!Master /\ b # Git!Store
    BY <2>5, BranchNames
  <2>7. /\ DOMAIN refs' = DOMAIN refs \union {b} /\ refs'[b] = t
        /\ \A c \in DOMAIN refs : c # b => refs'[c] = refs[c]
    BY <2>4 DEF Git!Set
  <2>8. /\ DOMAIN promised' = DOMAIN promised \union {b} /\ promised'[b] = t
        /\ \A c \in DOMAIN promised : c # b => promised'[c] = promised[c]
    BY <2>4 DEF Git!Set
  <2>9. /\ head' = Git!Master /\ DOMAIN index' \subseteq {Git!Spec_yaml}
        /\ Git!Store \notin DOMAIN refs' /\ Git!Store \notin DOMAIN promised'
    BY <1>1, <2>6, <2>7, <2>8 DEF AgentInTurn, AgentTrees
  <2>10. AgreeOutside(refs, promised, amiss \union {Git!Master})
    BY DEF AgentInTurn, AgentTrees
  <2>11. AgreeOutside(refs', promised', amiss' \union {Git!Master})
    BY <2>4, <2>7, <2>8, <2>10 DEF AgreeOutside
  <2>12. ASSUME NEW a \in Agents, NEW c \in {Git!Draft(a), Git!Main(a)} \intersect DOMAIN refs'
         PROVE  \E v \in Versions : refs'[c] = OneSpec(<<a, v>>)
    <3>1. CASE c = b
      <4>1. a = work[w].name
        BY <2>5, <3>1, BranchNames
      <4> QED BY <1>2, <2>1, <2>7, <3>1, <4>1 DEF Git!Content
    <3>2. CASE c # b
      BY <2>7, <3>2 DEF AgentInTurn, AgentTrees
    <3> QED BY <3>1, <3>2
  <2>13. AgentTrees'
    BY <2>9, <2>11, <2>12, AgentTreesAre
  <2>14. AgentAt(w)'
    <3>1. work'[w].pc = "idle"
      BY <2>4, GitReturns, FreeIs
    <3> QED BY <3>1 DEF AgentAt
  <2> QED BY <1>1, <2>13, <2>14, AgentFrame DEF GitStep
<1> QED BY <1>3, <1>4

\* Delete takes references away, and tells what of them is left.
LEMMA AgentUnrefs ==
    ASSUME GitCalls, flavour = "agent", NEW w \in Workers, AgentInTurn, GitStep(w),
           NEW R, NEW P, refs' = Git!Without(refs, R), promised' = Git!Without(promised, P),
           Git!Master \notin P, R \intersect DOMAIN promised \subseteq P,
           (P \intersect DOMAIN refs) \ R \subseteq amiss', amiss \subseteq amiss',
           UNCHANGED <<flavour, head, index, files>>, work'[w].pc \in {"idle", "draft_gone", "draft_kept"}
    PROVE  AgentInTurn'
<1>1. DOMAIN refs' = DOMAIN refs \ R /\ \A c \in DOMAIN refs' : refs'[c] = refs[c]
  BY DEF Git!Without
<1>2. DOMAIN promised' = DOMAIN promised \ P /\ \A c \in DOMAIN promised' : promised'[c] = promised[c]
  BY DEF Git!Without
<1>3. AgreeOutside(refs, promised, amiss \union {Git!Master})
  BY DEF AgentInTurn, AgentTrees
<1>4. AgreeOutside(refs', promised', amiss' \union {Git!Master})
  BY <1>1, <1>2, <1>3 DEF AgreeOutside
<1>5. /\ head' = Git!Master /\ DOMAIN index' \subseteq {Git!Spec_yaml}
      /\ Git!Store \notin DOMAIN refs' /\ Git!Store \notin DOMAIN promised'
  BY <1>1, <1>2 DEF AgentInTurn, AgentTrees
<1>6. ASSUME NEW a \in Agents, NEW c \in {Git!Draft(a), Git!Main(a)} \intersect DOMAIN refs'
      PROVE  \E v \in Versions : refs'[c] = OneSpec(<<a, v>>)
  BY <1>1 DEF AgentInTurn, AgentTrees
<1>7. AgentTrees'
  BY <1>4, <1>5, <1>6, AgentTreesAre
<1>8. AgentAt(w)'
  BY DEF AgentAt
<1> QED BY <1>7, <1>8, AgentFrame DEF GitStep

LEMMA WithoutNothing == ASSUME NEW t, IsTree(t) PROVE Git!Without(t, {}) = t
<1>1. DOMAIN t \ {} = DOMAIN t
  OBVIOUS
<1> QED BY <1>1 DEF Git!Without, IsTree

LEMMA AgentRemoveDraft ==
    ASSUME GitCalls, flavour = "agent", NEW w \in Workers, AgentInTurn, GitStep(w), Git!RemoveDraft(w)
    PROVE  AgentInTurn'
<1>. DEFINE b == Git!Draft(work[w].name)
<1>1. flavour' = flavour /\ head' = head /\ index' = index /\ files' = files /\ amiss' = amiss
  BY DEF Git!RemoveDraft
<1>2. Git!Master # b
  BY BranchNames
<1>3. CASE Git!Goes(w, "draft_gone") /\ refs' = Git!Without(refs, {b}) /\ promised' = Git!Without(promised, {b})
  <2>1. work'[w].pc = "draft_gone"
    BY <1>3, GitGoes
  <2> QED BY <1>1, <1>2, <1>3, <2>1, AgentUnrefs
<1>4. CASE Git!Goes(w, "draft_kept") /\ refs' = refs /\ promised' = promised
  <2>1. work'[w].pc = "draft_kept"
    BY <1>4, GitGoes
  <2>2. AgentTrees'
    BY <1>1, <1>4, AgentTreesSame DEF AgentInTurn, AgentTrees
  <2>3. AgentAt(w)'
    BY <2>1 DEF AgentAt
  <2> QED BY <1>1, <2>2, <2>3, AgentFrame DEF GitStep
<1> QED BY <1>3, <1>4 DEF Git!RemoveDraft

LEMMA AgentRemoveMain ==
    ASSUME GitCalls, flavour = "agent", NEW w \in Workers, AgentInTurn, GitStep(w), Git!RemoveMain(w)
    PROVE  AgentInTurn'
<1>. DEFINE both == {Git!Draft(work[w].name), Git!Main(work[w].name)}
<1>1. flavour' = flavour /\ head' = head /\ index' = index /\ files' = files
  BY DEF Git!RemoveMain
<1>2. PICK gone \in {{}, {Git!Main(work[w].name)}} :
        /\ refs' = Git!Without(refs, gone)
        /\ IF gone = {} /\ work[w].pc = "draft_kept" THEN Git!Fails(w, {})
           ELSE Git!Returns(w) /\ promised' = Git!Without(promised, both)
                /\ amiss' = amiss \union (both \intersect (DOMAIN refs \ gone))
  BY DEF Git!RemoveMain
<1>3. Git!Master \notin both /\ gone \subseteq both
  BY BranchNames
<1>4. Git!Returns(w)
  BY <1>2 DEF Git!Fails
<1>5. work'[w].pc = "idle"
  BY <1>4, GitReturns, FreeIs
<1>6. CASE gone = {} /\ work[w].pc = "draft_kept"
  <2>1. promised' = promised /\ amiss \subseteq amiss' /\ refs' = Git!Without(refs, {})
    BY <1>2, <1>6 DEF Git!Fails
  <2>2. DOMAIN refs' = DOMAIN refs /\ \A c \in DOMAIN refs : refs'[c] = refs[c]
    BY <2>1 DEF Git!Without
  <2>3. AgreeOutside(refs', promised', amiss' \union {Git!Master})
    BY <2>1, <2>2 DEF AgentInTurn, AgentTrees, AgreeOutside
  <2>4. /\ head' = Git!Master /\ DOMAIN index' \subseteq {Git!Spec_yaml}
        /\ Git!Store \notin DOMAIN refs' /\ Git!Store \notin DOMAIN promised'
    BY <1>1, <2>1, <2>2 DEF AgentInTurn, AgentTrees
  <2>5. \A a \in Agents : \A c \in {Git!Draft(a), Git!Main(a)} \intersect DOMAIN refs' :
           \E v \in Versions : refs'[c] = OneSpec(<<a, v>>)
    BY <2>2 DEF AgentInTurn, AgentTrees
  <2>6. AgentTrees'
    BY <2>3, <2>4, <2>5, AgentTreesAre
  <2>7. AgentAt(w)'
    BY <1>5 DEF AgentAt
  <2> QED BY <1>1, <2>6, <2>7, AgentFrame DEF GitStep
<1>7. CASE ~(gone = {} /\ work[w].pc = "draft_kept")
  <2>1. promised' = Git!Without(promised, both) /\ amiss' = amiss \union (both \intersect (DOMAIN refs \ gone))
    BY <1>2, <1>7
  <2>2. (both \intersect DOMAIN refs) \ gone \subseteq amiss' /\ amiss \subseteq amiss'
    BY <2>1
  <2> HIDE DEF both
  <2> QED BY <1>1, <1>2, <1>3, <1>5, <2>1, <2>2, AgentUnrefs
<1> QED BY <1>6, <1>7

LEMMA AgentNextInTurn ==
    ASSUME GitCalls, flavour = "agent", GitWritersTakeTurns, AgentInTurn, NEW w \in Workers, GitStep(w),
           \/ Git!Call(w) \/ Git!Checkout(w) \/ Git!Stat(w) \/ Git!Truncate(w) \/ Git!Write(w) \/ Git!Add(w)
           \/ Git!Remove(w) \/ Git!Commit(w) \/ Git!ReadDraft(w) \/ Git!SetReference(w)
           \/ Git!RemoveDraft(w) \/ Git!RemoveMain(w) \/ Git!ReadPointer(w) \/ Git!ReadSpec(w)
    PROVE  AgentInTurn'
<1>0. GitCall(work[w])
  BY DEF GitCalls
<1>1. Git!Writing(w) => \A u \in Workers \ {w} : ~Git!Writing(u)
  BY DEF GitWritersTakeTurns
<1>2. work[w].pc \in {"truncate", "write", "add", "commit", "setref"} => Git!Writing(w)
  BY <1>0, GitStepsAre DEF GitCall, Git!Writing, Git!Writes
<1>3. work[w].pc \notin {"checkout", "stat", "remove", "pointer", "spec"}
  BY <1>0, GitStepsAre DEF GitCall
<1>a. CASE Git!Call(w)
  BY <1>a, AgentCall
<1>b. CASE Git!ReadDraft(w)
  BY <1>b, AgentReadDraft
<1>c. CASE Git!RemoveDraft(w) \/ Git!RemoveMain(w)
  BY <1>c, AgentRemoveDraft, AgentRemoveMain
<1>d. CASE Git!Truncate(w)
  <2>1. \A u \in Workers \ {w} : ~Git!Writing(u)
    BY <1>d, <1>1, <1>2 DEF Git!Truncate
  <2> QED BY <1>d, <2>1, AgentTruncate
<1>e. CASE Git!Write(w)
  <2>1. \A u \in Workers \ {w} : ~Git!Writing(u)
    BY <1>e, <1>1, <1>2 DEF Git!Write
  <2> QED BY <1>e, <2>1, AgentWrite
<1>f. CASE Git!Add(w)
  <2>1. \A u \in Workers \ {w} : ~Git!Writing(u)
    BY <1>f, <1>1, <1>2 DEF Git!Add
  <2> QED BY <1>f, <2>1, AgentAdd
<1>g. CASE Git!Commit(w)
  <2>1. \A u \in Workers \ {w} : ~Git!Writing(u)
    BY <1>g, <1>1, <1>2 DEF Git!Commit
  <2> QED BY <1>g, <2>1, AgentCommit
<1>h. CASE Git!SetReference(w)
  <2>1. \A u \in Workers \ {w} : ~Git!Writing(u)
    BY <1>h, <1>1, <1>2 DEF Git!SetReference
  <2> QED BY <1>h, <2>1, AgentSetReference
<1>i. ~Git!Checkout(w) /\ ~Git!Stat(w) /\ ~Git!Remove(w) /\ ~Git!ReadPointer(w) /\ ~Git!ReadSpec(w)
  BY <1>3 DEF Git!Checkout, Git!Stat, Git!Remove, Git!ReadPointer, Git!ReadSpec
<1> QED BY <1>a, <1>b, <1>c, <1>d, <1>e, <1>f, <1>g, <1>h, <1>i

-----------------------------------------------------------------------------
LEMMA GitInitially == Git!Init => GitInv
<1>. SUFFICES ASSUME Git!Init PROVE GitInv
  OBVIOUS
<1>1. /\ flavour \in GitKinds /\ refs = [b \in {} |-> Git!NoTree] /\ head = Git!Master
      /\ index = Git!NoTree /\ files = Git!NoTree /\ mutex = {}
      /\ work = [w \in Workers |-> Git!Free] /\ promised = [b \in {} |-> Git!NoTree]
  BY DEF Git!Init
<1>2. DOMAIN refs = {} /\ DOMAIN promised = {}
  BY <1>1
<1>3. DOMAIN work = Workers /\ \A w \in Workers : work[w] = Git!Free /\ work[w].pc = "idle"
  BY <1>1, FreeIs
<1>4. GitCalls
  <2>1. GitCall(Git!Free)
    BY FreeIs DEF GitCall
  <2> QED BY <2>1, <1>1, <1>3, GitKindsAre DEF GitCalls
<1>5. MutexHeld
  BY <1>1, <1>3 DEF MutexHeld
<1>6. GitWritersTakeTurns
  BY <1>3 DEF GitWritersTakeTurns, Git!Writing
<1>7. StoreInTurn
  <2>1. Git!TreeOf(Git!Store) = Git!NoTree /\ Git!Promised(Git!Store) = Git!NoTree
    BY <1>2 DEF Git!TreeOf, Git!Promised
  <2>2. \A w \in Workers : StoreAt(w)
    BY <1>3 DEF StoreAt, CheckedOutAt
  <2>3. StoreTree
    BY <1>2, <2>1, NoTreeIs DEF StoreTree, PointsTo, AgreeOutside
  <2>4. DOMAIN files = {}
    BY <1>1, NoTreeIs
  <2> QED BY <2>2, <2>3, <2>4 DEF StoreInTurn
<1>8. AgentInTurn
  <2>1. \A w \in Workers : AgentAt(w)
    BY <1>3 DEF AgentAt
  <2>2. AgentTrees
    BY <1>1, <1>2, NoTreeIs DEF AgentTrees, AgreeOutside
  <2> QED BY <2>1, <2>2 DEF AgentInTurn
<1> QED BY <1>4, <1>5, <1>6, <1>7, <1>8 DEF GitInv

LEMMA GitStepKeeps == GitInv /\ [Git!Next]_(Git!gitVars) => GitInv'
<1>. SUFFICES ASSUME GitInv, [Git!Next]_(Git!gitVars) PROVE GitInv'
  OBVIOUS
<1>1. CASE UNCHANGED Git!gitVars
  <2>1. /\ flavour' = flavour /\ refs' = refs /\ head' = head /\ index' = index /\ files' = files /\ mutex' = mutex
        /\ work' = work /\ promised' = promised /\ amiss' = amiss /\ disturbed' = disturbed
    BY <1>1 DEF Git!gitVars
  <2>2. GitCalls' /\ MutexHeld' /\ (GitWritersTakeTurns <=> GitWritersTakeTurns')
    BY <2>1 DEF GitInv, GitCalls, GitCall, GitSteps, MutexHeld, Git!Locks, Git!Writes, Git!Writing, GitWritersTakeTurns
  <2>3. StoreInTurn => StoreInTurn'
    BY <2>1 DEF StoreInTurn, StoreAt, StoreTree, Known, UnderWay, CheckedOutAt, After, IsStoreTree, IsTree, PointsTo,
            AgreeOutside, Git!TreeOf, Git!Promised, Git!Path, Git!Content
  <2>4. AgentInTurn => AgentInTurn'
    BY <2>1 DEF AgentInTurn, AgentTrees, AgentAt, AgreeOutside, OneSpec, Git!Content, Git!Set, Git!NoTree, Git!Spec_yaml
  <2> QED BY <2>1, <2>2, <2>3, <2>4 DEF GitInv
<1>2. CASE Git!Next
  <2>1. PICK w \in Workers :
           \/ Git!Call(w) \/ Git!Checkout(w) \/ Git!Stat(w) \/ Git!Truncate(w) \/ Git!Write(w) \/ Git!Add(w)
           \/ Git!Remove(w) \/ Git!Commit(w) \/ Git!ReadDraft(w) \/ Git!SetReference(w)
           \/ Git!RemoveDraft(w) \/ Git!RemoveMain(w) \/ Git!ReadPointer(w) \/ Git!ReadSpec(w)
    BY <1>2 DEF Git!Next
  <2>2. GitCalls /\ MutexHeld
    BY DEF GitInv
  <2>3. GitStep(w)
    BY <2>1, <2>2, CallBegins, GitActionsAreSteps
  <2>4. GitCalls' /\ MutexHeld' /\ flavour' = flavour /\ (~disturbed' => ~disturbed)
    BY <2>2, <2>3, GitStepCalls, GitStepMutex DEF GitStep
  <2>5. ASSUME ~disturbed' PROVE GitWritersTakeTurns'
    BY <2>2, <2>3, <2>4, <2>5, GitStepTurns DEF GitInv
  <2>6. ASSUME ~disturbed', flavour # "agent" PROVE StoreInTurn'
    BY <2>1, <2>2, <2>3, <2>4, <2>6, StoreNextInTurn DEF GitInv
  <2>7. ASSUME ~disturbed', flavour = "agent" PROVE AgentInTurn'
    BY <2>1, <2>2, <2>3, <2>4, <2>7, AgentNextInTurn DEF GitInv
  <2> QED BY <2>4, <2>5, <2>6, <2>7 DEF GitInv
<1> QED BY <1>1, <1>2

LEMMA GitInvIsWhole == GitInv => Git!CommitsAreWhole
<1>. SUFFICES ASSUME GitInv, ~disturbed
              PROVE  /\ Git!Store \in DOMAIN refs =>
                           /\ \A f \in DOMAIN refs[Git!Store] : refs[Git!Store][f] # <<>>
                           /\ Git!Active \in DOMAIN refs[Git!Store] =>
                                 refs[Git!Store][Git!Active][2] \in DOMAIN refs[Git!Store] \union amiss
                     /\ \A a \in Agents : \A b \in {Git!Draft(a), Git!Main(a)} \intersect DOMAIN refs :
                           refs[b][Git!Spec_yaml][1] = a
  BY DEF Git!CommitsAreWhole
<1>1. CASE flavour # "agent"
  <2>1. /\ IsStoreTree(Git!TreeOf(Git!Store)) /\ PointsTo(Git!TreeOf(Git!Store), amiss)
        /\ DOMAIN refs \subseteq {Git!Master, Git!Store}
    BY <1>1 DEF GitInv, StoreInTurn, StoreTree
  <2>2. \A a \in Agents : {Git!Draft(a), Git!Main(a)} \intersect DOMAIN refs = {}
    BY <2>1, BranchNames
  <2>3. \A f \in DOMAIN Git!TreeOf(Git!Store) : Git!TreeOf(Git!Store)[f] # <<>>
    BY <2>1 DEF IsStoreTree
  <2> QED BY <2>1, <2>2, <2>3 DEF Git!TreeOf, PointsTo
<1>2. CASE flavour = "agent"
  <2>1. AgentInTurn
    BY <1>2 DEF GitInv
  <2>2. ASSUME NEW a \in Agents, NEW b \in {Git!Draft(a), Git!Main(a)} \intersect DOMAIN refs
        PROVE  refs[b][Git!Spec_yaml][1] = a
    <3>1. PICK v \in Versions : refs[b] = OneSpec(<<a, v>>)
      BY <2>1 DEF AgentInTurn, AgentTrees
    <3>2. PICK c : c = <<a, v>>
      OBVIOUS
    <3>3. OneSpec(c)[Git!Spec_yaml] = c
      BY DEF OneSpec, Git!Set
    <3> QED BY <3>1, <3>2, <3>3
  <2> QED BY <2>1, <2>2 DEF AgentInTurn, AgentTrees
<1> QED BY <1>1, <1>2

LEMMA GitInvIsPromised == GitInv => Git!BranchesAreAsPromised
<1>. SUFFICES ASSUME GitInv, Git!Quiet, ~disturbed
              PROVE  /\ AgreeOutside(Git!TreeOf(Git!Store), Git!Promised(Git!Store), amiss)
                     /\ AgreeOutside(promised, refs, amiss \union {Git!Master, Git!Store})
  BY DEF Git!BranchesAreAsPromised, AgreeOutside
<1>1. CASE flavour # "agent"
  BY <1>1 DEF GitInv, StoreInTurn, StoreTree, AgreeOutside
<1>2. CASE flavour = "agent"
  <2>1. AgentTrees
    BY <1>2 DEF GitInv, AgentInTurn
  <2>2. DOMAIN Git!TreeOf(Git!Store) = {} /\ DOMAIN Git!Promised(Git!Store) = {}
    BY <2>1, NoTreeIs DEF AgentTrees, Git!TreeOf, Git!Promised
  <2>3. AgreeOutside(promised, refs, amiss \union {Git!Master, Git!Store})
    BY <2>1 DEF AgentTrees, AgreeOutside
  <2> QED BY <2>2, <2>3 DEF AgreeOutside
<1> QED BY <1>1, <1>2

-----------------------------------------------------------------------------
(* The message stores.                                                     *)

AllMessages == [n : Nat, role : {"user", "assistant"}, part : Parts \union {"text"}]
AllRows == [msg : AllMessages, key : Nat]
RequestFields == {"pc", "process", "todo", "msg", "key", "loaded", "before", "snapshot", "at", "got", "budget"}

\* The steps of an append to each store.
Naming == {"bumped", "name", "put"}
AppendSteps ==
    CASE kind \in {"memory", "list"} -> {"insert"}
      [] kind = "hybrid" -> {"name", "put", "insert"}
      [] kind = "minio" -> {"bump"} \union Naming
Senders == {"append"} \union AppendSteps

\* What a request has still to append.
Todo(q) == {q.todo[i] : i \in DOMAIN q.todo}
Pending(q) == Todo(q) \union {m \in {q.msg} : q.pc \in AppendSteps}

Request(q) ==
    /\ DOMAIN q = RequestFields
    /\ q.pc \in {"idle", "list", "get", "answered"} \union Senders
    /\ q.pc \in Senders =>
         \E p \in IF kind = "memory" THEN {Messages!Home} ELSE Processes : q.process = {p}
    /\ \/ q.todo = <<>> /\ q.pc # "append"
       \/ q.pc \in Senders /\ \E m \in AllMessages : q.todo = <<m>>
       \/ q.pc = "append" /\ \E m, n \in AllMessages : m # n /\ q.todo = <<m, n>>
    /\ q.pc \in AppendSteps => q.msg \in AllMessages /\ q.msg \notin Todo(q)
    /\ q.key \in Nat /\ q.loaded \in Nat
    /\ (q.pc = "append" \/ (kind # "hybrid" /\ q.pc = "insert")) => q.key = 0

MessageTypes ==
    /\ kind \in {"memory", "list", "hybrid", "minio"}
    /\ DOMAIN requests = Requests /\ \A r \in Requests : Request(requests[r])
    /\ rows \in Seq(AllRows) /\ (kind # "hybrid" => \A i \in DOMAIN rows : rows[i].key = 0)
    /\ DOMAIN objs \subseteq Nat /\ IsFiniteSet(DOMAIN objs)
    /\ \A k \in DOMAIN objs : objs[k] \in AllMessages
    /\ seq \in [Processes -> Nat] /\ begun \in Nat

\* The places of the history: the rows or, of the MinIO store, the keys.
Places == IF kind = "minio" THEN DOMAIN objs ELSE DOMAIN rows
At(i) == IF kind = "minio" THEN objs[i] ELSE Messages!Fetched(rows[i])

\* Every message is in one place or will be, and the messages to come are new.
MessagesAreNew ==
    /\ \A i \in Places : At(i) \in AllMessages /\ At(i).n < begun
    /\ \A i, j \in Places : At(i) = At(j) => i = j
    /\ \A r \in Requests : \A m \in Pending(requests[r]) : m \in AllMessages /\ m.n < begun /\ \A i \in Places : At(i) # m
    /\ \A r, s \in Requests : r # s => Pending(requests[r]) \intersect Pending(requests[s]) = {}

\* Every counter in use has passed the objects there are, and the key a request has taken is its own.
KeysAreNew ==
    /\ current \subseteq Processes
    /\ \A p \in current : \A k \in DOMAIN objs : k <= seq[p]
    /\ kind = "hybrid" =>
         /\ \A i \in DOMAIN rows : rows[i].key # 0 => rows[i].key \in DOMAIN objs
         /\ \A r \in Requests :
              LET q == requests[r] IN
              /\ q.pc = "insert" /\ q.key # 0 => q.key \in DOMAIN objs /\ objs[q.key] = q.msg
              /\ q.pc = "put" => /\ Messages!Process(r) \in current /\ q.key \notin DOMAIN objs
                                 /\ q.key # 0 /\ q.key <= seq[Messages!Process(r)]
         /\ \A r, s \in Requests :
              requests[r].pc = "put" /\ requests[s].pc = "put" /\ r # s =>
                  Messages!Process(r) = Messages!Process(s) /\ requests[r].key # requests[s].key
    /\ kind = "minio" =>
         /\ \A r, s \in Requests : requests[r].pc \in Naming /\ requests[s].pc \in Naming => r = s
         /\ \A r \in Requests :
              LET q == requests[r]
                  n == seq[Messages!Process(r)]
              IN /\ q.pc \in Naming => Messages!Process(r) \in current
                 /\ q.pc = "bumped" => q.loaded = n
                 /\ q.pc = "name" => \A k \in DOMAIN objs : k < n
                 /\ q.pc = "put" => q.key = n /\ \A k \in DOMAIN objs : k < q.key

\* An acknowledged message is in a place, behind those acknowledged before it.
InOrder ==
    /\ \A a \in acked : \E j \in Places :
         At(j) = a.msg /\ \A m \in a.before : \E i \in Places : At(i) = m /\ i < j
    /\ \A r \in Requests :
         requests[r].pc \in AppendSteps => \A m \in requests[r].before : \E a \in acked : a.msg = m

MessagesInv ==
    /\ MessageTypes
    /\ ~careless => MessagesAreNew /\ KeysAreNew /\ InOrder


LEMMA NoRequestIs ==
    /\ DOMAIN Messages!NoRequest = RequestFields /\ Messages!NoRequest.pc = "idle" /\ Messages!NoRequest.todo = <<>>
    /\ Messages!NoRequest.key = 0 /\ Messages!NoRequest.loaded = 0 /\ Messages!NoRequest.process = {}
  BY DEF Messages!NoRequest, RequestFields

LEMMA StepsAre ==
    ASSUME kind \in {"memory", "list", "hybrid", "minio"}
    PROVE  /\ kind \in {"memory", "list"} => AppendSteps = {"insert"}
           /\ kind = "hybrid" => AppendSteps = {"name", "put", "insert"}
           /\ kind = "minio" => AppendSteps = {"bump", "bumped", "name", "put"}
           /\ Senders = {"append"} \union AppendSteps
           /\ {"idle", "append", "list", "get", "answered"} \intersect AppendSteps = {}
  BY DEF AppendSteps, Senders, Naming

LEMMA TodoIs ==
    ASSUME NEW q
    PROVE  /\ q.todo = <<>> => Todo(q) = {}
           /\ \A m : q.todo = <<m>> => Todo(q) = {m} /\ Head(q.todo) = m /\ Tail(q.todo) = <<>>
           /\ \A m, n : q.todo = <<m, n>> => Todo(q) = {m, n} /\ Head(q.todo) = m /\ Tail(q.todo) = <<n>>
<1>1. q.todo = <<>> => Todo(q) = {}
  BY DEF Todo
<1>2. ASSUME NEW m, q.todo = <<m>>
      PROVE  Todo(q) = {m} /\ Head(q.todo) = m /\ Tail(q.todo) = <<>>
  <2>1. DOMAIN q.todo = {1} /\ q.todo[1] = m
    BY <1>2
  <2>2. Head(q.todo) = m /\ Tail(q.todo) = <<>>
    BY <1>2
  <2> QED BY <2>1, <2>2 DEF Todo
<1>3. ASSUME NEW m, NEW n, q.todo = <<m, n>>
      PROVE  Todo(q) = {m, n} /\ Head(q.todo) = m /\ Tail(q.todo) = <<n>>
  <2>1. DOMAIN q.todo = {1, 2} /\ q.todo[1] = m /\ q.todo[2] = n
    BY <1>3
  <2>2. Head(q.todo) = m /\ Tail(q.todo) = <<n>>
    BY <1>3
  <2> QED BY <2>1, <2>2 DEF Todo
<1> QED BY <1>1, <1>2, <1>3

LEMMA NothingPends ==
    ASSUME NEW q, q.todo = <<>>, q.pc \notin AppendSteps
    PROVE  Pending(q) = {}
  BY TodoIs DEF Pending

LEMMA NoRequestPends ==
    ASSUME kind \in {"memory", "list", "hybrid", "minio"}
    PROVE  Request(Messages!NoRequest) /\ Pending(Messages!NoRequest) = {}
<1>1. "idle" \notin Senders /\ "idle" \notin AppendSteps
  BY StepsAre
<1>2. Request(Messages!NoRequest)
  BY <1>1, NoRequestIs DEF Request
<1> QED BY <1>1, <1>2, NoRequestIs, NothingPends

\* What a request becomes; the others stay.
LEMMA RequestBecomes ==
    ASSUME MessageTypes, NEW r \in Requests, NEW q, Request(q), Messages!Becomes(r, q), kind' = kind
    PROVE  /\ DOMAIN requests' = Requests /\ requests'[r] = q
           /\ \A s \in Requests \ {r} : requests'[s] = requests[s]
           /\ \A s \in Requests : Request(requests[s])'
<1>1. /\ DOMAIN requests' = Requests /\ requests'[r] = q
      /\ \A s \in Requests \ {r} : requests'[s] = requests[s]
  BY DEF MessageTypes, Messages!Becomes
<1>2. ASSUME NEW s \in Requests PROVE Request(requests[s])'
  <2>1. Request(requests'[s])
    BY <1>1 DEF MessageTypes
  <2> QED BY <2>1 DEF Request, Senders, AppendSteps, Todo
<1> QED BY <1>1, <1>2

\* A request has taken no key.
HasNoKey(q) ==
    /\ q.pc \notin {"bumped", "put"}
    /\ q.pc = "name" => kind = "hybrid"
    /\ q.pc = "insert" => q.key = 0

\* What a request becomes appends nothing that it was not to append, or that is not new, and what it
\* appends from now on comes behind what is acknowledged.
GoesOnWith(r, q) ==
    /\ \A m \in Pending(q) : m \in AllMessages /\ m.n < begun' /\ (m \in Pending(requests[r]) \/ ~(m.n < begun))
    /\ q.pc \in AppendSteps => \/ q.before = requests[r].before /\ requests[r].pc \in AppendSteps
                               \/ q.before = {a.msg : a \in acked}

\* A step of a request that adds nothing to the history.
LEMMA SameHistory ==
    ASSUME MessageTypes, MessagesAreNew, InOrder, NEW r \in Requests, NEW q, kind' = kind,
           begun' \in Nat, begun <= begun', requests'[r] = q, \A s \in Requests \ {r} : requests'[s] = requests[s],
           GoesOnWith(r, q), acked' = acked, Places' = Places, \A i \in Places : At(i)' = At(i)
    PROVE  MessagesAreNew' /\ InOrder'
<1>0. AppendSteps' = AppendSteps /\ \A s \in Requests : Pending(requests[s])' = Pending(requests'[s])
  BY DEF AppendSteps, Pending, Todo
<1>1. \A m \in AllMessages : m.n < begun => m.n < begun'
  BY DEF AllMessages, MessageTypes
<1>2. \A s \in Requests \ {r} : \A m \in Pending(requests'[s]) :
         m \in AllMessages /\ m.n < begun /\ \A i \in Places : At(i) # m
  BY DEF MessagesAreNew
<1>3. \A m \in Pending(requests'[r]) : /\ m \in AllMessages /\ m.n < begun' /\ \A i \in Places : At(i) # m
                                       /\ \A s \in Requests \ {r} : m \notin Pending(requests'[s])
  <2>1. ASSUME NEW m \in Pending(q) PROVE \A i \in Places : At(i) # m
    BY DEF MessagesAreNew, GoesOnWith
  <2>2. ASSUME NEW m \in Pending(q), NEW s \in Requests \ {r} PROVE m \notin Pending(requests'[s])
    BY DEF MessagesAreNew, GoesOnWith
  <2> QED BY <2>1, <2>2 DEF GoesOnWith
<1>4. MessagesAreNew'
  <2>1. (\A i \in Places : At(i) \in AllMessages /\ At(i).n < begun)'
    BY <1>1 DEF MessagesAreNew, AllMessages
  <2>2. (\A i, j \in Places : At(i) = At(j) => i = j)'
    BY DEF MessagesAreNew
  <2>3. ASSUME NEW s \in Requests, NEW m \in Pending(requests'[s])
        PROVE  m \in AllMessages /\ m.n < begun' /\ \A i \in Places : At(i) # m
    BY <1>1, <1>2, <1>3
  <2>4. ASSUME NEW s \in Requests, NEW t \in Requests, s # t
        PROVE  Pending(requests'[s]) \intersect Pending(requests'[t]) = {}
    BY <1>3, <2>4 DEF MessagesAreNew
  <2> QED BY <1>0, <2>1, <2>2, <2>3, <2>4 DEF MessagesAreNew, AllMessages
<1>5. InOrder'
  BY <1>0 DEF InOrder, GoesOnWith
<1> QED BY <1>4, <1>5

\* A step of a request that adds what it appends at the end of the history.
LEMMA NewPlace ==
    ASSUME MessageTypes, MessagesAreNew, InOrder, NEW r \in Requests, NEW q, kind' = kind, begun' = begun,
           requests'[r] = q, \A s \in Requests \ {r} : requests'[s] = requests[s],
           requests[r].pc \in AppendSteps, Pending(q) \subseteq Todo(requests[r]), q.pc \notin AppendSteps,
           NEW p, Places' = Places \union {p}, At(p)' = requests[r].msg,
           \A i \in Places : i < p /\ ~(p < i) /\ i # p /\ At(i)' = At(i),
           \/ acked' = acked
           \/ acked' = acked \union {[msg |-> requests[r].msg, before |-> requests[r].before]}
    PROVE  MessagesAreNew' /\ InOrder'
<1>. DEFINE m == requests[r].msg
<1>0. AppendSteps' = AppendSteps /\ \A s \in Requests : Pending(requests[s])' = Pending(requests'[s])
  BY DEF AppendSteps, Pending, Todo
<1>1. m \in Pending(requests[r]) /\ m \notin Todo(requests[r]) /\ Todo(requests[r]) \subseteq Pending(requests[r])
  BY DEF MessageTypes, Request, Pending
<1>2. m \in AllMessages /\ m.n < begun /\ \A i \in Places : At(i) # m
  BY <1>1 DEF MessagesAreNew
<1>3. \A s \in Requests : \A k \in Pending(requests'[s]) : k \in Pending(requests[s]) /\ k # m
  BY <1>1 DEF MessagesAreNew
<1>4. MessagesAreNew'
  <2>1. (\A i \in Places : At(i) \in AllMessages /\ At(i).n < begun)'
    <3>1. \A i \in Places : At(i)' \in AllMessages /\ At(i)'.n < begun
      BY DEF MessagesAreNew
    <3> QED BY <3>1, <1>2 DEF AllMessages
  <2>2. (\A i, j \in Places : At(i) = At(j) => i = j)'
    BY <1>2 DEF MessagesAreNew
  <2>3. ASSUME NEW s \in Requests, NEW k \in Pending(requests'[s])
        PROVE  k \in AllMessages /\ k.n < begun' /\ \A i \in Places' : At(i)' # k
    BY <1>3 DEF MessagesAreNew
  <2>4. ASSUME NEW s \in Requests, NEW t \in Requests, s # t
        PROVE  Pending(requests'[s]) \intersect Pending(requests'[t]) = {}
    BY <1>3, <2>4 DEF MessagesAreNew
  <2> QED BY <1>0, <2>1, <2>2, <2>3, <2>4 DEF MessagesAreNew, AllMessages
<1>5. ASSUME NEW a \in acked'
      PROVE  \E j \in Places' : At(j)' = a.msg /\ \A k \in a.before : \E i \in Places' : At(i)' = k /\ i < j
  <2>1. CASE a \in acked
    BY <2>1 DEF InOrder
  <2>2. CASE a = [msg |-> requests[r].msg, before |-> requests[r].before]
    <3>1. a.msg = m /\ a.before = requests[r].before
      BY <2>2
    <3>2. ASSUME NEW k \in a.before PROVE \E i \in Places' : At(i)' = k /\ i < p
      <4>1. PICK b \in acked : b.msg = k
        BY <3>1 DEF InOrder
      <4>2. PICK i \in Places : At(i) = k
        BY <4>1 DEF InOrder
      <4> QED BY <4>2
    <3> QED BY <3>1, <3>2
  <2> QED BY <2>1, <2>2
<1>6. ASSUME NEW s \in Requests, requests'[s].pc \in AppendSteps, NEW k \in requests'[s].before
      PROVE  \E a \in acked' : a.msg = k
  BY <1>6 DEF InOrder
<1>7. InOrder'
  BY <1>0, <1>5, <1>6 DEF InOrder
<1> QED BY <1>4, <1>7

\* Keys, for a step of a request that has none afterwards.
LEMMA NoKeyTaken ==
    ASSUME MessageTypes, KeysAreNew, NEW r \in Requests, NEW q, kind' = kind, requests'[r] = q,
           \A s \in Requests \ {r} : requests'[s] = requests[s], HasNoKey(q), 
           UNCHANGED <<rows, objs, seq, current>>
    PROVE  KeysAreNew'
<1>0. rows' = rows /\ objs' = objs /\ seq' = seq /\ current' = current
  OBVIOUS
<1>1. \A s \in Requests : Messages!Process(s)' = CHOOSE p \in requests'[s].process : TRUE
  BY DEF Messages!Process
<1>2. \A s \in Requests \ {r} : Messages!Process(s)' = Messages!Process(s)
  BY DEF Messages!Process
<1>3. (kind = "minio" => q.pc \notin Naming \/ q.pc = "name") /\ q.pc # "put" /\ q.pc # "bumped"
      /\ (q.pc = "insert" => q.key = 0) /\ (q.pc = "name" => kind = "hybrid")
  BY DEF HasNoKey, Naming
<1>4. CASE kind = "hybrid"
  BY <1>0, <1>2, <1>3, <1>4 DEF KeysAreNew
<1>5. CASE kind = "minio"
  <2>1. q.pc \notin Naming
    BY <1>3, <1>5 DEF Naming
  <2>2. ASSUME NEW s \in Requests, requests'[s].pc \in Naming
        PROVE  s # r /\ requests'[s] = requests[s] /\ Messages!Process(s)' = Messages!Process(s)
    BY <2>1, <2>2, <1>2
  <2>3. (\A s, t \in Requests : requests[s].pc \in Naming /\ requests[t].pc \in Naming => s = t)'
    BY <2>2, <1>5 DEF KeysAreNew, Naming
  <2>4. ASSUME NEW s \in Requests, requests'[s].pc \in Naming
        PROVE  /\ Messages!Process(s) \in current
               /\ requests[s].pc = "bumped" => requests[s].loaded = seq[Messages!Process(s)]
               /\ requests[s].pc = "name" => \A k \in DOMAIN objs : k < seq[Messages!Process(s)]
               /\ requests[s].pc = "put" => /\ requests[s].key = seq[Messages!Process(s)]
                                            /\ \A k \in DOMAIN objs : k < requests[s].key
    BY <2>2, <2>4, <1>5 DEF KeysAreNew
  <2> QED BY <1>0, <1>5, <2>2, <2>3, <2>4 DEF KeysAreNew, Naming
<1>6. CASE kind \in {"memory", "list"}
  BY <1>0, <1>6 DEF KeysAreNew
<1> QED BY <1>4, <1>5, <1>6 DEF MessageTypes

LEMMA QuietRequest ==
    ASSUME MessagesInv, NEW r \in Requests, NEW q, Request(q), Messages!Becomes(r, q),
           UNCHANGED <<kind, rows, objs, seq, acked, current>>, begun' \in Nat, begun <= begun',
           ~careless' => ~careless /\ GoesOnWith(r, q), HasNoKey(q)
    PROVE  MessagesInv'
<1>0. kind' = kind /\ rows' = rows /\ objs' = objs /\ seq' = seq /\ acked' = acked /\ current' = current
  OBVIOUS
<1>1. /\ DOMAIN requests' = Requests /\ requests'[r] = q
      /\ \A s \in Requests \ {r} : requests'[s] = requests[s]
      /\ \A s \in Requests : Request(requests[s])'
  BY <1>0, RequestBecomes DEF MessagesInv
<1>2. MessageTypes'
  BY <1>0, <1>1 DEF MessagesInv, MessageTypes, AllRows, AllMessages
<1>3. Places' = Places /\ \A i \in Places : At(i)' = At(i)
  BY <1>0 DEF Places, At, Messages!Fetched
<1>4. ASSUME ~careless' PROVE MessagesAreNew' /\ KeysAreNew' /\ InOrder'
  BY <1>0, <1>1, <1>3, <1>4, SameHistory, NoKeyTaken DEF MessagesInv
<1> QED BY <1>2, <1>4 DEF MessagesInv

\* A request begins.
LEMMA StartStep ==
    ASSUME MessagesInv, NEW r \in Requests, NEW pc \in {"append", "list"}, NEW todo, NEW q0,
           DOMAIN q0 = RequestFields, q0.pc = pc, q0.todo = todo, q0.key = 0, q0.loaded = 0,
           \/ pc = "list" /\ todo = <<>>
           \/ pc = "append" /\ \E m \in AllMessages : todo = <<m>> /\ m.n = begun
           \/ pc = "append" /\ \E m, n \in AllMessages : m # n /\ todo = <<m, n>> /\ m.n = begun /\ n.n = begun,
           Messages!Start(r, q0)
    PROVE  MessagesInv'
<1>1. PICK p \in IF kind = "memory" \/ q0.pc = "list" THEN {Messages!Home} ELSE Processes :
         Messages!Becomes(r, [q0 EXCEPT !.process = {p}])
  BY DEF Messages!Start
<1>2. PICK q : q = [q0 EXCEPT !.process = {p}]
  OBVIOUS
<1>3. DOMAIN q = RequestFields /\ q.pc = pc /\ q.todo = todo /\ q.key = 0 /\ q.loaded = 0 /\ q.process = {p}
  BY <1>2 DEF RequestFields
<1>4. MessageTypes
  BY DEF MessagesInv
<1>5. pc \notin AppendSteps /\ (pc \in Senders <=> pc = "append")
  BY <1>4, StepsAre DEF MessageTypes
<1>6. Request(q)
  <2>1. pc = "append" => p \in IF kind = "memory" THEN {Messages!Home} ELSE Processes
    BY <1>3
  <2> QED BY <1>3, <1>5, <2>1 DEF Request
<1>7. /\ UNCHANGED <<kind, rows, objs, seq, acked, current>> /\ begun' = begun + 1 /\ careless' = careless
      /\ begun \in Nat
  BY <1>4 DEF Messages!Start, MessageTypes
<1>8. \A m \in Pending(q) : m \in AllMessages /\ m.n = begun
  <2>1. Pending(q) = Todo(q)
    BY <1>3, <1>5 DEF Pending
  <2> QED BY <2>1, <1>3, TodoIs
<1>9. GoesOnWith(r, q)
  BY <1>3, <1>5, <1>7, <1>8 DEF GoesOnWith
<1>10. HasNoKey(q)
  BY <1>3 DEF HasNoKey
<1> QED BY <1>1, <1>2, <1>6, <1>7, <1>9, <1>10, QuietRequest

LEMMA MessageIs ==
    ASSUME NEW n \in Nat, NEW role \in {"user", "assistant"}, NEW part \in Parts \union {"text"}
    PROVE  /\ Messages!Message(n, role, part) \in AllMessages
           /\ Messages!Message(n, role, part).n = n /\ Messages!Message(n, role, part).role = role
  BY DEF Messages!Message, AllMessages

LEMMA InvokeStep ==
    ASSUME MessagesInv, NEW r \in Requests,
           Messages!Invoke(r) \/ Messages!AppendMedia(r) \/ Messages!Read(r)
    PROVE  MessagesInv'
<1>0. begun \in Nat
  BY DEF MessagesInv, MessageTypes
<1>1. CASE Messages!Invoke(r)
  <2>1. PICK m : m = Messages!Message(begun, "user", "text")
    OBVIOUS
  <2>2. PICK n : n = Messages!Message(begun, "assistant", "text")
    OBVIOUS
  <2>3. m \in AllMessages /\ n \in AllMessages /\ m # n /\ m.n = begun /\ n.n = begun
    BY <1>0, <2>1, <2>2, MessageIs
  <2>4. PICK q0 : q0 = [Messages!NoRequest EXCEPT !.pc = "append", !.todo = <<m, n>>]
    OBVIOUS
  <2>5. DOMAIN q0 = RequestFields /\ q0.pc = "append" /\ q0.todo = <<m, n>> /\ q0.key = 0 /\ q0.loaded = 0
    BY <2>4, NoRequestIs DEF RequestFields
  <2>6. Messages!Start(r, q0)
    BY <1>1, <2>1, <2>2, <2>4 DEF Messages!Invoke
  <2> QED BY <2>3, <2>5, <2>6, StartStep
<1>2. CASE Messages!AppendMedia(r)
  <2>1. PICK part \in Parts :
           Messages!Start(r, [Messages!NoRequest EXCEPT !.pc = "append", !.todo = <<Messages!Message(begun, "user", part)>>])
    BY <1>2 DEF Messages!AppendMedia
  <2>2. PICK m : m = Messages!Message(begun, "user", part)
    OBVIOUS
  <2>3. m \in AllMessages /\ m.n = begun
    BY <1>0, <2>2, MessageIs
  <2>4. PICK q0 : q0 = [Messages!NoRequest EXCEPT !.pc = "append", !.todo = <<m>>]
    OBVIOUS
  <2>5. DOMAIN q0 = RequestFields /\ q0.pc = "append" /\ q0.todo = <<m>> /\ q0.key = 0 /\ q0.loaded = 0
    BY <2>4, NoRequestIs DEF RequestFields
  <2>6. Messages!Start(r, q0)
    BY <2>1, <2>2, <2>4
  <2> QED BY <2>3, <2>5, <2>6, StartStep
<1>3. CASE Messages!Read(r)
  <2>1. PICK b \in Budgets : Messages!Start(r, [Messages!NoRequest EXCEPT !.pc = "list", !.budget = b])
    BY <1>3 DEF Messages!Read
  <2>2. PICK q0 : q0 = [Messages!NoRequest EXCEPT !.pc = "list", !.budget = b]
    OBVIOUS
  <2>3. DOMAIN q0 = RequestFields /\ q0.pc = "list" /\ q0.todo = <<>> /\ q0.key = 0 /\ q0.loaded = 0
    BY <2>2, NoRequestIs DEF RequestFields
  <2> QED BY <2>1, <2>2, <2>3, StartStep
<1> QED BY <1>1, <1>2, <1>3

\* Steps of a reader.
LEMMA ReaderStep ==
    ASSUME MessagesInv, NEW r \in Requests,
           Messages!EndRequest(r) \/ Messages!ListMessages(r) \/ Messages!Get(r) \/ Messages!Cut(r) \/ Messages!FailRead(r)
    PROVE  MessagesInv'
<1>0. MessageTypes /\ Request(requests[r]) /\ kind \in {"memory", "list", "hybrid", "minio"}
  BY DEF MessagesInv, MessageTypes
<1>1. requests[r].pc \in {"list", "get", "answered"} /\ DOMAIN requests[r] = RequestFields
  BY <1>0 DEF Messages!EndRequest, Messages!ListMessages, Messages!Get, Messages!Cut, Messages!FailRead, Request
<1>2. UNCHANGED <<kind, rows, objs, seq, acked, current, begun, careless>>
  BY DEF Messages!EndRequest, Messages!ListMessages, Messages!Get, Messages!Cut, Messages!FailRead
<1>3. requests[r].todo = <<>>
  BY <1>0, <1>1, StepsAre DEF Request
<1>4. ASSUME NEW q, Messages!Becomes(r, q), DOMAIN q = RequestFields,
             q.pc \in {"idle", "get", "answered"}, q.todo = <<>>, q.key \in Nat, q.loaded \in Nat
      PROVE  MessagesInv'
  <2>1. q.pc \notin AppendSteps /\ q.pc \notin Senders
    BY <1>0, <1>4, StepsAre
  <2>2. Request(q) /\ Pending(q) = {}
    BY <1>4, <2>1, NothingPends DEF Request
  <2>3. GoesOnWith(r, q) /\ HasNoKey(q)
    BY <1>4, <2>1, <2>2 DEF GoesOnWith, HasNoKey
  <2>4. begun' \in Nat /\ begun <= begun' /\ (~careless' => ~careless)
    BY <1>0, <1>2 DEF MessageTypes
  <2> QED BY <1>2, <1>4, <2>2, <2>3, <2>4, QuietRequest
<1>5. CASE Messages!Becomes(r, Messages!NoRequest)
  BY <1>4, <1>5, NoRequestIs
<1>6. requests[r].key \in Nat /\ requests[r].loaded \in Nat
  BY <1>0 DEF Request
<1>7. CASE Messages!ListMessages(r)
  <2>1. PICK h, g : Messages!Becomes(r, [requests[r] EXCEPT !.pc = "get", !.snapshot = h, !.got = g])
    BY <1>7 DEF Messages!ListMessages
  <2>2. PICK q : q = [requests[r] EXCEPT !.pc = "get", !.snapshot = h, !.got = g]
    OBVIOUS
  <2>3. DOMAIN q = RequestFields /\ q.pc = "get" /\ q.todo = <<>> /\ q.key = requests[r].key
        /\ q.loaded = requests[r].loaded
    BY <1>1, <1>3, <2>2 DEF RequestFields
  <2> QED BY <1>4, <1>6, <2>1, <2>2, <2>3
<1>8. CASE Messages!Get(r)
  <2>1. PICK q : q = [requests[r] EXCEPT !.at = @ + 1, !.got[requests[r].at].msg = Messages!Fetched(requests[r].got[requests[r].at])]
    OBVIOUS
  <2>2. DOMAIN q = RequestFields /\ q.pc = "get" /\ q.todo = <<>> /\ q.key = requests[r].key
        /\ q.loaded = requests[r].loaded
    BY <1>1, <1>3, <1>8, <2>1 DEF RequestFields, Messages!Get
  <2>3. Messages!Becomes(r, q)
    BY <1>8, <2>1 DEF Messages!Get
  <2> QED BY <1>4, <1>6, <2>2, <2>3
<1>9. CASE Messages!Cut(r)
  <2>1. PICK g : Messages!Becomes(r, [requests[r] EXCEPT !.pc = "answered", !.got = g])
    BY <1>9 DEF Messages!Cut
  <2>2. PICK q : q = [requests[r] EXCEPT !.pc = "answered", !.got = g]
    OBVIOUS
  <2>3. DOMAIN q = RequestFields /\ q.pc = "answered" /\ q.todo = <<>> /\ q.key = requests[r].key
        /\ q.loaded = requests[r].loaded
    BY <1>1, <1>3, <2>2 DEF RequestFields
  <2> QED BY <1>4, <1>6, <2>1, <2>2, <2>3
<1> QED BY <1>5, <1>7, <1>8, <1>9 DEF Messages!EndRequest, Messages!FailRead

\* An append begins: it is to come behind what is acknowledged by now.
LEMMA BeginAppendStep ==
    ASSUME MessagesInv, NEW r \in Requests, Messages!BeginAppend(r)
    PROVE  MessagesInv'
<1>0. MessageTypes /\ Request(requests[r]) /\ kind \in {"memory", "list", "hybrid", "minio"}
      /\ DOMAIN requests[r] = RequestFields /\ requests[r].pc = "append" /\ begun \in Nat
  BY DEF MessagesInv, MessageTypes, Messages!BeginAppend, Request
<1>1. PICK m : m = Head(requests[r].todo)
  OBVIOUS
<1>2. PICK pc : pc = IF kind = "minio" THEN "bump"
                     ELSE IF kind = "hybrid" /\ Messages!HasMedia(m) THEN "name" ELSE "insert"
  OBVIOUS
<1>3. PICK before : before = {a.msg : a \in acked}
  OBVIOUS
<1>4. PICK q : q = [requests[r] EXCEPT !.msg = m, !.todo = Tail(@), !.before = before, !.pc = pc]
  OBVIOUS
<1>5. /\ DOMAIN q = RequestFields /\ q.pc = pc /\ q.msg = m /\ q.todo = Tail(requests[r].todo) /\ q.before = before
      /\ q.key = requests[r].key /\ q.loaded = requests[r].loaded /\ q.process = requests[r].process
  BY <1>0, <1>4 DEF RequestFields
<1>6. Messages!Becomes(r, q)
  BY <1>1, <1>2, <1>3, <1>4 DEF Messages!BeginAppend
<1>7. pc \in AppendSteps /\ (pc = "name" => kind = "hybrid") /\ pc \notin {"bumped", "put"}
  BY <1>0, <1>2, StepsAre
<1>8. /\ m \in AllMessages /\ m \in Todo(requests[r]) /\ m \notin Todo(q) /\ Todo(q) \subseteq Todo(requests[r])
      /\ q.todo = <<>> \/ \E n \in AllMessages : q.todo = <<n>>
  <2>1. CASE \E k \in AllMessages : requests[r].todo = <<k>>
    BY <2>1, <1>1, <1>5, TodoIs
  <2>2. CASE \E k, n \in AllMessages : k # n /\ requests[r].todo = <<k, n>>
    BY <2>2, <1>1, <1>5, TodoIs
  <2> QED BY <2>1, <2>2, <1>0 DEF Request
<1>9. Request(q)
  <2>1. \E p \in IF kind = "memory" THEN {Messages!Home} ELSE Processes : q.process = {p}
    BY <1>0, <1>5, StepsAre DEF Request
  <2>2. q.key \in Nat /\ q.loaded \in Nat /\ q.key = 0
    BY <1>0, <1>5 DEF Request
  <2> QED BY <2>1, <2>2, <1>0, <1>5, <1>7, <1>8, StepsAre DEF Request
<1>10. ASSUME ~careless PROVE GoesOnWith(r, q)
  <2>1. Pending(q) \subseteq Pending(requests[r])
    BY <1>5, <1>8 DEF Pending
  <2>2. begun' = begun
    BY DEF Messages!BeginAppend
  <2>3. MessagesAreNew
    BY <1>10 DEF MessagesInv
  <2> QED BY <1>3, <1>5, <2>1, <2>2, <2>3 DEF MessagesAreNew, GoesOnWith
<1>11. HasNoKey(q)
  BY <1>0, <1>5, <1>7 DEF HasNoKey, Request
<1> QED BY <1>0, <1>6, <1>9, <1>10, <1>11, QuietRequest DEF Messages!BeginAppend

\* A step between the beginning of an append and its end, with the same message.
LEMMA AppendGoesOn ==
    ASSUME MessagesInv, ~careless, kind' = kind, begun' = begun, NEW r \in Requests, requests[r].pc \in AppendSteps, NEW q,
           q.pc \in AppendSteps, q.todo = requests[r].todo, q.msg = requests[r].msg, q.before = requests[r].before
    PROVE  GoesOnWith(r, q)
<1>1. Todo(q) = Todo(requests[r])
  BY DEF Todo
<1>2. Pending(q) = Pending(requests[r])
  BY <1>1 DEF Pending
<1> QED BY <1>2 DEF MessagesInv, MessagesAreNew, GoesOnWith

\* Such a step, up to its key.
LEMMA NamingStep ==
    ASSUME MessagesInv, NEW r \in Requests, requests[r].pc \in AppendSteps \ {"insert"}, NEW q,
           Messages!Becomes(r, q), DOMAIN q = RequestFields,
           q.pc \in AppendSteps \ {"insert"}, q.todo = requests[r].todo, q.msg = requests[r].msg,
           q.before = requests[r].before, q.process = requests[r].process, q.key \in Nat, q.loaded \in Nat,
           seq' \in [Processes -> Nat], UNCHANGED <<kind, rows, objs, begun, acked, current>>, ~careless' => ~careless,
           ~careless' => KeysAreNew'
    PROVE  MessagesInv'
<1>0. /\ kind' = kind /\ rows' = rows /\ objs' = objs /\ begun' = begun /\ acked' = acked
      /\ MessageTypes /\ Request(requests[r]) /\ kind \in {"memory", "list", "hybrid", "minio"} /\ begun \in Nat
  BY DEF MessagesInv, MessageTypes
<1>1. q.pc \notin {"idle", "list", "get", "answered", "append"} /\ q.pc \in Senders
      /\ requests[r].pc \notin {"idle", "list", "get", "answered", "append"} /\ requests[r].pc \in Senders
  BY <1>0, StepsAre
<1>2. Request(q)
  <2>1. Todo(q) = Todo(requests[r])
    BY DEF Todo
  <2> QED BY <1>0, <1>1, <2>1 DEF Request
<1>3. /\ DOMAIN requests' = Requests /\ requests'[r] = q
      /\ \A s \in Requests \ {r} : requests'[s] = requests[s]
      /\ \A s \in Requests : Request(requests[s])'
  BY <1>0, <1>2, RequestBecomes
<1>4. MessageTypes'
  BY <1>0, <1>3 DEF MessageTypes, AllRows, AllMessages
<1>5. Places' = Places /\ \A i \in Places : At(i)' = At(i)
  BY <1>0 DEF Places, At, Messages!Fetched
<1>6. ASSUME ~careless' PROVE MessagesAreNew' /\ InOrder'
  <2>1. GoesOnWith(r, q)
    BY <1>0, <1>6, AppendGoesOn
  <2> QED BY <1>0, <1>3, <1>5, <1>6, <2>1, SameHistory DEF MessagesInv
<1> QED BY <1>4, <1>6 DEF MessagesInv

LEMMA ProcessIs ==
    ASSUME NEW r \in Requests, Request(requests[r]), requests[r].pc \in Senders
    PROVE  /\ requests[r].process = {Messages!Process(r)}
           /\ Messages!Process(r) \in IF kind = "memory" THEN {Messages!Home} ELSE Processes
  BY DEF Request, Messages!Process

LEMMA LoadSeqStep ==
    ASSUME MessagesInv, NEW r \in Requests, Messages!LoadSeq(r)
    PROVE  MessagesInv'
<1>. DEFINE p == Messages!Process(r)
<1>0. /\ MessageTypes /\ Request(requests[r]) /\ kind = "minio" /\ requests[r].pc = "bump"
      /\ AppendSteps = {"bump", "bumped", "name", "put"} /\ Senders = {"append"} \union AppendSteps
      /\ DOMAIN requests[r] = RequestFields
  <2>1. MessageTypes /\ Request(requests[r]) /\ kind \in {"memory", "list", "hybrid", "minio"} /\ requests[r].pc = "bump"
    BY DEF MessagesInv, MessageTypes, Messages!LoadSeq
  <2>2. kind = "minio"
    BY <2>1, StepsAre DEF Request
  <2> QED BY <2>1, <2>2, StepsAre DEF Request
<1>1. p \in Processes /\ seq[p] \in Nat
  BY <1>0, ProcessIs DEF MessageTypes
<1>2. PICK q : q = [requests[r] EXCEPT !.pc = "bumped", !.loaded = seq[p]]
  OBVIOUS
<1>3. /\ DOMAIN q = RequestFields /\ q.pc = "bumped" /\ q.loaded = seq[p] /\ q.todo = requests[r].todo
      /\ q.msg = requests[r].msg /\ q.before = requests[r].before /\ q.process = requests[r].process
      /\ q.key = requests[r].key
  BY <1>0, <1>2 DEF RequestFields
<1>4. /\ Messages!Becomes(r, q) /\ kind' = kind /\ rows' = rows /\ objs' = objs /\ seq' = seq /\ begun' = begun
      /\ acked' = acked /\ current' = current /\ careless' = (careless \/ ~Messages!Careful(r))
  BY <1>2 DEF Messages!LoadSeq
<1>5. ASSUME ~careless' PROVE KeysAreNew'
  <2>1. KeysAreNew /\ p \in current
    BY <1>4, <1>5 DEF MessagesInv, Messages!Careful
  <2>2. ASSUME NEW s \in Requests \ {r} PROVE requests[s].pc \notin Naming
    BY <1>0, <1>4, <1>5 DEF Messages!Careful, Messages!Alone, Naming
  <2>3. requests'[r] = q /\ \A s \in Requests \ {r} : requests'[s] = requests[s]
    BY <1>4 DEF MessagesInv, MessageTypes, Messages!Becomes
  <2>4. p' = p
    BY <1>3, <2>3 DEF Messages!Process
  <2>5. \A s \in Requests : requests'[s].pc \in Naming => s = r
    BY <2>2, <2>3
  <2> QED BY <1>0, <1>3, <1>4, <2>1, <2>3, <2>4, <2>5 DEF KeysAreNew, Naming
<1> QED BY <1>0, <1>1, <1>3, <1>4, <1>5, NamingStep DEF Request, MessageTypes

LEMMA StoreSeqStep ==
    ASSUME MessagesInv, NEW r \in Requests, Messages!StoreSeq(r)
    PROVE  MessagesInv'
<1>. DEFINE p == Messages!Process(r)
            n == requests[r].loaded + 1
<1>0. /\ MessageTypes /\ Request(requests[r]) /\ kind = "minio" /\ requests[r].pc = "bumped"
      /\ AppendSteps = {"bump", "bumped", "name", "put"} /\ Senders = {"append"} \union AppendSteps
      /\ DOMAIN requests[r] = RequestFields /\ requests[r].loaded \in Nat
  <2>1. MessageTypes /\ Request(requests[r]) /\ kind \in {"memory", "list", "hybrid", "minio"} /\ requests[r].pc = "bumped"
    BY DEF MessagesInv, MessageTypes, Messages!StoreSeq
  <2>2. kind = "minio"
    BY <2>1, StepsAre DEF Request
  <2> QED BY <2>1, <2>2, StepsAre DEF Request
<1>1. p \in Processes /\ seq \in [Processes -> Nat]
  BY <1>0, ProcessIs DEF MessageTypes
<1>2. PICK q : q = [requests[r] EXCEPT !.pc = "name"]
  OBVIOUS
<1>3. /\ DOMAIN q = RequestFields /\ q.pc = "name" /\ q.loaded = requests[r].loaded /\ q.todo = requests[r].todo
      /\ q.msg = requests[r].msg /\ q.before = requests[r].before /\ q.process = requests[r].process
      /\ q.key = requests[r].key
  BY <1>0, <1>2 DEF RequestFields
<1>4. /\ Messages!Becomes(r, q) /\ kind' = kind /\ rows' = rows /\ objs' = objs /\ begun' = begun
      /\ acked' = acked /\ current' = current /\ careless' = careless /\ seq' = [seq EXCEPT ![p] = n]
  BY <1>2 DEF Messages!StoreSeq
<1>5. /\ seq' \in [Processes -> Nat] /\ seq'[p] = n /\ \A u \in Processes \ {p} : seq'[u] = seq[u]
  BY <1>0, <1>1, <1>4
<1>6. ASSUME ~careless' PROVE KeysAreNew'
  <2>1. KeysAreNew /\ p \in current
    BY <1>0, <1>4, <1>6 DEF MessagesInv, KeysAreNew, Naming
  <2>2. ASSUME NEW s \in Requests \ {r} PROVE requests[s].pc \notin Naming
    BY <1>0, <2>1 DEF KeysAreNew, Naming
  <2>3. requests'[r] = q /\ \A s \in Requests \ {r} : requests'[s] = requests[s]
    BY <1>4 DEF MessagesInv, MessageTypes, Messages!Becomes
  <2>4. p' = p
    BY <1>3, <2>3 DEF Messages!Process
  <2>5. \A s \in Requests : requests'[s].pc \in Naming => s = r
    BY <2>2, <2>3
  <2>6. \A k \in DOMAIN objs : k <= seq[p] /\ k \in Nat
    BY <1>0, <2>1 DEF KeysAreNew, MessageTypes
  <2>7. requests[r].loaded = seq[p]
    BY <1>0, <2>1 DEF KeysAreNew
  <2>8. \A k \in DOMAIN objs : k < n /\ k <= n
    BY <1>0, <2>6, <2>7
  <2>9. \A u \in current : \A k \in DOMAIN objs : k <= seq'[u]
    BY <1>5, <2>1, <2>8 DEF KeysAreNew
  <2>10. current \subseteq Processes
    BY <2>1 DEF KeysAreNew
  <2> QED BY <1>0, <1>3, <1>4, <1>5, <2>1, <2>3, <2>4, <2>5, <2>8, <2>9, <2>10 DEF KeysAreNew, Naming
<1> QED BY <1>0, <1>3, <1>4, <1>5, <1>6, NamingStep DEF Request, MessageTypes

LEMMA NameStep ==
    ASSUME MessagesInv, NEW r \in Requests, Messages!Name(r)
    PROVE  MessagesInv'
<1>. DEFINE p == Messages!Process(r)
<1>0. /\ MessageTypes /\ Request(requests[r]) /\ kind \in {"hybrid", "minio"} /\ requests[r].pc = "name"
      /\ {"name", "put"} \subseteq AppendSteps /\ Senders = {"append"} \union AppendSteps
      /\ DOMAIN requests[r] = RequestFields /\ requests[r].loaded \in Nat
  <2>1. MessageTypes /\ Request(requests[r]) /\ kind \in {"memory", "list", "hybrid", "minio"} /\ requests[r].pc = "name"
    BY DEF MessagesInv, MessageTypes, Messages!Name
  <2>2. kind \in {"hybrid", "minio"}
    BY <2>1, StepsAre DEF Request
  <2> QED BY <2>1, <2>2, StepsAre DEF Request
<1>1. p \in Processes /\ seq \in [Processes -> Nat]
  BY <1>0, ProcessIs DEF MessageTypes
<1>2. seq' = (IF kind = "hybrid" THEN [seq EXCEPT ![p] = @ + 1] ELSE seq)
  BY DEF Messages!Name
<1>3. PICK q : q = [requests[r] EXCEPT !.pc = "put", !.key = IF kind = "hybrid" THEN seq'[p] ELSE seq[p]]
  OBVIOUS
<1>4. /\ DOMAIN q = RequestFields /\ q.pc = "put" /\ q.loaded = requests[r].loaded /\ q.todo = requests[r].todo
      /\ q.msg = requests[r].msg /\ q.before = requests[r].before /\ q.process = requests[r].process
      /\ q.key = IF kind = "hybrid" THEN seq'[p] ELSE seq[p]
  BY <1>0, <1>3 DEF RequestFields
<1>5. /\ Messages!Becomes(r, q) /\ kind' = kind /\ rows' = rows /\ objs' = objs /\ begun' = begun
      /\ acked' = acked /\ current' = current /\ careless' = (careless \/ (kind = "hybrid" /\ ~Messages!Careful(r)))
  BY <1>3 DEF Messages!Name
<1>6. /\ seq' \in [Processes -> Nat] /\ q.key = seq'[p] /\ seq'[p] \in Nat
      /\ \A u \in Processes \ {p} : seq'[u] = seq[u]
      /\ seq'[p] = IF kind = "hybrid" THEN seq[p] + 1 ELSE seq[p]
  BY <1>1, <1>2, <1>4
<1>7. ASSUME ~careless' PROVE KeysAreNew'
  <2>1. KeysAreNew /\ current \subseteq Processes /\ \A k \in DOMAIN objs : k \in Nat
    BY <1>0, <1>5, <1>7 DEF MessagesInv, KeysAreNew, MessageTypes
  <2>2. p \in current
    BY <1>0, <1>5, <1>7, <2>1 DEF KeysAreNew, Naming, Messages!Careful
  <2>3. requests'[r] = q /\ \A s \in Requests \ {r} : requests'[s] = requests[s]
    BY <1>5 DEF MessagesInv, MessageTypes, Messages!Becomes
  <2>4. p' = p /\ \A s \in Requests : Messages!Process(s)' = Messages!Process(s)
    BY <1>4, <2>3 DEF Messages!Process
  <2>5. \A u \in current : \A k \in DOMAIN objs : k <= seq'[u]
    BY <1>1, <1>6, <2>1 DEF KeysAreNew
  <2>6. CASE kind = "minio"
    <3>1. \A s \in Requests : requests'[s].pc \in Naming => s = r
      BY <1>0, <2>1, <2>3, <2>6 DEF KeysAreNew, Naming
    <3>2. \A k \in DOMAIN objs : k < q.key
      BY <1>0, <1>6, <2>1, <2>6 DEF KeysAreNew
    <3> QED BY <1>4, <1>5, <1>6, <2>1, <2>2, <2>3, <2>4, <2>5, <2>6, <3>1, <3>2 DEF KeysAreNew, Naming
  <2>7. CASE kind = "hybrid"
    <3>1. q.key # 0 /\ q.key \notin DOMAIN objs /\ q.key <= seq'[p] /\ seq'[p] = seq[p] + 1 /\ seq[p] \in Nat
      BY <1>1, <1>6, <2>1, <2>2, <2>7 DEF KeysAreNew
    <3>2. ASSUME NEW s \in Requests \ {r}, requests[s].pc = "put"
          PROVE  /\ Messages!Process(s) = p /\ requests[s].key # q.key /\ requests[s].key <= seq'[p]
                 /\ p \in current /\ requests[s].key \notin DOMAIN objs /\ requests[s].key # 0
      <4>1. Messages!Process(s) = p
        BY <1>5, <1>7, <2>7, <3>2 DEF Messages!Careful, Messages!Alone
      <4>2. requests[s].key <= seq[p] /\ requests[s].key \notin DOMAIN objs /\ requests[s].key # 0
        BY <2>1, <2>7, <3>2, <4>1 DEF KeysAreNew
      <4>3. requests[s].key \in Nat
        BY DEF MessagesInv, MessageTypes, Request
      <4> QED BY <1>6, <2>2, <3>1, <4>1, <4>2, <4>3
    <3>3. (\A s, t \in Requests :
              requests[s].pc = "put" /\ requests[t].pc = "put" /\ s # t =>
                  Messages!Process(s) = Messages!Process(t) /\ requests[s].key # requests[t].key)'
      BY <1>4, <2>1, <2>3, <2>4, <2>7, <3>2 DEF KeysAreNew
    <3>4. ASSUME NEW s \in Requests, requests'[s].pc = "put"
          PROVE  /\ Messages!Process(s) \in current /\ requests'[s].key \notin DOMAIN objs
                 /\ requests'[s].key # 0 /\ requests'[s].key <= seq'[Messages!Process(s)]
      BY <2>2, <2>3, <3>1, <3>2, <3>4
    <3>5. ASSUME NEW s \in Requests, requests'[s].pc = "insert", requests'[s].key # 0
          PROVE  requests'[s].key \in DOMAIN objs /\ objs[requests'[s].key] = requests'[s].msg
      BY <1>4, <2>1, <2>3, <2>7, <3>5 DEF KeysAreNew
    <3>6. \A i \in DOMAIN rows : rows[i].key # 0 => rows[i].key \in DOMAIN objs
      BY <2>1, <2>7 DEF KeysAreNew
    <3> QED BY <1>5, <2>1, <2>4, <2>5, <2>7, <3>3, <3>4, <3>5, <3>6 DEF KeysAreNew
  <2> QED BY <1>0, <2>6, <2>7
<1> QED BY <1>0, <1>4, <1>5, <1>6, <1>7, NamingStep DEF Request, MessageTypes

\* After an append, successful or not, its request goes on with the next one.
LEMMA ContinuedIs ==
    ASSUME MessageTypes, NEW r \in Requests, requests[r].pc \in AppendSteps, NEW q, q = Messages!Continued(requests[r])
    PROVE  /\ Request(q) /\ Pending(q) \subseteq Todo(requests[r]) /\ q.pc \in {"idle", "append"} /\ HasNoKey(q)
           /\ q.pc \notin AppendSteps
<1>0. Request(requests[r]) /\ kind \in {"memory", "list", "hybrid", "minio"}
  BY DEF MessageTypes
<1>1. CASE requests[r].todo = <<>>
  <2>1. q = Messages!NoRequest
    BY <1>1 DEF Messages!Continued
  <2> QED BY <1>0, <2>1, NoRequestPends, NoRequestIs, StepsAre DEF HasNoKey
<1>2. CASE requests[r].todo # <<>>
  <2>1. q = [Messages!NoRequest EXCEPT !.pc = "append", !.process = requests[r].process, !.todo = requests[r].todo]
    BY <1>2 DEF Messages!Continued
  <2>2. /\ DOMAIN q = RequestFields /\ q.pc = "append" /\ q.process = requests[r].process
        /\ q.todo = requests[r].todo /\ q.key = 0 /\ q.loaded = 0
    BY <2>1, NoRequestIs DEF RequestFields
  <2>3. PICK m \in AllMessages : q.todo = <<m>>
    BY <1>0, <1>2, <2>2, StepsAre DEF Request
  <2>4. \E p \in IF kind = "memory" THEN {Messages!Home} ELSE Processes : q.process = {p}
    BY <1>0, <2>2, StepsAre DEF Request
  <2>5. "append" \in Senders /\ "append" \notin AppendSteps
    BY <1>0, StepsAre
  <2>6. Request(q)
    BY <2>2, <2>3, <2>4, <2>5 DEF Request
  <2>7. Pending(q) \subseteq Todo(requests[r])
    BY <2>2, <2>5 DEF Pending, Todo
  <2> QED BY <2>2, <2>5, <2>6, <2>7 DEF HasNoKey
<1> QED BY <1>1, <1>2

\* An append that has added nothing.
LEMMA NothingAdded ==
    ASSUME MessagesInv, NEW r \in Requests, requests[r].pc \in AppendSteps,
           Messages!Becomes(r, Messages!Continued(requests[r])),
           UNCHANGED <<kind, rows, objs, seq, acked, current, begun, careless>>
    PROVE  MessagesInv'
<1>1. PICK q : q = Messages!Continued(requests[r])
  OBVIOUS
<1>2. MessageTypes /\ begun \in Nat
  BY DEF MessagesInv, MessageTypes
<1>3. /\ Request(q) /\ Pending(q) \subseteq Todo(requests[r]) /\ HasNoKey(q) /\ q.pc \notin AppendSteps
  BY <1>1, <1>2, ContinuedIs
<1>4. ASSUME ~careless PROVE GoesOnWith(r, q)
  BY <1>3, <1>4 DEF MessagesInv, MessagesAreNew, GoesOnWith, Pending
<1> QED BY <1>1, <1>2, <1>3, <1>4, QuietRequest

\* The keys of the other requests, for a step of r that puts no object and has no key afterwards.
LEMMA InsertStep ==
    ASSUME MessagesInv, NEW r \in Requests, Messages!Insert(r)
    PROVE  MessagesInv'
<1>0. /\ MessageTypes /\ Request(requests[r]) /\ kind \in {"memory", "list", "hybrid"} /\ requests[r].pc = "insert"
      /\ requests[r].pc \in AppendSteps /\ requests[r].msg \in AllMessages /\ requests[r].key \in Nat
      /\ rows \in Seq(AllRows)
  <2>1. MessageTypes /\ Request(requests[r]) /\ kind \in {"memory", "list", "hybrid", "minio"} /\ requests[r].pc = "insert"
        /\ rows \in Seq(AllRows)
    BY DEF MessagesInv, MessageTypes, Messages!Insert
  <2>2. kind # "minio" /\ requests[r].pc \in AppendSteps
    BY <2>1, StepsAre DEF Request
  <2> QED BY <2>1, <2>2 DEF Request
<1>1. PICK stored, answered \in BOOLEAN :
         /\ answered => stored
         /\ rows' = IF stored THEN Append(rows, [msg |-> requests[r].msg, key |-> requests[r].key]) ELSE rows
         /\ IF answered THEN Messages!Acknowledge(r) ELSE acked' = acked
  BY DEF Messages!Insert
<1>2. /\ Messages!Becomes(r, Messages!Continued(requests[r])) /\ kind' = kind /\ objs' = objs /\ seq' = seq
      /\ begun' = begun /\ current' = current /\ careless' = careless
  BY DEF Messages!Insert
<1>3. CASE ~stored
  BY <1>0, <1>1, <1>2, <1>3, NothingAdded
<1>4. CASE stored
  <2>1. PICK q : q = Messages!Continued(requests[r])
    OBVIOUS
  <2>2. /\ Request(q) /\ Pending(q) \subseteq Todo(requests[r]) /\ HasNoKey(q) /\ q.pc \notin AppendSteps
    BY <1>0, <2>1, ContinuedIs
  <2>3. /\ DOMAIN requests' = Requests /\ requests'[r] = q
        /\ \A s \in Requests \ {r} : requests'[s] = requests[s]
        /\ \A s \in Requests : Request(requests[s])'
    BY <1>0, <1>2, <2>1, <2>2, RequestBecomes
  <2>4. PICK row : row = [msg |-> requests[r].msg, key |-> requests[r].key]
    OBVIOUS
  <2>5. row \in AllRows /\ row.msg = requests[r].msg /\ row.key = requests[r].key
    BY <1>0, <2>4 DEF AllRows
  <2>6. PICK n \in Nat : n = Len(rows)
    BY <1>0
  <2>7. /\ rows' \in Seq(AllRows) /\ DOMAIN rows = 1 .. n /\ DOMAIN rows' = 1 .. (n + 1) /\ rows'[n + 1] = row
        /\ \A i \in 1 .. n : rows'[i] = rows[i]
    BY <1>0, <1>1, <1>4, <2>4, <2>5, <2>6
  <2>8. kind # "hybrid" => requests[r].key = 0
    BY <1>0 DEF Request
  <2>9. \A i \in DOMAIN rows' : i \in DOMAIN rows \/ i = n + 1
    BY <2>6, <2>7
  <2>10. MessageTypes'
    <3>1. kind # "hybrid" => \A i \in DOMAIN rows' : rows'[i].key = 0
      BY <1>0, <2>5, <2>7, <2>8, <2>9 DEF MessageTypes
    <3> QED BY <1>0, <1>2, <2>3, <2>7, <3>1 DEF MessageTypes, AllRows, AllMessages
  <2>11. ASSUME ~careless PROVE MessagesAreNew' /\ InOrder' /\ KeysAreNew'
    <3>1. MessagesAreNew /\ InOrder /\ KeysAreNew
      BY <2>11 DEF MessagesInv
    <3>2. Places' = Places \union {n + 1}
      BY <1>0, <1>2, <2>6, <2>7 DEF Places
    <3>3. At(n + 1)' = requests[r].msg
      <4>1. At(n + 1)' = IF row.key = 0 THEN row.msg ELSE objs[row.key]
        BY <1>0, <1>2, <2>7 DEF At, Messages!Fetched
      <4>2. row.key # 0 => objs[row.key] = requests[r].msg
        BY <1>0, <2>5, <2>8, <3>1 DEF KeysAreNew
      <4> QED BY <2>5, <4>1, <4>2
    <3>4. ASSUME NEW i \in Places PROVE i < n + 1 /\ ~(n + 1 < i) /\ i # n + 1 /\ At(i)' = At(i)
      <4>1. i \in 1 .. n
        BY <1>0, <2>7 DEF Places
      <4>2. At(i)' = At(i)
        BY <1>0, <1>2, <2>7, <4>1 DEF At, Messages!Fetched
      <4> QED BY <2>6, <4>1, <4>2
    <3>5. \/ acked' = acked
          \/ acked' = acked \union {[msg |-> requests[r].msg, before |-> requests[r].before]}
      BY <1>1 DEF Messages!Acknowledge
    <3>6. MessagesAreNew' /\ InOrder'
      BY <1>0, <1>2, <2>2, <2>3, <3>1, <3>2, <3>3, <3>4, <3>5, NewPlace
    <3>7. KeysAreNew'
      <4>1. kind = "hybrid" => \A i \in DOMAIN rows' : rows'[i].key # 0 => rows'[i].key \in DOMAIN objs
        BY <1>0, <2>5, <2>7, <2>9, <3>1 DEF KeysAreNew
      <4>2. \A s \in Requests \ {r} : Messages!Process(s)' = Messages!Process(s)
        BY <2>3 DEF Messages!Process
      <4>3. q.pc # "put" /\ (q.pc = "insert" => q.key = 0)
        BY <2>2 DEF HasNoKey
      <4>4. CASE kind = "hybrid"
        BY <1>2, <2>3, <3>1, <4>1, <4>2, <4>3, <4>4 DEF KeysAreNew
      <4>5. CASE kind # "hybrid"
        BY <1>0, <1>2, <3>1, <4>5 DEF KeysAreNew
      <4> QED BY <4>4, <4>5
    <3> QED BY <3>6, <3>7
  <2> QED BY <1>2, <2>10, <2>11 DEF MessagesInv
<1> QED BY <1>1, <1>3, <1>4

LEMMA PutStep ==
    ASSUME MessagesInv, NEW r \in Requests, Messages!Put(r)
    PROVE  MessagesInv'
<1>. DEFINE p == Messages!Process(r)
            key == requests[r].key
<1>0. /\ MessageTypes /\ Request(requests[r]) /\ kind \in {"hybrid", "minio"} /\ requests[r].pc = "put"
      /\ requests[r].pc \in AppendSteps /\ requests[r].pc \in Senders /\ requests[r].msg \in AllMessages /\ key \in Nat
      /\ DOMAIN requests[r] = RequestFields /\ begun \in Nat
  <2>1. MessageTypes /\ Request(requests[r]) /\ kind \in {"memory", "list", "hybrid", "minio"} /\ requests[r].pc = "put"
        /\ begun \in Nat
    BY DEF MessagesInv, MessageTypes, Messages!Put
  <2>2. kind \in {"hybrid", "minio"} /\ requests[r].pc \in AppendSteps /\ requests[r].pc \in Senders
    BY <2>1, StepsAre DEF Request
  <2> QED BY <2>1, <2>2 DEF Request
<1>1. PICK stored, answered \in BOOLEAN :
         /\ answered => stored
         /\ objs' = IF stored THEN [k \in Messages!Keys \union {key} |-> IF k = key THEN requests[r].msg ELSE objs[k]]
                    ELSE objs
         /\ current' = IF stored THEN current \intersect {p} ELSE current
         /\ IF kind = "minio" /\ answered THEN Messages!Acknowledge(r) ELSE acked' = acked
         /\ Messages!Becomes(r, IF kind = "hybrid" /\ answered THEN [requests[r] EXCEPT !.pc = "insert"]
                                ELSE Messages!Continued(requests[r]))
  BY DEF Messages!Put
<1>2. kind' = kind /\ rows' = rows /\ seq' = seq /\ begun' = begun /\ careless' = careless
  BY DEF Messages!Put
<1>3. CASE ~stored
  BY <1>0, <1>1, <1>2, <1>3, NothingAdded
<1>4. CASE stored
  <2>0. p \in Processes
    BY <1>0, ProcessIs
  <2>1. /\ DOMAIN objs' = DOMAIN objs \union {key} /\ objs'[key] = requests[r].msg
        /\ \A k \in DOMAIN objs : k # key => objs'[k] = objs[k]
    BY <1>1, <1>4 DEF Messages!Keys
  <2>2. PICK q : q = IF kind = "hybrid" /\ answered THEN [requests[r] EXCEPT !.pc = "insert"]
                     ELSE Messages!Continued(requests[r])
    OBVIOUS
  <2>5. /\ Request(q)
        /\ (kind = "minio" \/ ~answered) =>
              /\ Pending(q) \subseteq Todo(requests[r]) /\ q.pc \in {"idle", "append"} /\ q.pc \notin AppendSteps
        /\ (kind = "hybrid" /\ answered) =>
              /\ q.pc = "insert" /\ q.key = key /\ q.msg = requests[r].msg /\ q.todo = requests[r].todo
              /\ q.before = requests[r].before /\ q.pc \in AppendSteps
    <3>1. CASE kind = "minio" \/ ~answered
      <4>1. q = Messages!Continued(requests[r])
        BY <2>2, <3>1, <1>0
      <4>2. /\ Request(q) /\ Pending(q) \subseteq Todo(requests[r]) /\ q.pc \in {"idle", "append"} /\ q.pc \notin AppendSteps
        BY <1>0, <4>1, ContinuedIs
      <4> QED BY <3>1, <4>2
    <3>2. CASE kind = "hybrid" /\ answered
      <4>1. q = [requests[r] EXCEPT !.pc = "insert"]
        BY <2>2, <3>2
      <4>2. /\ DOMAIN q = RequestFields /\ q.pc = "insert" /\ q.key = key /\ q.msg = requests[r].msg
            /\ q.before = requests[r].before /\ q.todo = requests[r].todo /\ q.process = requests[r].process
            /\ q.loaded = requests[r].loaded
        BY <1>0, <4>1 DEF RequestFields
      <4>3. "insert" \in AppendSteps /\ "insert" \in Senders
        BY <3>2, StepsAre
      <4>4. Todo(q) = Todo(requests[r])
        BY <4>2 DEF Todo
      <4>5. Request(q)
        BY <1>0, <3>2, <4>2, <4>3, <4>4, StepsAre DEF Request
      <4> QED BY <3>2, <4>2, <4>3, <4>5
    <3> QED BY <1>0, <3>1, <3>2
  <2>6. /\ DOMAIN requests' = Requests /\ requests'[r] = q
        /\ \A s \in Requests \ {r} : requests'[s] = requests[s]
        /\ \A s \in Requests : Request(requests[s])'
    BY <1>0, <1>1, <1>2, <2>2, <2>5, RequestBecomes
  <2>7. MessageTypes'
    <3>1. IsFiniteSet(DOMAIN objs \union {key})
      BY <1>0, FS_AddElement DEF MessageTypes
    <3>2. DOMAIN objs' \subseteq Nat /\ \A k \in DOMAIN objs' : objs'[k] \in AllMessages
      BY <1>0, <2>1 DEF MessageTypes
    <3> QED BY <1>0, <1>2, <2>1, <2>6, <3>1, <3>2 DEF MessageTypes, AllRows, AllMessages
  <2>8. ASSUME ~careless PROVE MessagesAreNew' /\ InOrder' /\ KeysAreNew'
    <3>1. /\ MessagesAreNew /\ InOrder /\ KeysAreNew /\ current \subseteq Processes
          /\ \A k \in DOMAIN objs : k \in Nat
      BY <1>0, <2>8 DEF MessagesInv, KeysAreNew, MessageTypes
    <3>2. p \in current /\ current' = {p}
      BY <1>0, <1>1, <1>4, <3>1 DEF KeysAreNew, Naming
    <3>3. \A s \in Requests \ {r} : Messages!Process(s)' = Messages!Process(s)
      BY <2>6 DEF Messages!Process
    <3>4. CASE kind = "minio"
      <4>1. \A k \in DOMAIN objs : k < key /\ ~(key < k) /\ k # key
        BY <1>0, <3>1, <3>4 DEF KeysAreNew
      <4>0. PICK n : n = key
        OBVIOUS
      <4>2. Places' = Places \union {n} /\ At(n)' = requests[r].msg
        BY <1>2, <2>1, <3>4, <4>0 DEF Places, At
      <4>3. \A i \in Places : i < n /\ ~(n < i) /\ i # n /\ At(i)' = At(i)
        BY <1>2, <2>1, <3>4, <4>0, <4>1 DEF Places, At
      <4>4. \/ acked' = acked
            \/ acked' = acked \union {[msg |-> requests[r].msg, before |-> requests[r].before]}
        BY <1>1 DEF Messages!Acknowledge
      <4>5. MessagesAreNew' /\ InOrder'
        BY <1>0, <1>2, <2>5, <2>6, <3>1, <3>4, <4>2, <4>3, <4>4, NewPlace
      <4>6. \A s \in Requests : requests'[s].pc \notin Naming
        BY <1>0, <2>5, <2>6, <3>1, <3>4 DEF KeysAreNew, Naming
      <4>7. \A k \in DOMAIN objs' : k <= seq[p]
        BY <1>0, <2>1, <3>1, <3>2, <3>4 DEF KeysAreNew
      <4>8. KeysAreNew'
        BY <1>2, <2>0, <3>2, <3>4, <4>6, <4>7 DEF KeysAreNew, Naming
      <4> QED BY <4>5, <4>8
    <3>5. CASE kind = "hybrid"
      <4>1. key \notin DOMAIN objs /\ key # 0 /\ key <= seq[p]
        BY <1>0, <3>1, <3>5 DEF KeysAreNew
      <4>2. \A k \in DOMAIN objs : objs'[k] = objs[k] /\ k \in DOMAIN objs'
        BY <2>1, <4>1
      <4>3. Places' = Places
        BY <1>2, <3>5 DEF Places
      <4>4. ASSUME NEW i \in Places PROVE At(i)' = At(i)
        <5>1. rows[i].key # 0 => rows[i].key \in DOMAIN objs
          BY <3>1, <3>5 DEF KeysAreNew, Places
        <5> QED BY <1>2, <3>5, <4>2, <5>1 DEF At, Messages!Fetched
      <4>5. acked' = acked
        BY <1>1, <3>5
      <4>6. GoesOnWith(r, q)
        <5>1. CASE ~answered
          BY <1>2, <2>5, <3>1, <5>1 DEF MessagesAreNew, GoesOnWith, Pending
        <5>2. CASE answered
          BY <1>0, <1>2, <2>5, <2>8, <3>5, <5>2, AppendGoesOn
        <5> QED BY <5>1, <5>2
      <4>7. begun' \in Nat /\ begun <= begun'
        BY <1>0, <1>2
      <4>8. MessagesAreNew' /\ InOrder'
        BY <1>0, <1>2, <2>6, <3>1, <4>3, <4>4, <4>5, <4>6, <4>7, SameHistory
      <4>9. \A k \in DOMAIN objs' : k <= seq[p]
        BY <2>1, <3>1, <3>2, <4>1 DEF KeysAreNew
      <4>10. q.pc # "put" /\ (q.pc = "insert" => q.key = key /\ q.msg = requests[r].msg)
        BY <2>5, <3>5
      <4>11. ASSUME NEW s \in Requests, requests'[s].pc = "put"
             PROVE  /\ s # r /\ requests'[s] = requests[s] /\ Messages!Process(s)' = Messages!Process(s)
                    /\ Messages!Process(s) = p /\ requests[s].key # key /\ requests[s].key \notin DOMAIN objs
                    /\ requests[s].key # 0 /\ requests[s].key <= seq[p]
        BY <1>0, <2>6, <3>1, <3>3, <3>5, <4>10, <4>11 DEF KeysAreNew
      <4>12. ASSUME NEW s \in Requests, requests'[s].pc = "insert", requests'[s].key # 0
             PROVE  requests'[s].key \in DOMAIN objs' /\ objs'[requests'[s].key] = requests'[s].msg
        BY <2>1, <2>6, <3>1, <3>5, <4>2, <4>10, <4>12 DEF KeysAreNew
      <4>13. \A i \in DOMAIN rows' : rows'[i].key # 0 => rows'[i].key \in DOMAIN objs'
        BY <1>2, <3>1, <3>5, <4>2 DEF KeysAreNew
      <4>14. \A s \in Requests : requests'[s].pc = "put" =>
                /\ Messages!Process(s)' \in current' /\ requests'[s].key \notin DOMAIN objs'
                /\ requests'[s].key # 0 /\ requests'[s].key <= seq'[Messages!Process(s)']
        BY <1>2, <2>1, <3>2, <4>11
      <4>15. \A s, t \in Requests : requests'[s].pc = "put" /\ requests'[t].pc = "put" /\ s # t =>
                Messages!Process(s)' = Messages!Process(t)' /\ requests'[s].key # requests'[t].key
        BY <3>1, <3>5, <4>11 DEF KeysAreNew
      <4>16. KeysAreNew'
        BY <1>2, <2>0, <3>2, <3>5, <4>9, <4>12, <4>13, <4>14, <4>15 DEF KeysAreNew
      <4> QED BY <4>8, <4>16
    <3> QED BY <1>0, <3>4, <3>5
  <2> QED BY <1>2, <2>7, <2>8 DEF MessagesInv
<1> QED BY <1>1, <1>3, <1>4

\* Some numbers, finitely many of them, have a highest.
LEMMA AHighestIs ==
    ASSUME NEW S \in SUBSET Nat, IsFiniteSet(S), S # {}
    PROVE  \E m \in S : \A k \in S : k <= m
<1>. DEFINE Has(A) == \E m \in A : \A k \in A : k <= m
            T == {A \in FiniteSubsetsOf(S) : A # {} /\ ~Has(A)}
<1>1. SUFFICES ASSUME T # {} PROVE FALSE
  <2>1. S \in FiniteSubsetsOf(S)
    BY DEF FiniteSubsetsOf
  <2> QED BY <1>1, <2>1
<1>2. IsWellFoundedOn(StrictSubsetOrdering(S), FiniteSubsetsOf(S))
  BY FS_StrictSubsetOrderingWellFounded
<1>3. PICK A \in T : \A B \in T : ~(<<B, A>> \in StrictSubsetOrdering(S))
  <2>1. T \subseteq FiniteSubsetsOf(S)
    OBVIOUS
  <2>. HIDE DEF T
  <2> QED BY <1>1, <1>2, <2>1, WFMin
<1>4. A \subseteq S /\ IsFiniteSet(A) /\ A # {} /\ ~Has(A)
  BY DEF FiniteSubsetsOf
<1>5. PICK x \in A : TRUE
  BY <1>4
<1>. DEFINE B == A \ {x}
<1>6. B \in FiniteSubsetsOf(S) /\ B # A
  BY <1>4, <1>5, FS_RemoveElement DEF FiniteSubsetsOf
<1>7. <<B, A>> \in StrictSubsetOrdering(S)
  BY <1>4, <1>6 DEF StrictSubsetOrdering
<1>8. B = {} \/ Has(B)
  BY <1>3, <1>6, <1>7
<1>9. Has(A)
  <2>1. CASE B = {}
    BY <1>4, <1>5, <2>1
  <2>2. CASE Has(B)
    <3>1. PICK m \in B : \A k \in B : k <= m
      BY <2>2
    <3>2. m \in Nat /\ x \in Nat /\ \A k \in A : k \in Nat /\ (k = x \/ k <= m)
      BY <1>4, <1>5, <3>1
    <3>3. CASE x <= m
      BY <3>1, <3>2, <3>3
    <3>4. CASE m <= x
      <4>1. \A k \in A : k <= x
        BY <3>2, <3>4
      <4> QED BY <1>5, <4>1
    <3> QED BY <3>2, <3>3, <3>4
  <2> QED BY <1>8, <2>1, <2>2
<1> QED BY <1>4, <1>9

\* The highest of some numbers is one of them, and none is higher.
LEMMA HighestIs ==
    ASSUME NEW S \in SUBSET Nat, IsFiniteSet(S)
    PROVE  Messages!HighestKey(S) \in S \union {0} /\ \A k \in S \union {0} : k <= Messages!HighestKey(S)
<1>1. IsFiniteSet(S \union {0}) /\ S \union {0} \in SUBSET Nat /\ S \union {0} # {}
  BY FS_AddElement
<1>2. \E m \in S \union {0} : \A k \in S \union {0} : k <= m
  BY <1>1, AHighestIs
<1>3. \E m \in S \union {0} : \A k \in S \union {0} : m >= k
  BY <1>1, <1>2
<1>4. Messages!HighestKey(S) \in S \union {0} /\ \A k \in S \union {0} : Messages!HighestKey(S) >= k
  BY <1>3 DEF Messages!HighestKey, Messages!Max
<1> QED BY <1>1, <1>4

\* Requests that stay or are gone.
LEMMA RequestsLeft ==
    ASSUME MessageTypes, kind' = kind, DOMAIN requests' = Requests,
           \A s \in Requests : requests'[s] \in {Messages!NoRequest, requests[s]}
    PROVE  /\ \A s \in Requests : Request(requests[s])'
           /\ AppendSteps' = AppendSteps /\ \A s \in Requests : Pending(requests[s])' = Pending(requests'[s])
           /\ \A s \in Requests : Pending(requests'[s]) \subseteq Pending(requests[s])
           /\ \A s \in Requests : requests'[s].pc \in Senders => requests'[s] = requests[s]
<1>1. kind \in {"memory", "list", "hybrid", "minio"} /\ \A s \in Requests : Request(requests[s])
  BY DEF MessageTypes
<1>2. \A s \in Requests : Request(requests'[s])
  BY <1>1, NoRequestPends
<1>3. \A s \in Requests : Request(requests[s])'
  BY <1>2 DEF Request, Senders, AppendSteps, Todo
<1>4. AppendSteps' = AppendSteps /\ \A s \in Requests : Pending(requests[s])' = Pending(requests'[s])
  BY DEF AppendSteps, Pending, Todo
<1>5. \A s \in Requests : Pending(requests'[s]) \subseteq Pending(requests[s])
  BY <1>1, NoRequestPends
<1>6. Messages!NoRequest.pc \notin Senders
  BY <1>1, StepsAre, NoRequestIs
<1> QED BY <1>3, <1>4, <1>5, <1>6

\* The history does not change when requests end.
LEMMA HistoryStays ==
    ASSUME MessageTypes, MessagesAreNew, InOrder, kind' = kind, DOMAIN requests' = Requests,
           \A s \in Requests : requests'[s] \in {Messages!NoRequest, requests[s]},
           UNCHANGED <<rows, objs, begun, acked>>
    PROVE  MessagesAreNew' /\ InOrder'
<1>1. /\ \A s \in Requests : Pending(requests[s])' \subseteq Pending(requests[s])
      /\ AppendSteps' = AppendSteps /\ AppendSteps \subseteq Senders
      /\ \A s \in Requests : requests'[s].pc \in Senders => requests'[s] = requests[s]
  BY RequestsLeft DEF Senders
<1>2. rows' = rows /\ objs' = objs /\ begun' = begun /\ acked' = acked
  OBVIOUS
<1>3. Places' = Places /\ \A i : At(i)' = At(i)
  BY <1>2 DEF Places, At, Messages!Fetched
<1>4. MessagesAreNew'
  BY <1>1, <1>2, <1>3 DEF MessagesAreNew
<1>5. InOrder'
  BY <1>1, <1>2, <1>3 DEF InOrder
<1> QED BY <1>4, <1>5

\* A new counter takes the place of that of a process without requests.
LEMMA CounterIsNew ==
    ASSUME MessageTypes, KeysAreNew, UNCHANGED <<kind, rows, objs>>, DOMAIN requests' = Requests,
           \A s \in Requests : requests'[s] \in {Messages!NoRequest, requests[s]},
           NEW p \in Processes, \A s \in Requests : p \notin requests'[s].process,
           \A o \in Processes \ {p} : seq'[o] = seq[o], current \ {p} \subseteq current', current' \subseteq current \union {p},
           p \in current' => \A k \in DOMAIN objs : k <= seq'[p]
    PROVE  KeysAreNew'
<1>0. kind' = kind /\ rows' = rows /\ objs' = objs
  OBVIOUS
<1>1. \A s \in Requests : requests'[s].pc \in Senders =>
        requests'[s] = requests[s] /\ Messages!Process(s)' = Messages!Process(s) /\ Messages!Process(s) # p
        /\ (kind # "memory" => Messages!Process(s) \in Processes)
  <2>1. ASSUME NEW s \in Requests, requests'[s].pc \in Senders
        PROVE  requests'[s] = requests[s] /\ Messages!Process(s)' = Messages!Process(s) /\ Messages!Process(s) # p
               /\ (kind # "memory" => Messages!Process(s) \in Processes)
    <3>1. requests'[s] = requests[s] /\ Request(requests[s])
      BY <1>0, <2>1, RequestsLeft DEF MessageTypes
    <3>2. requests[s].process = {Messages!Process(s)}
          /\ Messages!Process(s) \in IF kind = "memory" THEN {Messages!Home} ELSE Processes
      BY <2>1, <3>1, ProcessIs
    <3>3. Messages!Process(s)' = Messages!Process(s)
      BY <3>1 DEF Messages!Process
    <3> QED BY <3>1, <3>2, <3>3
  <2> QED BY <2>1
<1>2. current' \subseteq Processes /\ \A o \in current' : \A k \in DOMAIN objs : k <= seq'[o]
  BY DEF KeysAreNew
<1>3. CASE kind = "hybrid"
  <2>1. \A s \in Requests : requests'[s].pc \in {"put", "insert"} =>
          requests'[s] = requests[s] /\ Messages!Process(s)' = Messages!Process(s) /\ Messages!Process(s) # p
          /\ Messages!Process(s) \in Processes
    BY <1>1, <1>3, StepsAre
  <2>2. ASSUME NEW s \in Requests
        PROVE  /\ requests'[s].pc = "insert" /\ requests'[s].key # 0 =>
                    requests'[s].key \in DOMAIN objs /\ objs[requests'[s].key] = requests'[s].msg
               /\ requests'[s].pc = "put" =>
                    /\ Messages!Process(s)' \in current' /\ requests'[s].key \notin DOMAIN objs
                    /\ requests'[s].key # 0 /\ requests'[s].key <= seq'[Messages!Process(s)']
    BY <1>3, <2>1 DEF KeysAreNew
  <2>3. \A s, t \in Requests : requests'[s].pc = "put" /\ requests'[t].pc = "put" /\ s # t =>
           Messages!Process(s)' = Messages!Process(t)' /\ requests'[s].key # requests'[t].key
    BY <1>3, <2>1 DEF KeysAreNew
  <2>4. \A i \in DOMAIN rows : rows[i].key # 0 => rows[i].key \in DOMAIN objs
    BY <1>3 DEF KeysAreNew
  <2> QED BY <1>0, <1>2, <1>3, <2>2, <2>3, <2>4 DEF KeysAreNew
<1>4. CASE kind = "minio"
  <2>1. \A s \in Requests : requests'[s].pc \in Naming =>
          requests'[s] = requests[s] /\ Messages!Process(s)' = Messages!Process(s) /\ Messages!Process(s) # p
          /\ Messages!Process(s) \in Processes
    BY <1>1, <1>4, StepsAre DEF Naming
  <2>2. ASSUME NEW s \in Requests, requests'[s].pc \in Naming
        PROVE  /\ Messages!Process(s)' \in current'
               /\ requests'[s].pc = "bumped" => requests'[s].loaded = seq'[Messages!Process(s)']
               /\ requests'[s].pc = "name" => \A k \in DOMAIN objs : k < seq'[Messages!Process(s)']
               /\ requests'[s].pc = "put" => /\ requests'[s].key = seq'[Messages!Process(s)']
                                             /\ \A k \in DOMAIN objs : k < requests'[s].key
    BY <1>4, <2>1, <2>2 DEF KeysAreNew
  <2>3. \A s, t \in Requests : requests'[s].pc \in Naming /\ requests'[t].pc \in Naming => s = t
    BY <1>4, <2>1 DEF KeysAreNew
  <2> QED BY <1>0, <1>2, <1>4, <2>2, <2>3 DEF KeysAreNew, Naming
<1>5. CASE kind \in {"memory", "list"}
  BY <1>0, <1>2, <1>5 DEF KeysAreNew
<1> QED BY <1>3, <1>4, <1>5 DEF MessageTypes

LEMMA RestartStep ==
    ASSUME MessagesInv, NEW p \in Processes, Messages!Restart(p)
    PROVE  MessagesInv'
<1>0. MessageTypes /\ kind \in {"memory", "list", "hybrid", "minio"} /\ \A s \in Requests : Request(requests[s])
  BY DEF MessagesInv, MessageTypes
<1>1. /\ seq' = [seq EXCEPT ![p] = 0] /\ kind' = kind /\ objs' = objs /\ begun' = begun /\ careless' = careless
      /\ requests' = [r \in Requests |-> IF p \in requests[r].process THEN Messages!NoRequest ELSE requests[r]]
      /\ current' = IF objs = <<>> THEN current ELSE current \ {p}
      /\ kind = "memory" => p = Messages!Home /\ rows' = <<>> /\ acked' = {}
      /\ kind # "memory" => rows' = rows /\ acked' = acked
  BY DEF Messages!Restart
<1>2. /\ DOMAIN requests' = Requests /\ \A s \in Requests : requests'[s] \in {Messages!NoRequest, requests[s]}
      /\ \A s \in Requests : p \notin requests'[s].process
  BY <1>1, NoRequestIs
<1>3. /\ \A s \in Requests : Request(requests[s])'
      /\ AppendSteps' = AppendSteps /\ \A s \in Requests : Pending(requests[s])' = Pending(requests'[s])
      /\ \A s \in Requests : requests'[s].pc \in Senders => requests'[s] = requests[s]
  BY <1>0, <1>1, <1>2, RequestsLeft
<1>4. seq' \in [Processes -> Nat] /\ \A o \in Processes \ {p} : seq'[o] = seq[o]
  BY <1>0, <1>1 DEF MessageTypes
<1>5. rows' \in Seq(AllRows) /\ (kind # "hybrid" => \A i \in DOMAIN rows' : rows'[i].key = 0)
  <2>1. CASE kind = "memory"
    BY <1>1, <2>1
  <2>2. CASE kind # "memory"
    BY <1>0, <1>1, <2>2 DEF MessageTypes
  <2> QED BY <2>1, <2>2
<1>6. MessageTypes'
  BY <1>0, <1>1, <1>2, <1>3, <1>4, <1>5 DEF MessageTypes, AllRows, AllMessages
<1>7. ASSUME ~careless PROVE MessagesAreNew' /\ KeysAreNew' /\ InOrder'
  <2>0. MessagesAreNew /\ KeysAreNew /\ InOrder
    BY <1>7 DEF MessagesInv
  <2>1. current \ {p} \subseteq current' /\ current' \subseteq current \union {p}
        /\ (p \in current' => \A k \in DOMAIN objs : k <= seq'[p])
    BY <1>1
  <2>2. CASE kind # "memory"
    <3>1. MessagesAreNew' /\ InOrder'
      BY <1>0, <1>1, <1>2, <2>0, <2>2, HistoryStays
    <3>2. KeysAreNew'
      BY <1>0, <1>1, <1>2, <1>4, <2>0, <2>1, <2>2, CounterIsNew
    <3> QED BY <3>1, <3>2
  <2>3. CASE kind = "memory"
    <3>1. ASSUME NEW s \in Requests PROVE requests'[s].pc \notin Senders
      <4>1. SUFFICES ASSUME requests'[s].pc \in Senders PROVE FALSE
        OBVIOUS
      <4>2. requests'[s] = requests[s] /\ requests[s].pc \in Senders
        BY <1>3, <4>1
      <4>3. requests[s].process = {Messages!Home}
        BY <1>0, <2>3, <4>2 DEF Request
      <4> QED BY <1>1, <1>2, <2>3, <4>2, <4>3
    <3>2. Places' = {} /\ acked' = {}
      BY <1>1, <2>3 DEF Places
    <3>3. \A s \in Requests : Pending(requests[s])' = {} /\ requests'[s].pc \notin AppendSteps'
      <4>1. ASSUME NEW s \in Requests PROVE Pending(requests[s])' = {} /\ requests'[s].pc \notin AppendSteps'
        <5>1. requests'[s].pc \notin Senders /\ requests'[s].pc \notin AppendSteps
          BY <3>1 DEF Senders
        <5>2. Request(requests'[s])
          BY <1>0, <1>2, NoRequestPends
        <5>3. requests'[s].todo = <<>>
          BY <5>1, <5>2 DEF Request, Senders
        <5> QED BY <1>3, <5>1, <5>3, NothingPends
      <4> QED BY <4>1
    <3>4. MessagesAreNew'
      BY <3>2, <3>3 DEF MessagesAreNew
    <3>5. InOrder'
      BY <3>2, <3>3 DEF InOrder
    <3>6. KeysAreNew'
      <4>1. current' \subseteq Processes /\ \A o \in current' : \A k \in DOMAIN objs' : k <= seq'[o]
        BY <1>1, <1>4, <2>0, <2>1 DEF KeysAreNew
      <4> QED BY <1>1, <2>3, <4>1 DEF KeysAreNew
    <3> QED BY <3>4, <3>5, <3>6
  <2> QED BY <2>2, <2>3
<1> QED BY <1>1, <1>6, <1>7 DEF MessagesInv

LEMMA RestoreStep ==
    ASSUME MessagesInv, NEW p \in Processes, Messages!Restore(p)
    PROVE  MessagesInv'
<1>0. MessageTypes /\ kind = "minio" /\ \A s \in Requests : p \notin requests[s].process
  BY DEF MessagesInv, Messages!Restore
<1>1. PICK listed \in {{k \in Messages!Keys : k <= n} : n \in Messages!Keys \union {0}} :
         /\ seq' = [seq EXCEPT ![p] = Messages!HighestKey(listed)]
         /\ current' = IF listed = Messages!Keys /\ \A r \in Requests : ~Messages!Appending(r)
                       THEN current \union {p} ELSE current \ {p}
  BY DEF Messages!Restore
<1>2. UNCHANGED <<kind, rows, objs, requests, begun, acked, careless>>
  BY DEF Messages!Restore
<1>3. listed \subseteq DOMAIN objs /\ listed \in SUBSET Nat /\ IsFiniteSet(listed)
  <2>1. listed \subseteq DOMAIN objs
    BY <1>1 DEF Messages!Keys
  <2> QED BY <1>0, <2>1, FS_Subset DEF MessageTypes
<1>4. Messages!HighestKey(listed) \in Nat /\ \A k \in listed : k <= Messages!HighestKey(listed)
  BY <1>3, HighestIs
<1>5. /\ seq' \in [Processes -> Nat] /\ \A o \in Processes \ {p} : seq'[o] = seq[o]
      /\ seq'[p] = Messages!HighestKey(listed)
  BY <1>0, <1>1, <1>4 DEF MessageTypes
<1>6. /\ current \ {p} \subseteq current' /\ current' \subseteq current \union {p}
      /\ p \in current' => \A k \in DOMAIN objs : k <= seq'[p]
  BY <1>1, <1>4, <1>5 DEF Messages!Keys
<1>7. DOMAIN requests' = Requests /\ \A s \in Requests : requests'[s] \in {Messages!NoRequest, requests[s]}
      /\ requests' = requests
  BY <1>0, <1>2 DEF MessageTypes
<1>8. \A s \in Requests : Request(requests[s])'
  BY <1>0, <1>2, <1>7, RequestsLeft
<1>9. MessageTypes'
  BY <1>0, <1>2, <1>5, <1>7, <1>8 DEF MessageTypes, AllRows, AllMessages
<1>10. ASSUME ~careless PROVE MessagesAreNew' /\ KeysAreNew' /\ InOrder'
  <2>0. MessagesAreNew /\ KeysAreNew /\ InOrder
    BY <1>10 DEF MessagesInv
  <2>1. MessagesAreNew' /\ InOrder'
    BY <1>0, <1>2, <1>7, <2>0, HistoryStays
  <2>2. KeysAreNew'
    BY <1>0, <1>2, <1>5, <1>6, <1>7, <2>0, CounterIsNew
  <2> QED BY <2>1, <2>2
<1> QED BY <1>2, <1>9, <1>10 DEF MessagesInv

LEMMA MessagesInitially == Messages!Init => MessagesInv
<1>. SUFFICES ASSUME Messages!Init PROVE MessagesInv
  OBVIOUS
<1>1. /\ kind \in {"memory", "list", "hybrid", "minio"} /\ rows = <<>> /\ objs = <<>> /\ acked = {}
      /\ seq = [p \in Processes |-> 0] /\ begun = 0 /\ current = Processes
      /\ DOMAIN requests = Requests /\ \A r \in Requests : requests[r] = Messages!NoRequest
  BY MessageKindsAre DEF Messages!Init
<1>2. DOMAIN objs = {} /\ DOMAIN rows = {} /\ Places = {}
  BY <1>1 DEF Places
<1>3. IsFiniteSet(DOMAIN objs)
  BY <1>2, FS_EmptySet
<1>4. \A r \in Requests : Request(requests[r]) /\ Pending(requests[r]) = {}
  BY <1>1, NoRequestPends
<1>5. MessageTypes
  BY <1>1, <1>2, <1>3, <1>4 DEF MessageTypes
<1>6. \A r \in Requests : requests[r].pc \notin AppendSteps /\ requests[r].pc = "idle"
  BY <1>1, StepsAre, NoRequestIs
<1>7. MessagesAreNew /\ InOrder
  BY <1>1, <1>2, <1>4, <1>6 DEF MessagesAreNew, InOrder
<1>8. KeysAreNew
  BY <1>1, <1>2, <1>6 DEF KeysAreNew, Naming
<1> QED BY <1>5, <1>7, <1>8 DEF MessagesInv

LEMMA MessagesStepKeeps == MessagesInv /\ [Messages!Next]_(Messages!storeVars) => MessagesInv'
<1>. SUFFICES ASSUME MessagesInv, [Messages!Next]_(Messages!storeVars) PROVE MessagesInv'
  OBVIOUS
<1>1. ASSUME NEW r \in Requests,
             Messages!Invoke(r) \/ Messages!AppendMedia(r) \/ Messages!Read(r) \/ Messages!BeginAppend(r)
             \/ Messages!EndRequest(r) \/ Messages!ListMessages(r) \/ Messages!Get(r) \/ Messages!Cut(r)
             \/ Messages!FailRead(r)
      PROVE  MessagesInv'
  BY <1>1, InvokeStep, BeginAppendStep, ReaderStep
<1>2. ASSUME NEW r \in Requests,
             Messages!LoadSeq(r) \/ Messages!StoreSeq(r) \/ Messages!Name(r) \/ Messages!Put(r) \/ Messages!Insert(r)
      PROVE  MessagesInv'
  BY <1>2, LoadSeqStep, StoreSeqStep, NameStep, PutStep, InsertStep
<1>3. ASSUME NEW p \in Processes, Messages!Restart(p) \/ Messages!Restore(p)
      PROVE  MessagesInv'
  BY <1>3, RestartStep, RestoreStep
<1>4. CASE UNCHANGED Messages!storeVars
  <2>1. UNCHANGED <<kind, rows, objs, seq, requests, begun, acked, current, careless>>
    BY <1>4 DEF Messages!storeVars
  <2>2. /\ MessageTypes' = MessageTypes /\ MessagesAreNew' = MessagesAreNew /\ KeysAreNew' = KeysAreNew
        /\ InOrder' = InOrder
    BY <2>1 DEF MessageTypes, MessagesAreNew, KeysAreNew, InOrder, Request, Pending, Todo, AppendSteps, Senders, Places,
                At, Messages!Fetched, Messages!Process, AllRows, AllMessages
  <2> QED BY <2>1, <2>2 DEF MessagesInv
<1> QED BY <1>1, <1>2, <1>3, <1>4 DEF Messages!Next

\* The keys of the MinIO store, counted from the lowest.
Rank == [k \in DOMAIN objs |-> Cardinality({j \in DOMAIN objs : j <= k})]

LEMMA RankIs ==
    ASSUME DOMAIN objs \subseteq Nat, IsFiniteSet(DOMAIN objs)
    PROVE  /\ \A k \in DOMAIN objs : Rank[k] \in 1..Cardinality(DOMAIN objs)
           /\ \A k, l \in DOMAIN objs : k < l => Rank[k] < Rank[l]
           /\ \A i \in 1..Cardinality(DOMAIN objs) : \E k \in DOMAIN objs : Rank[k] = i
<1>. DEFINE K == DOMAIN objs
            Below(k) == {j \in K : j <= k}
            N == Cardinality(K)
<1>0. N \in Nat
  BY FS_CardinalityType
<1>1. ASSUME NEW k \in K
      PROVE  Rank[k] = Cardinality(Below(k)) /\ IsFiniteSet(Below(k)) /\ Rank[k] \in 1..N
  <2>1. Rank[k] = Cardinality(Below(k))
    BY DEF Rank
  <2>2. IsFiniteSet(Below(k)) /\ Cardinality(Below(k)) <= N
    BY FS_Subset
  <2>3. Cardinality(Below(k)) \in Nat
    BY <2>2, FS_CardinalityType
  <2>4. k \in Below(k)
    OBVIOUS
  <2>5. Cardinality(Below(k)) # 0
    BY <2>2, <2>4, FS_EmptySet
  <2> QED BY <1>0, <2>1, <2>2, <2>3, <2>5
<1>2. ASSUME NEW k \in K, NEW l \in K, k < l PROVE Rank[k] < Rank[l]
  <2>1. Below(k) \subseteq Below(l) /\ l \in Below(l) /\ l \notin Below(k)
    BY <1>2
  <2>2. Cardinality(Below(k)) <= Cardinality(Below(l)) /\ Cardinality(Below(k)) # Cardinality(Below(l))
    BY <1>1, <2>1, FS_Subset
  <2>3. Rank[k] \in 1..N /\ Rank[l] \in 1..N /\ Rank[k] <= Rank[l] /\ Rank[k] # Rank[l]
    BY <1>1, <2>2
  <2> QED BY <1>0, <2>3
<1>3. ASSUME NEW i \in 1..N PROVE \E k \in K : Rank[k] = i
  <2>1. Rank \in [K -> 1..N]
    BY <1>1 DEF Rank
  <2>2. ASSUME NEW k \in K, NEW l \in K, Rank[k] = Rank[l] PROVE k = l
    <3>1. Rank[k] \in 1..N /\ Rank[l] \in 1..N /\ k \in Nat /\ l \in Nat
      BY <1>1
    <3> QED BY <1>0, <1>2, <2>2, <3>1
  <2>3. Rank \in Injection(K, 1..N)
    BY <2>1, <2>2 DEF Injection, IsInjective
  <2>4. IsFiniteSet(1..N) /\ Cardinality(1..N) = N
    BY <1>0, FS_Interval
  <2>5. Rank \in Surjection(K, 1..N)
    BY <2>3, <2>4, FS_Injection
  <2> QED BY <2>5 DEF Surjection
<1> QED BY <1>1, <1>2, <1>3

LEMMA SameCardinality == \A S : Messages!Cardinality(S) = Cardinality(S)
  BY DEF Messages!Cardinality, Cardinality

\* The places are the history's, in order.
LEMMA HistoryIs ==
    ASSUME MessageTypes
    PROVE  \E f : /\ \A i \in Places : f[i] \in DOMAIN Messages!History /\ Messages!History[f[i]] = At(i) /\ f[i] \in Nat
                  /\ \A i, j \in Places : i < j => f[i] < f[j]
                  /\ \A n \in DOMAIN Messages!History : \E i \in Places : f[i] = n
                  /\ IsFiniteSet(DOMAIN Messages!History)
<1>1. CASE kind = "minio"
  <2>0. DOMAIN objs \subseteq Nat /\ IsFiniteSet(DOMAIN objs) /\ Places = DOMAIN objs /\ \A i \in Places : At(i) = objs[i]
    BY <1>1 DEF MessageTypes, Places, At
  <2>1. /\ \A k \in DOMAIN objs : Rank[k] \in 1..Cardinality(DOMAIN objs)
        /\ \A k, l \in DOMAIN objs : k < l => Rank[k] < Rank[l]
        /\ \A i \in 1..Cardinality(DOMAIN objs) : \E k \in DOMAIN objs : Rank[k] = i
    BY <2>0, RankIs
  <2>. DEFINE N == Cardinality(DOMAIN objs)
              Nth(i) == CHOOSE l \in DOMAIN objs : Messages!Cardinality({j \in DOMAIN objs : j <= l}) = i
  <2>a. Messages!SortedKeys = [i \in 1..Messages!Cardinality(DOMAIN objs) |-> Nth(i)]
    BY DEF Messages!SortedKeys, Messages!Keys
  <2>b. Messages!History = [i \in DOMAIN Messages!SortedKeys |-> objs[Messages!SortedKeys[i]]]
    BY <1>1 DEF Messages!History
  <2>2. /\ DOMAIN Messages!SortedKeys = 1..N /\ DOMAIN Messages!History = 1..N
        /\ \A i \in DOMAIN Messages!History : Messages!History[i] = objs[Messages!SortedKeys[i]]
        /\ \A i \in 1..N : Messages!SortedKeys[i] = Nth(i)
    <3>. HIDE DEF Nth, N
    <3> QED BY <2>a, <2>b, SameCardinality DEF N
  <2>3. ASSUME NEW k \in DOMAIN objs PROVE Messages!SortedKeys[Rank[k]] = k
    <3>1. \A l \in DOMAIN objs : Messages!Cardinality({j \in DOMAIN objs : j <= l}) = Rank[l]
      BY SameCardinality DEF Rank
    <3>2. \A l \in DOMAIN objs : Rank[l] = Rank[k] => l = k
      <4>1. ASSUME NEW l \in DOMAIN objs, Rank[l] = Rank[k] PROVE l = k
        <5>1. l \in Nat /\ k \in Nat /\ Rank[l] \in Int /\ Rank[k] \in Int
          BY <2>0, <2>1
        <5> QED BY <2>1, <4>1, <5>1
      <4> QED BY <4>1
    <3>3. Messages!SortedKeys[Rank[k]] = Nth(Rank[k])
      <4>. HIDE DEF Nth
      <4> QED BY <2>1, <2>2
    <3>4. \A l \in DOMAIN objs : Messages!Cardinality({j \in DOMAIN objs : j <= l}) = Rank[k] <=> l = k
      BY <3>1, <3>2
    <3> QED BY <3>3, <3>4
  <2>4. IsFiniteSet(1..Cardinality(DOMAIN objs))
    BY <2>0, FS_CardinalityType, FS_Interval
  <2>5. \A i \in Places : Rank[i] \in DOMAIN Messages!History /\ Messages!History[Rank[i]] = At(i) /\ Rank[i] \in Nat
    BY <2>0, <2>1, <2>2, <2>3
  <2> QED BY <2>0, <2>1, <2>2, <2>4, <2>5
<1>2. CASE kind # "minio"
  <2>1. /\ DOMAIN Messages!History = DOMAIN rows /\ Places = DOMAIN rows
        /\ \A i \in DOMAIN rows : Messages!History[i] = At(i)
    BY <1>2 DEF Messages!History, Places, At
  <2>2. DOMAIN rows = 1..Len(rows) /\ Len(rows) \in Nat
    BY DEF MessageTypes
  <2>3. IsFiniteSet(DOMAIN rows)
    BY <2>2, FS_Interval
  <2>. DEFINE f == [i \in DOMAIN rows |-> i]
  <2>4. \A i \in DOMAIN rows : f[i] = i /\ i \in Nat
    BY <2>2
  <2> QED BY <2>1, <2>3, <2>4
<1> QED BY <1>1, <1>2

LEMMA MessagesInvIsKept == MessagesInv => Messages!AcknowledgedAreKept
<1>. DEFINE Kept(a) == /\ Cardinality({i \in DOMAIN Messages!History : Messages!History[i] = a.msg}) = 1
                       /\ \A m \in a.before : Messages!PlaceOf(m) < Messages!PlaceOf(a.msg)
<1>. SUFFICES ASSUME MessagesInv, ~careless, NEW a \in acked PROVE Kept(a)
  <2>1. Messages!AcknowledgedAreKept <=> (~careless => \A a \in acked : Kept(a))
    BY SameCardinality DEF Messages!AcknowledgedAreKept
  <2>. HIDE DEF Kept
  <2> QED BY <2>1
<1>0. MessageTypes /\ MessagesAreNew /\ InOrder
  BY DEF MessagesInv
<1>1. PICK f : /\ \A i \in Places : f[i] \in DOMAIN Messages!History /\ Messages!History[f[i]] = At(i) /\ f[i] \in Nat
               /\ \A i, j \in Places : i < j => f[i] < f[j]
               /\ \A n \in DOMAIN Messages!History : \E i \in Places : f[i] = n
  BY <1>0, HistoryIs
<1>2. PICK j \in Places : At(j) = a.msg /\ \A m \in a.before : \E i \in Places : At(i) = m /\ i < j
  BY <1>0 DEF InOrder
<1>3. ASSUME NEW i \in Places
      PROVE  \A n \in DOMAIN Messages!History : Messages!History[n] = At(i) <=> n = f[i]
  BY <1>0, <1>1 DEF MessagesAreNew
<1>4. ASSUME NEW i \in Places PROVE Messages!PlaceOf(At(i)) = f[i]
  BY <1>1, <1>3 DEF Messages!PlaceOf
<1>5. {i \in DOMAIN Messages!History : Messages!History[i] = a.msg} = {f[j]}
  BY <1>1, <1>2, <1>3
<1>6. Cardinality({f[j]}) = 1
  BY FS_Singleton
<1>7. ASSUME NEW m \in a.before PROVE Messages!PlaceOf(m) < Messages!PlaceOf(a.msg)
  <2>1. PICK i \in Places : At(i) = m /\ i < j
    BY <1>2
  <2> QED BY <1>1, <1>2, <1>4, <2>1
<1> QED BY <1>5, <1>6, <1>7

-----------------------------------------------------------------------------
(* The windows of the message stores.  applyWindow is a recursion over the *)
(* messages from the last to the first, so that what it computes is shown  *)
(* by looking at the last place where it would go wrong.                   *)

\* Going through a list of n from its end, from a on, by the steps of G.
Backward(n, V, a, G) == \E f \in [1..(n + 1) -> V] : f[n + 1] = a /\ \A i \in 1..n : f[i] = G[i][f[i + 1]]

LEMMA BackwardIs ==
    ASSUME NEW n \in Nat, NEW V, NEW a \in V, NEW G \in [1..n -> [V -> V]]
    PROVE  Backward(n, V, a, G)
<1>. DEFINE Goes(i, f) == f[n + 1] = a /\ \A j \in i..n : f[j] = G[j][f[j + 1]]
            Bad == {i \in 1..(n + 1) : ~\E f \in [1..(n + 1) -> V] : Goes(i, f)}
<1>1. SUFFICES ASSUME Bad # {} PROVE FALSE
  <2>1. 1 \notin Bad => Backward(n, V, a, G)
    BY DEF Backward
  <2>. HIDE DEF Bad
  <2> QED BY <1>1, <2>1
<1>2. PICK i \in Bad : \A j \in Bad : j <= i
  <2>1. Bad \in SUBSET Nat /\ IsFiniteSet(Bad)
    <3>1. Bad \in SUBSET (1..(n + 1)) /\ 1..(n + 1) \subseteq Nat
      OBVIOUS
    <3>. HIDE DEF Bad
    <3>2. IsFiniteSet(1..(n + 1))
      BY FS_Interval
    <3>3. IsFiniteSet(Bad)
      BY <3>1, <3>2, FS_Subset
    <3> QED BY <3>1, <3>3
  <2>. HIDE DEF Bad
  <2> QED BY <1>1, <2>1, AHighestIs
<1>3. i # n + 1
  <2>1. [j \in 1..(n + 1) |-> a] \in [1..(n + 1) -> V]
    OBVIOUS
  <2>2. Goes(n + 1, [j \in 1..(n + 1) |-> a])
    OBVIOUS
  <2> QED BY <2>1, <2>2
<1>4. PICK f \in [1..(n + 1) -> V] : Goes(i + 1, f)
  <2>1. i \in Nat /\ i + 1 \in 1..(n + 1) /\ ~(i + 1 <= i)
    BY <1>2, <1>3
  <2>2. i + 1 \notin Bad
    <3>. HIDE DEF Bad
    <3> QED BY <1>2, <2>1
  <2> QED BY <2>1, <2>2
<1>. DEFINE g == [f EXCEPT ![i] = G[i][f[i + 1]]]
<1>5. g \in [1..(n + 1) -> V]
  BY <1>3
<1>6. Goes(i, g)
  BY <1>3, <1>4
<1> QED BY <1>5, <1>6

\* What the ends of a list of messages cost, from the last on.
LEMMA CostIs ==
    ASSUME NEW n \in Nat, NEW msgs, Len(msgs) = n
    PROVE  /\ Messages!CostFrom(msgs) \in [1..(n + 1) -> Nat]
           /\ Messages!CostFrom(msgs)[n + 1] = 0
           /\ \A i \in 1..n : Messages!CostFrom(msgs)[i] = Messages!Cost(msgs[i]) + Messages!CostFrom(msgs)[i + 1]
<1>. DEFINE Step(g) == [i \in 1..(n + 1) |-> IF i = n + 1 THEN 0 ELSE Messages!Cost(msgs[i]) + g[i + 1]]
            G == [i \in 1..n |-> [c \in Nat |-> Messages!Cost(msgs[i]) + c]]
<1>1. \A m : Messages!Cost(m) \in Nat
  BY DEF Messages!Cost
<1>2. G \in [1..n -> [Nat -> Nat]]
  BY <1>1
<1>3. PICK f \in [1..(n + 1) -> Nat] : f[n + 1] = 0 /\ \A i \in 1..n : f[i] = G[i][f[i + 1]]
  <2>. HIDE DEF G
  <2>1. Backward(n, Nat, 0, G)
    BY <1>2, BackwardIs
  <2> QED BY <2>1 DEF Backward
<1>4. \A i \in 1..n : f[i] = Messages!Cost(msgs[i]) + f[i + 1]
  <2>1. \A i \in 1..n : i + 1 \in 1..(n + 1) /\ i # n + 1
    OBVIOUS
  <2>2. \A i \in 1..n, c \in Nat : G[i][c] = Messages!Cost(msgs[i]) + c
    OBVIOUS
  <2>. HIDE DEF G
  <2> QED BY <1>3, <2>1, <2>2
<1>5. f = Step(f)
  BY <1>3, <1>4
<1>6. ASSUME NEW c, c = Messages!CostFrom(msgs) PROVE c = Step(c)
  BY <1>5, <1>6 DEF Messages!CostFrom
<1>7. PICK c : c = Messages!CostFrom(msgs)
  OBVIOUS
<1>8. c = Step(c)
  BY <1>6, <1>7
<1>. HIDE DEF Step
<1>9. /\ DOMAIN c = 1..(n + 1) /\ c[n + 1] = 0
      /\ \A i \in 1..n : c[i] = Messages!Cost(msgs[i]) + c[i + 1]
  BY <1>8 DEF Step
<1>. DEFINE Bad == {i \in 1..(n + 1) : ~(c[i] \in Nat)}
<1>10. Bad = {}
  <2>1. SUFFICES ASSUME Bad # {} PROVE FALSE
    OBVIOUS
  <2>2. Bad \in SUBSET Nat /\ IsFiniteSet(Bad)
    <3>1. Bad \in SUBSET (1..(n + 1)) /\ 1..(n + 1) \subseteq Nat
      OBVIOUS
    <3>. HIDE DEF Bad
    <3>2. IsFiniteSet(1..(n + 1))
      BY FS_Interval
    <3>3. IsFiniteSet(Bad)
      BY <3>1, <3>2, FS_Subset
    <3> QED BY <3>1, <3>3
  <2>3. PICK i \in Bad : \A j \in Bad : j <= i
    <3>. HIDE DEF Bad
    <3> QED BY <2>1, <2>2, AHighestIs
  <2>4. i # n + 1
    BY <1>9
  <2>5. c[i + 1] \in Nat
    BY <2>3, <2>4
  <2> QED BY <1>1, <1>9, <2>4, <2>5
<1>11. c = [i \in 1..(n + 1) |-> c[i]]
  BY <1>8 DEF Step
<1>12. c \in [1..(n + 1) -> Nat]
  BY <1>9, <1>10, <1>11
<1> QED BY <1>7, <1>9, <1>12

\* applyWindow's loop, message by message.
Walks(w, msgs, n, max, stops) ==
    /\ w[n + 1] = [budget |-> max, start |-> n + 1, going |-> TRUE]
    /\ \A i \in 1..n :
         w[i] = IF w[i + 1].going /\ w[i + 1].budget >= Messages!Cost(msgs[i])
                THEN [w[i + 1] EXCEPT !.budget = @ - Messages!Cost(msgs[i]), !.start = i]
                ELSE [w[i + 1] EXCEPT !.going = ~stops]

LEMMA WalkIs ==
    ASSUME NEW n \in Nat, NEW msgs, Len(msgs) = n, NEW max \in Nat, NEW stops \in BOOLEAN
    PROVE  \E w : Messages!Walk(msgs, max, stops) = SubSeq(msgs, w[1].start, n) /\ Walks(w, msgs, n, max, stops)
<1>. DEFINE V == [budget : Nat, start : Nat, going : BOOLEAN]
            End == [budget |-> max, start |-> n + 1, going |-> TRUE]
            Next1(i, w) == IF w.going /\ w.budget >= Messages!Cost(msgs[i])
                           THEN [w EXCEPT !.budget = @ - Messages!Cost(msgs[i]), !.start = i]
                           ELSE [w EXCEPT !.going = ~stops]
            G == [i \in 1..n |-> [w \in V |-> Next1(i, w)]]
            Step(g) == [i \in 1..(Len(msgs) + 1) |-> IF i = Len(msgs) + 1 THEN [budget |-> max, start |-> Len(msgs) + 1, going |-> TRUE] ELSE Next1(i, g[i + 1])]
<1>1. \A m : Messages!Cost(m) \in Nat
  BY DEF Messages!Cost
<1>2. \A i \in 1..n, w \in V : Next1(i, w) \in V
  <2>1. ASSUME NEW i \in 1..n, NEW w \in V PROVE Next1(i, w) \in V
    <3>1. CASE w.going /\ w.budget >= Messages!Cost(msgs[i])
      <4>1. w.budget - Messages!Cost(msgs[i]) \in Nat /\ i \in Nat
        BY <1>1, <3>1
      <4> QED BY <3>1, <4>1
    <3>2. CASE ~(w.going /\ w.budget >= Messages!Cost(msgs[i]))
      BY <3>2
    <3> QED BY <3>1, <3>2
  <2>. HIDE DEF Next1, V
  <2> QED BY <2>1
<1>3. End \in V
  OBVIOUS
<1>4. G \in [1..n -> [V -> V]] /\ \A i \in 1..n, w \in V : G[i][w] = Next1(i, w)
  <2>. HIDE DEF V, Next1
  <2> QED BY <1>2
<1>5. PICK f \in [1..(n + 1) -> V] : f[n + 1] = End /\ \A i \in 1..n : f[i] = G[i][f[i + 1]]
  <2>. HIDE DEF G, V, End
  <2>1. Backward(n, V, End, G)
    BY <1>3, <1>4, BackwardIs
  <2> QED BY <2>1 DEF Backward
<1>a. \A g : Step(g) = [i \in 1..(n + 1) |-> IF i = n + 1 THEN End ELSE Next1(i, g[i + 1])]
  OBVIOUS
<1>6. f = Step(f)
  <2>1. \A i \in 1..n : f[i] = Next1(i, f[i + 1])
    <3>. HIDE DEF G, V, End, Next1
    <3> QED BY <1>4, <1>5
  <2>. HIDE DEF G, V, End, Next1, Step
  <2> QED BY <1>5, <1>a, <2>1
<1>7. PICK w : w = CHOOSE g : g = Step(g)
  OBVIOUS
<1>8. w = Step(w)
  <2>. HIDE DEF Step
  <2> QED BY <1>6, <1>7
<1>9. Messages!Walk(msgs, max, stops) = SubSeq(msgs, w[1].start, n)
  <2>1. Messages!Walk(msgs, max, stops) = SubSeq(msgs, (CHOOSE g : g = Step(g))[1].start, Len(msgs))
    BY DEF Messages!Walk
  <2>. HIDE DEF Step
  <2> QED BY <1>7, <2>1
<1>10. w[n + 1] = End /\ \A i \in 1..n : w[i] = Next1(i, w[i + 1])
  <2>. HIDE DEF End, Next1, Step
  <2> QED BY <1>8, <1>a
<1> QED BY <1>9, <1>10 DEF Walks

\* applyWindow keeps the longest end of the messages that does not cost more than there is.
LEMMA WindowIs ==
    ASSUME NEW n \in Nat, NEW msgs, Len(msgs) = n, NEW max \in Nat
    PROVE  Messages!IsLongestEnd(Messages!Walk(msgs, max, TRUE), msgs, max)
<1>1. PICK w : Messages!Walk(msgs, max, TRUE) = SubSeq(msgs, w[1].start, n) /\ Walks(w, msgs, n, max, TRUE)
  BY WalkIs
<1>a. /\ w[n + 1] = [budget |-> max, start |-> n + 1, going |-> TRUE]
      /\ \A i \in 1..n :
           /\ w[i + 1].going /\ w[i + 1].budget >= Messages!Cost(msgs[i]) =>
                w[i] = [w[i + 1] EXCEPT !.budget = @ - Messages!Cost(msgs[i]), !.start = i]
           /\ ~(w[i + 1].going /\ w[i + 1].budget >= Messages!Cost(msgs[i])) =>
                w[i] = [w[i + 1] EXCEPT !.going = FALSE]
  BY <1>1 DEF Walks
<1>2. PICK c : c = Messages!CostFrom(msgs)
  OBVIOUS
<1>3. /\ c \in [1..(n + 1) -> Nat] /\ c[n + 1] = 0
      /\ \A i \in 1..n : c[i] = Messages!Cost(msgs[i]) + c[i + 1]
  BY <1>2, CostIs
<1>4. \A m : Messages!Cost(m) \in Nat
  BY DEF Messages!Cost
<1>. DEFINE Stands(i) == /\ w[i] \in [budget : Nat, start : 1..(n + 1), going : BOOLEAN]
                         /\ i <= w[i].start /\ c[w[i].start] <= max
                         /\ w[i].going <=> w[i].start = i
                         /\ w[i].going => w[i].budget = max - c[i]
                         /\ \A j \in i..(w[i].start - 1) : c[j] > max
            Bad == {i \in 1..(n + 1) : ~Stands(i)}
<1>5. Bad = {}
  <2>1. SUFFICES ASSUME Bad # {} PROVE FALSE
    OBVIOUS
  <2>2. Bad \in SUBSET Nat /\ IsFiniteSet(Bad)
    <3>1. Bad \in SUBSET (1..(n + 1)) /\ 1..(n + 1) \subseteq Nat
      OBVIOUS
    <3>. HIDE DEF Bad
    <3>2. IsFiniteSet(1..(n + 1))
      BY FS_Interval
    <3>3. IsFiniteSet(Bad)
      BY <3>1, <3>2, FS_Subset
    <3> QED BY <3>1, <3>3
  <2>3. PICK i \in Bad : \A j \in Bad : j <= i
    <3>. HIDE DEF Bad
    <3> QED BY <2>1, <2>2, AHighestIs
  <2>4. i \in 1..(n + 1) /\ ~Stands(i)
    OBVIOUS
  <2>5. i # n + 1
    <3>1. w[n + 1].start = n + 1 /\ w[n + 1].going = TRUE /\ w[n + 1].budget = max /\ c[n + 1] = 0
          /\ w[n + 1] \in [budget : Nat, start : 1..(n + 1), going : BOOLEAN]
      <4>1. n + 1 \in 1..(n + 1)
        OBVIOUS
      <4>2. PICK v : v = w[n + 1]
        OBVIOUS
      <4>3. v = [budget |-> max, start |-> n + 1, going |-> TRUE]
        BY <1>a, <4>2
      <4>4. v.start = n + 1 /\ v.going = TRUE /\ v.budget = max /\ v \in [budget : Nat, start : 1..(n + 1), going : BOOLEAN]
        BY <4>1, <4>3
      <4>. HIDE DEF Stands, Bad
      <4> QED BY <1>3, <4>2, <4>4
    <3>2. (n + 1)..((n + 1) - 1) = {} /\ 0 <= max /\ max = max - 0 /\ n + 1 <= n + 1
      OBVIOUS
    <3>3. Stands(n + 1)
      BY <3>1, <3>2
    <3> QED BY <2>4, <3>3
  <2>6. i \in 1..n /\ i + 1 \in 1..(n + 1) /\ ~(i + 1 <= i)
    BY <2>4, <2>5
  <2>7. Stands(i + 1)
    <3>1. i + 1 \notin Bad
      <4>. HIDE DEF Bad
      <4> QED BY <2>3, <2>6
    <3>. HIDE DEF Stands
    <3> QED BY <2>6, <3>1
  <2>8. PICK s : s = w[i + 1].start
    OBVIOUS
  <2>9. /\ s \in 1..(n + 1) /\ i + 1 <= s /\ c[s] <= max /\ w[i + 1].budget \in Nat /\ w[i + 1].going \in BOOLEAN
        /\ w[i + 1].going <=> s = i + 1
        /\ w[i + 1].going => w[i + 1].budget = max - c[i + 1]
        /\ \A j \in (i + 1)..(s - 1) : c[j] > max
        /\ w[i + 1] = [budget |-> w[i + 1].budget, start |-> s, going |-> w[i + 1].going]
    BY <2>7, <2>8
  <2>10. c[i] \in Nat /\ c[i + 1] \in Nat /\ c[i] = Messages!Cost(msgs[i]) + c[i + 1]
    BY <1>3, <2>6
  <2>. HIDE DEF Bad
  <2>11. CASE w[i + 1].going /\ w[i + 1].budget >= Messages!Cost(msgs[i])
    <3>1. w[i] = [budget |-> w[i + 1].budget - Messages!Cost(msgs[i]), start |-> i, going |-> TRUE]
      BY <1>a, <2>6, <2>9, <2>11
    <3>2. w[i + 1].budget - Messages!Cost(msgs[i]) = max - c[i] /\ max - c[i] \in Nat /\ c[i] <= max
      BY <1>4, <2>9, <2>10, <2>11
    <3>3. Stands(i)
      BY <2>6, <3>1, <3>2
    <3> QED BY <2>4, <3>3
  <2>12. CASE ~(w[i + 1].going /\ w[i + 1].budget >= Messages!Cost(msgs[i]))
    <3>1. /\ w[i].budget = w[i + 1].budget /\ w[i].start = s /\ w[i].going = FALSE
          /\ w[i] \in [budget : Nat, start : 1..(n + 1), going : BOOLEAN]
      <4>1. w[i] = [w[i + 1] EXCEPT !.going = FALSE]
        BY <1>a, <2>6, <2>12
      <4>2. w[i + 1] \in [budget : Nat, start : 1..(n + 1), going : BOOLEAN] /\ w[i + 1].start = s
        BY <2>7, <2>8
      <4>. HIDE DEF Stands
      <4> QED BY <4>1, <4>2
    <3>2. c[i] > max
      <4>1. CASE w[i + 1].going
        BY <1>4, <2>9, <2>10, <2>12, <4>1
      <4>2. CASE ~w[i + 1].going
        <5>1. i + 1 \in (i + 1)..(s - 1)
          BY <2>6, <2>9, <4>2
        <5>2. c[i + 1] > max
          BY <2>9, <5>1
        <5>3. Messages!Cost(msgs[i]) \in Nat
          BY <1>4
        <5> QED BY <2>10, <5>2, <5>3
      <4> QED BY <4>1, <4>2
    <3>3. \A j \in i..(s - 1) : c[j] > max
      <4>1. \A j \in i..(s - 1) : j = i \/ j \in (i + 1)..(s - 1)
        BY <2>6, <2>9
      <4> QED BY <2>9, <3>2, <4>1
    <3>4. Stands(i)
      BY <2>6, <2>9, <3>1, <3>3
    <3> QED BY <2>4, <3>4
  <2> QED BY <2>11, <2>12
<1>6. Stands(1)
  <2>1. 1 \in 1..(n + 1)
    OBVIOUS
  <2>. HIDE DEF Stands
  <2> QED BY <1>5, <2>1
<1>7. PICK from \in 1..(n + 1) : from = w[1].start
  BY <1>6
<1>8. /\ Messages!Walk(msgs, max, TRUE) = SubSeq(msgs, from, Len(msgs))
      /\ Messages!CostFrom(msgs)[from] <= max
      /\ \A i \in 1..(from - 1) : Messages!CostFrom(msgs)[i] > max
  BY <1>1, <1>2, <1>6, <1>7
<1>9. from \in 1..(Len(msgs) + 1)
  OBVIOUS
<1> QED BY <1>8, <1>9 DEF Messages!IsLongestEnd

\* What a reader has listed, fetched up to its place, is the history of then: what it has still to
\* fetch is where it was.
Listed(q) ==
    /\ q.at \in Nat \ {0}
    /\ \E n \in Nat : DOMAIN q.snapshot = 1..n /\ DOMAIN q.got = 1..n
    /\ \A i \in DOMAIN q.got :
         /\ DOMAIN q.got[i] = {"msg", "key"} /\ q.got[i].key \in DOMAIN objs \union {0}
         /\ i < q.at => q.got[i].msg = q.snapshot[i]
         /\ q.at <= i => Messages!Fetched(q.got[i]) = q.snapshot[i]

Window(q) ==
    LET all == [i \in DOMAIN q.snapshot |-> Messages!Decoded(q.snapshot[i])]
    IN IF q.budget = 0 THEN q.got = all ELSE Messages!IsLongestEnd(q.got, all, q.budget)

Reading == {"list", "get", "answered"}
Reader(q) ==
    /\ q.pc \in Reading => q.budget \in Budgets
    /\ q.pc = "list" => q.at = 1
    /\ q.pc = "get" /\ ~careless => Listed(q)
    /\ q.pc = "answered" /\ ~careless => Window(q)

\* The MinIO store counts its objects from 1: a listing has no key that stands for none.
KeysCountFromOne ==
    kind = "minio" =>
        /\ 0 \notin DOMAIN objs
        /\ \A r \in Requests : /\ requests[r].pc = "name" => seq[Messages!Process(r)] # 0
                               /\ requests[r].pc = "put" => requests[r].key # 0

ReadersInv == KeysCountFromOne /\ \A r \in Requests : Reader(requests[r])

\* One request moves, the others stay.
LEMMA BecomesIs ==
    ASSUME MessageTypes, NEW r \in Requests, NEW q, Messages!Becomes(r, q)
    PROVE  requests'[r] = q /\ \A s \in Requests \ {r} : requests'[s] = requests[s]
  BY DEF MessageTypes, Messages!Becomes

\* A step that neither counts nor names.
LEMMA CountsStay ==
    ASSUME KeysCountFromOne, UNCHANGED <<kind, objs, seq>>,
           \A s \in Requests : requests'[s] = requests[s] \/ requests'[s].pc \notin {"name", "put"} \/ kind # "minio"
    PROVE  KeysCountFromOne'
<1>1. \A s \in Requests : requests'[s] = requests[s] => Messages!Process(s)' = Messages!Process(s)
  BY DEF Messages!Process
<1> QED BY <1>1 DEF KeysCountFromOne

\* As long as objects stay, a reader that does nothing has what it had.
ObjectsStay ==
    /\ kind' = kind /\ (careless => careless')
    /\ ~careless' => \A k \in DOMAIN objs : k \in DOMAIN objs' /\ objs'[k] = objs[k]

LEMMA ReaderStays ==
    ASSUME ObjectsStay, NEW s, Reader(requests[s]), requests'[s] = requests[s]
    PROVE  Reader(requests[s])'
<1>1. ASSUME requests[s].pc = "get", ~careless' PROVE Listed(requests[s])'
  <2>1. Listed(requests[s]) /\ \A k \in DOMAIN objs : k \in DOMAIN objs' /\ objs'[k] = objs[k]
    BY <1>1 DEF ObjectsStay, Reader
  <2> QED BY <2>1 DEF Listed, Messages!Fetched
<1>2. Window(requests[s])' = Window(requests[s])
  BY DEF ObjectsStay, Window, Messages!Decoded, Messages!Unmarshalled, Messages!IsLongestEnd, Messages!CostFrom,
         Messages!Cost
<1> QED BY <1>1, <1>2 DEF Reader, Reading, ObjectsStay

\* The same of all of them, but for those that read on or anew.
LEMMA ReadersStay ==
    ASSUME ReadersInv, ObjectsStay, KeysCountFromOne',
           \A s \in Requests : \/ requests'[s] = requests[s] \/ requests'[s].pc \notin Reading
                               \/ Reader(requests[s])'
    PROVE  ReadersInv'
<1>1. ASSUME NEW s \in Requests PROVE Reader(requests[s])'
  <2>1. CASE requests'[s] = requests[s]
    BY <2>1, ReaderStays DEF ReadersInv
  <2>2. CASE requests'[s].pc \notin Reading
    BY <2>2 DEF Reader, Reading
  <2> QED BY <2>1, <2>2
<1> QED BY <1>1 DEF ReadersInv

\* A step of one request, other than to a name or an object.
LEMMA OneReader ==
    ASSUME MessagesInv, ReadersInv, NEW r \in Requests, NEW q, Messages!Becomes(r, q),
           UNCHANGED <<kind, objs, seq>>, careless => careless',
           q.pc \notin {"name", "put"} \/ kind # "minio",
           q.pc \notin Reading \/ Reader(q)'
    PROVE  ReadersInv'
<1>1. requests'[r] = q /\ \A s \in Requests \ {r} : requests'[s] = requests[s]
  BY BecomesIs DEF MessagesInv
<1>2. KeysCountFromOne'
  BY <1>1, CountsStay DEF ReadersInv
<1>3. ObjectsStay
  BY DEF ObjectsStay
<1>4. q.pc \notin Reading \/ Reader(requests[r])'
  BY <1>1 DEF Reader, Reading, Listed, Window
<1>5. \A s \in Requests : \/ requests'[s] = requests[s] \/ requests'[s].pc \notin Reading
                          \/ Reader(requests[s])'
  <2>. HIDE DEF Reader
  <2> QED BY <1>1, <1>4
<1> QED BY <1>2, <1>3, <1>5, ReadersStay

\* A request begins.
LEMMA StartReads ==
    ASSUME MessagesInv, ReadersInv, NEW r \in Requests,
           Messages!Invoke(r) \/ Messages!AppendMedia(r) \/ Messages!Read(r)
    PROVE  ReadersInv'
<1>1. ASSUME NEW q0, DOMAIN q0 = RequestFields, Messages!Start(r, q0),
             q0.pc = "append" \/ (q0.pc = "list" /\ q0.at = 1 /\ q0.budget \in Budgets)
      PROVE  ReadersInv'
  <2>1. PICK p : Messages!Becomes(r, [q0 EXCEPT !.process = {p}])
    BY <1>1 DEF Messages!Start
  <2>2. PICK q : q = [q0 EXCEPT !.process = {p}]
    OBVIOUS
  <2>3. q.pc = q0.pc /\ q.at = q0.at /\ q.budget = q0.budget
    BY <1>1, <2>2 DEF RequestFields
  <2>4. UNCHANGED <<kind, objs, seq, careless>>
    BY <1>1 DEF Messages!Start
  <2>5. q.pc \notin Reading \/ Reader(q)'
    BY <1>1, <2>3 DEF Reading, Reader
  <2> QED BY <1>1, <2>1, <2>2, <2>3, <2>4, <2>5, OneReader
<1>2. DOMAIN Messages!NoRequest = RequestFields /\ Messages!NoRequest.at = 1
  BY DEF Messages!NoRequest, RequestFields
<1>3. ASSUME NEW todo, Messages!Start(r, [Messages!NoRequest EXCEPT !.pc = "append", !.todo = todo])
      PROVE  ReadersInv'
  <2>1. PICK q0 : q0 = [Messages!NoRequest EXCEPT !.pc = "append", !.todo = todo]
    OBVIOUS
  <2>2. DOMAIN q0 = RequestFields /\ q0.pc = "append"
    BY <1>2, <2>1 DEF RequestFields
  <2> QED BY <1>1, <1>3, <2>1, <2>2
<1>4. ASSUME NEW b \in Budgets, Messages!Start(r, [Messages!NoRequest EXCEPT !.pc = "list", !.budget = b])
      PROVE  ReadersInv'
  <2>1. PICK q0 : q0 = [Messages!NoRequest EXCEPT !.pc = "list", !.budget = b]
    OBVIOUS
  <2>2. DOMAIN q0 = RequestFields /\ q0.pc = "list" /\ q0.at = 1 /\ q0.budget = b
    BY <1>2, <2>1 DEF RequestFields
  <2> QED BY <1>1, <1>4, <2>1, <2>2
<1>5. CASE Messages!Invoke(r)
  BY <1>3, <1>5 DEF Messages!Invoke
<1>6. CASE Messages!AppendMedia(r)
  BY <1>3, <1>6 DEF Messages!AppendMedia
<1>7. CASE Messages!Read(r)
  BY <1>4, <1>7 DEF Messages!Read
<1> QED BY <1>5, <1>6, <1>7


\* Steps of appends that name nothing, and requests that end.
LEMMA AppendReads ==
    ASSUME MessagesInv, ReadersInv, NEW r \in Requests,
           Messages!BeginAppend(r) \/ Messages!EndRequest(r) \/ Messages!FailRead(r) \/ Messages!LoadSeq(r)
           \/ Messages!Insert(r)
    PROVE  ReadersInv'
<1>0. MessageTypes /\ DOMAIN requests[r] = RequestFields
  BY DEF MessagesInv, MessageTypes, Request
<1>1. UNCHANGED <<kind, objs, seq>> /\ (careless => careless')
  <2>1. UNCHANGED <<kind, objs, seq>>
    BY DEF Messages!BeginAppend, Messages!EndRequest, Messages!FailRead, Messages!LoadSeq, Messages!Insert
  <2>2. careless' = careless \/ careless' = (careless \/ ~Messages!Careful(r))
    BY DEF Messages!BeginAppend, Messages!EndRequest, Messages!FailRead, Messages!LoadSeq, Messages!Insert
  <2>3. careless => careless'
    BY <2>2, Zenon
  <2> QED BY <2>1, <2>3
<1>2. ASSUME NEW q, Messages!Becomes(r, q), q.pc \in {"idle", "append", "bump", "bumped", "insert"} \/ (q.pc = "name" /\ kind # "minio")
      PROVE  ReadersInv'
  <2>1. q.pc \notin Reading /\ (q.pc \notin {"name", "put"} \/ kind # "minio")
    BY <1>2 DEF Reading
  <2> QED BY <1>1, <1>2, <2>1, OneReader
<1>3. CASE Messages!BeginAppend(r)
  <2>1. PICK m, before : Messages!Becomes(r, [requests[r] EXCEPT !.msg = m, !.todo = Tail(@), !.before = before,
                           !.pc = IF kind = "minio" THEN "bump"
                                  ELSE IF kind = "hybrid" /\ Messages!HasMedia(m) THEN "name" ELSE "insert"])
    BY <1>3 DEF Messages!BeginAppend
  <2>2. PICK q : q = [requests[r] EXCEPT !.msg = m, !.todo = Tail(@), !.before = before,
                           !.pc = IF kind = "minio" THEN "bump"
                                  ELSE IF kind = "hybrid" /\ Messages!HasMedia(m) THEN "name" ELSE "insert"]
    OBVIOUS
  <2>3. q.pc \in {"bump", "insert"} \/ (q.pc = "name" /\ kind # "minio")
    BY <1>0, <2>2 DEF RequestFields
  <2> QED BY <1>2, <2>1, <2>2, <2>3
<1>4. CASE Messages!EndRequest(r) \/ Messages!FailRead(r)
  <2>1. Messages!Becomes(r, Messages!NoRequest) /\ Messages!NoRequest.pc = "idle"
    BY <1>4, NoRequestIs DEF Messages!EndRequest, Messages!FailRead
  <2> QED BY <1>2, <2>1
<1>5. CASE Messages!LoadSeq(r)
  <2>1. PICK q : q = [requests[r] EXCEPT !.pc = "bumped", !.loaded = seq[Messages!Process(r)]]
    OBVIOUS
  <2>2. Messages!Becomes(r, q) /\ q.pc = "bumped"
    BY <1>0, <1>5, <2>1 DEF RequestFields, Messages!LoadSeq
  <2> QED BY <1>2, <2>2
<1>6. CASE Messages!Insert(r)
  <2>1. PICK q : q = Messages!Continued(requests[r])
    OBVIOUS
  <2>2. Messages!Becomes(r, q)
    BY <1>6, <2>1 DEF Messages!Insert
  <2>3. requests[r].pc \in AppendSteps
    <3>1. requests[r].pc = "insert" /\ Request(requests[r])
      BY <1>0, <1>6 DEF MessageTypes, Messages!Insert
    <3> QED BY <3>1 DEF Request, Senders
  <2>4. q.pc \in {"idle", "append"}
    BY <1>0, <2>1, <2>3, ContinuedIs
  <2> QED BY <1>2, <2>2, <2>4
<1> QED BY <1>3, <1>4, <1>5, <1>6

\* The counter a name is taken from has been counted up.
LEMMA NameReads ==
    ASSUME MessagesInv, ReadersInv, NEW r \in Requests, Messages!StoreSeq(r) \/ Messages!Name(r)
    PROVE  ReadersInv'
<1>. DEFINE p == Messages!Process(r)
<1>0. MessageTypes /\ Request(requests[r]) /\ DOMAIN requests[r] = RequestFields /\ seq \in [Processes -> Nat]
  BY DEF MessagesInv, MessageTypes, Request
<1>1. kind' = kind /\ objs' = objs /\ (careless => careless')
  <2>1. kind' = kind /\ objs' = objs
    BY DEF Messages!StoreSeq, Messages!Name
  <2>2. careless' = careless \/ careless' = (careless \/ (kind = "hybrid" /\ ~Messages!Careful(r)))
    BY DEF Messages!StoreSeq, Messages!Name
  <2>3. careless => careless'
    BY <2>2, Zenon
  <2> QED BY <2>1, <2>3
<1>2. ObjectsStay
  BY <1>1 DEF ObjectsStay
<1>3. PICK q : Messages!Becomes(r, q) /\ q.pc \in {"name", "put"} /\ q.process = requests[r].process
               /\ (Messages!StoreSeq(r) => q.pc = "name")
               /\ (Messages!Name(r) => q.pc = "put" /\ (kind = "minio" => q.key = seq[p]))
  <2>1. CASE Messages!StoreSeq(r)
    <3>1. PICK q : q = [requests[r] EXCEPT !.pc = "name"]
      OBVIOUS
    <3>2. requests[r].pc = "bumped" /\ Messages!Becomes(r, q)
      BY <2>1, <3>1 DEF Messages!StoreSeq
    <3>3. ~Messages!Name(r)
      BY <3>2 DEF Messages!Name
    <3> QED BY <1>0, <3>1, <3>2, <3>3 DEF RequestFields
  <2>2. CASE Messages!Name(r)
    <3>1. PICK q : q = [requests[r] EXCEPT !.pc = "put", !.key = IF kind = "hybrid" THEN seq'[p] ELSE seq[p]]
      OBVIOUS
    <3>2. requests[r].pc = "name" /\ Messages!Becomes(r, q)
      BY <2>2, <3>1 DEF Messages!Name
    <3>3. ~Messages!StoreSeq(r)
      BY <3>2 DEF Messages!StoreSeq
    <3>4. q.pc = "put" /\ q.process = requests[r].process /\ (kind = "minio" => q.key = seq[p])
      BY <1>0, <3>1 DEF RequestFields
    <3> QED BY <3>2, <3>3, <3>4
  <2> QED BY <2>1, <2>2
<1>4. requests'[r] = q /\ \A s \in Requests \ {r} : requests'[s] = requests[s]
  BY <1>0, <1>3, BecomesIs
<1>5. \A s \in Requests : Messages!Process(s)' = Messages!Process(s)
  BY <1>3, <1>4 DEF Messages!Process
<1>6. KeysCountFromOne'
  <2>1. SUFFICES ASSUME kind = "minio" PROVE KeysCountFromOne'
    BY <1>1 DEF KeysCountFromOne
  <2>2. /\ 0 \notin DOMAIN objs
        /\ \A s \in Requests : /\ requests[s].pc = "name" => seq[Messages!Process(s)] # 0
                               /\ requests[s].pc = "put" => requests[s].key # 0
    BY <2>1 DEF ReadersInv, KeysCountFromOne
  <2>3. CASE Messages!StoreSeq(r)
    <3>1. seq' = [seq EXCEPT ![p] = requests[r].loaded + 1] /\ requests[r].loaded \in Nat /\ requests[r].pc = "bumped"
      BY <1>0, <2>3 DEF Messages!StoreSeq, Request
    <3>2. p \in Processes
      BY <1>0, <2>1, <3>1, ProcessIs, StepsAre DEF MessageTypes
    <3>3. seq'[p] # 0 /\ \A u \in Processes : u # p => seq'[u] = seq[u]
      BY <1>0, <3>1, <3>2
    <3>4. ASSUME NEW s \in Requests, requests'[s].pc = "name" PROVE seq'[Messages!Process(s)] # 0
      <4>1. CASE Messages!Process(s) = p
        BY <3>3, <4>1
      <4>2. CASE Messages!Process(s) # p
        <5>1. s # r /\ requests[s].pc = "name" /\ Request(requests[s])
          BY <1>0, <1>4, <3>4, <4>2 DEF MessageTypes
        <5>2. Messages!Process(s) \in Processes
          BY <1>0, <2>1, <5>1, ProcessIs, StepsAre DEF MessageTypes
        <5> QED BY <2>2, <3>3, <4>2, <5>1, <5>2
      <4> QED BY <4>1, <4>2
    <3>5. ASSUME NEW s \in Requests, requests'[s].pc = "put" PROVE requests'[s].key # 0
      BY <1>3, <1>4, <2>2, <2>3, <3>5
    <3> QED BY <1>1, <1>5, <2>2, <3>4, <3>5 DEF KeysCountFromOne
  <2>4. CASE Messages!Name(r)
    <3>1. seq' = seq /\ requests[r].pc = "name"
      BY <2>1, <2>4 DEF Messages!Name
    <3>2. q.pc = "put" /\ q.key # 0
      BY <1>3, <2>1, <2>2, <2>4, <3>1
    <3> QED BY <1>1, <1>4, <1>5, <2>2, <3>1, <3>2 DEF KeysCountFromOne
  <2> QED BY <2>3, <2>4
<1>7. \A s \in Requests : requests'[s] = requests[s] \/ requests'[s].pc \notin Reading
  BY <1>3, <1>4 DEF Reading
<1> QED BY <1>2, <1>6, <1>7, ReadersStay

\* An object is put under a key of its own: readers find what they listed.
LEMMA PutReads ==
    ASSUME MessagesInv, ReadersInv, NEW r \in Requests, Messages!Put(r)
    PROVE  ReadersInv'
<1>0. MessageTypes /\ Request(requests[r]) /\ requests[r].pc = "put" /\ requests[r].key \in Nat
      /\ DOMAIN objs \subseteq Nat
  BY DEF MessagesInv, MessageTypes, Request, Messages!Put
<1>1. requests[r].pc \in AppendSteps /\ kind \in {"hybrid", "minio"}
  <2>1. requests[r].pc \in AppendSteps
    BY <1>0 DEF Request, Senders
  <2> QED BY <1>0, <2>1, StepsAre DEF MessageTypes
<1>2. PICK stored, answered \in BOOLEAN :
         /\ objs' = IF stored THEN [k \in Messages!Keys \union {requests[r].key} |->
                                      IF k = requests[r].key THEN requests[r].msg ELSE objs[k]]
                    ELSE objs
         /\ Messages!Becomes(r, IF kind = "hybrid" /\ answered THEN [requests[r] EXCEPT !.pc = "insert"]
                                ELSE Messages!Continued(requests[r]))
  BY DEF Messages!Put
<1>3. kind' = kind /\ seq' = seq /\ careless' = careless
  BY DEF Messages!Put
<1>4. PICK q : q = IF kind = "hybrid" /\ answered THEN [requests[r] EXCEPT !.pc = "insert"]
                   ELSE Messages!Continued(requests[r])
  OBVIOUS
<1>5. q.pc \in {"idle", "append", "insert"}
  <2>1. CASE kind = "hybrid" /\ answered
    <3>1. q = [requests[r] EXCEPT !.pc = "insert"] /\ DOMAIN requests[r] = RequestFields
      BY <1>0, <1>4, <2>1 DEF Request
    <3> QED BY <3>1 DEF RequestFields
  <2>2. CASE ~(kind = "hybrid" /\ answered)
    BY <1>0, <1>1, <1>4, <2>2, ContinuedIs
  <2> QED BY <2>1, <2>2
<1>6. requests'[r] = q /\ \A s \in Requests \ {r} : requests'[s] = requests[s]
  BY <1>0, <1>2, <1>4, BecomesIs
<1>7. ASSUME ~careless PROVE requests[r].key \notin DOMAIN objs
  <2>1. KeysAreNew
    BY <1>7 DEF MessagesInv
  <2>2. CASE kind = "hybrid"
    BY <1>0, <2>1, <2>2 DEF KeysAreNew
  <2>3. CASE kind = "minio"
    <3>1. \A k \in DOMAIN objs : k < requests[r].key /\ k \in Nat
      BY <1>0, <2>1, <2>3 DEF KeysAreNew
    <3> QED BY <1>0, <3>1
  <2> QED BY <1>1, <2>2, <2>3
<1>8. DOMAIN objs' \subseteq DOMAIN objs \union {requests[r].key}
  BY <1>2 DEF Messages!Keys
<1>9. ObjectsStay
  <2>1. ASSUME ~careless, NEW k \in DOMAIN objs PROVE k \in DOMAIN objs' /\ objs'[k] = objs[k]
    BY <1>2, <1>7, <2>1 DEF Messages!Keys
  <2> QED BY <1>3, <2>1 DEF ObjectsStay
<1>10. KeysCountFromOne'
  <2>1. \A s \in Requests : requests'[s].pc \in {"name", "put"} =>
           requests'[s] = requests[s] /\ Messages!Process(s)' = Messages!Process(s)
    BY <1>5, <1>6 DEF Messages!Process
  <2> QED BY <1>0, <1>3, <1>8, <2>1 DEF ReadersInv, KeysCountFromOne
<1>11. \A s \in Requests : requests'[s] = requests[s] \/ requests'[s].pc \notin Reading
  BY <1>5, <1>6 DEF Reading
<1> QED BY <1>9, <1>10, <1>11, ReadersStay


\* What is listed is the history.
LEMMA ListingIs ==
    ASSUME MessagesInv, ReadersInv, ~careless, NEW got,
           got = IF kind = "minio"
                 THEN [i \in DOMAIN Messages!SortedKeys |-> [msg |-> <<>>, key |-> Messages!SortedKeys[i]]]
                 ELSE rows
    PROVE  /\ \E n \in Nat : DOMAIN Messages!History = 1..n /\ DOMAIN got = 1..n
           /\ \A i \in DOMAIN got :
                /\ DOMAIN got[i] = {"msg", "key"} /\ got[i].key \in DOMAIN objs \union {0}
                /\ Messages!Fetched(got[i]) = Messages!History[i]
<1>0. MessageTypes /\ KeysAreNew /\ KeysCountFromOne
  BY DEF MessagesInv, ReadersInv
<1>1. CASE kind = "minio"
  <2>0. DOMAIN objs \subseteq Nat /\ IsFiniteSet(DOMAIN objs) /\ 0 \notin DOMAIN objs
    BY <1>0, <1>1 DEF MessageTypes, KeysCountFromOne
  <2>. DEFINE N == Cardinality(DOMAIN objs)
              Nth(i) == CHOOSE l \in DOMAIN objs : Messages!Cardinality({j \in DOMAIN objs : j <= l}) = i
  <2>1. N \in Nat
    BY <2>0, FS_CardinalityType
  <2>2. Messages!SortedKeys = [i \in 1..Messages!Cardinality(DOMAIN objs) |-> Nth(i)]
    BY DEF Messages!SortedKeys, Messages!Keys
  <2>3. Messages!History = [i \in DOMAIN Messages!SortedKeys |-> objs[Messages!SortedKeys[i]]]
    BY <1>1 DEF Messages!History
  <2>4. ASSUME NEW i \in 1..N PROVE Nth(i) \in DOMAIN objs
    <3>1. PICK k \in DOMAIN objs : Rank[k] = i
      BY <2>0, RankIs
    <3>2. Messages!Cardinality({j \in DOMAIN objs : j <= k}) = i
      BY <3>1, SameCardinality DEF Rank
    <3> QED BY <3>2
  <2>5. DOMAIN Messages!SortedKeys = 1..N /\ \A i \in 1..N : Messages!SortedKeys[i] \in DOMAIN objs
    <3>1. Messages!Cardinality(DOMAIN objs) = N
      BY SameCardinality
    <3>. HIDE DEF N, Nth
    <3> QED BY <2>2, <2>4, <3>1
  <2>6. DOMAIN Messages!History = 1..N /\ \A i \in 1..N : Messages!History[i] = objs[Messages!SortedKeys[i]]
    <3>. HIDE DEF N
    <3> QED BY <2>3, <2>5
  <2>7. /\ DOMAIN got = 1..N
        /\ \A i \in 1..N : got[i] = [msg |-> <<>>, key |-> Messages!SortedKeys[i]]
    <3>. HIDE DEF N
    <3> QED BY <1>1, <2>5
  <2>8. ASSUME NEW i \in 1..N
        PROVE  /\ DOMAIN got[i] = {"msg", "key"} /\ got[i].key = Messages!SortedKeys[i]
    <3>1. PICK row : row = got[i]
      OBVIOUS
    <3>2. row = [msg |-> <<>>, key |-> Messages!SortedKeys[i]]
      BY <2>7, <3>1
    <3> QED BY <3>1, <3>2
  <2>9. ASSUME NEW i \in 1..N PROVE Messages!Fetched(got[i]) = Messages!History[i]
    <3>1. got[i].key \in DOMAIN objs /\ got[i].key # 0
      BY <2>0, <2>5, <2>8
    <3> QED BY <2>6, <2>8, <3>1 DEF Messages!Fetched
  <2>. HIDE DEF N
  <2> QED BY <2>1, <2>5, <2>6, <2>7, <2>8, <2>9
<1>2. CASE kind # "minio"
  <2>1. got = rows /\ Messages!History = [i \in DOMAIN rows |-> Messages!Fetched(rows[i])]
    BY <1>2 DEF Messages!History
  <2>2. rows \in Seq(AllRows) /\ DOMAIN rows = 1..Len(rows) /\ Len(rows) \in Nat
    BY <1>0 DEF MessageTypes
  <2>3. ASSUME NEW i \in DOMAIN rows
        PROVE  DOMAIN rows[i] = {"msg", "key"} /\ rows[i].key \in DOMAIN objs \union {0}
    <3>1. rows[i] \in AllRows
      BY <2>2, <2>3
    <3>2. rows[i].key \in DOMAIN objs \union {0}
      BY <1>0, <1>2, <2>3 DEF MessageTypes, KeysAreNew
    <3> QED BY <3>1, <3>2 DEF AllRows
  <2> QED BY <2>1, <2>2, <2>3
<1> QED BY <1>1, <1>2

\* Steps of a reader.
LEMMA ReaderReads ==
    ASSUME MessagesInv, ReadersInv, NEW r \in Requests,
           Messages!ListMessages(r) \/ Messages!Get(r) \/ Messages!Cut(r)
    PROVE  ReadersInv'
<1>0. MessageTypes /\ DOMAIN requests[r] = RequestFields /\ Reader(requests[r])
  BY DEF MessagesInv, MessageTypes, Request, ReadersInv
<1>1. kind' = kind /\ objs' = objs /\ seq' = seq /\ careless' = careless
  BY DEF Messages!ListMessages, Messages!Get, Messages!Cut
<1>2. \A row : Messages!Fetched(row)' = Messages!Fetched(row)
  BY <1>1 DEF Messages!Fetched
<1>3. requests[r].budget \in Budgets
  BY <1>0 DEF Reader, Reading, Messages!ListMessages, Messages!Get, Messages!Cut
<1>4. ASSUME NEW q, Messages!Becomes(r, q), q.pc = "get", q.budget = requests[r].budget, ~careless => Listed(q)
      PROVE  ReadersInv'
  <2>1. ~careless => Listed(q)'
    BY <1>1, <1>2, <1>4 DEF Listed
  <2>2. Reader(q)'
    BY <1>1, <1>3, <1>4, <2>1 DEF Reader, Reading
  <2> QED BY <1>1, <1>4, <2>2, OneReader
<1>5. CASE Messages!ListMessages(r)
  <2>1. PICK got : got = IF kind = "minio"
                         THEN [i \in DOMAIN Messages!SortedKeys |-> [msg |-> <<>>, key |-> Messages!SortedKeys[i]]]
                         ELSE rows
    OBVIOUS
  <2>2. PICK h : h = Messages!History
    OBVIOUS
  <2>3. PICK q : q = [requests[r] EXCEPT !.pc = "get", !.snapshot = h, !.got = got]
    OBVIOUS
  <2>4. Messages!Becomes(r, q) /\ requests[r].pc = "list"
    BY <1>5, <2>1, <2>2, <2>3 DEF Messages!ListMessages
  <2>5. q.pc = "get" /\ q.budget = requests[r].budget /\ q.snapshot = h /\ q.got = got /\ q.at = 1
    BY <1>0, <2>3, <2>4 DEF RequestFields, Reader
  <2>6. ASSUME ~careless PROVE Listed(q)
    <3>1. /\ \E n \in Nat : DOMAIN h = 1..n /\ DOMAIN got = 1..n
          /\ \A i \in DOMAIN got :
                /\ DOMAIN got[i] = {"msg", "key"} /\ got[i].key \in DOMAIN objs \union {0}
                /\ Messages!Fetched(got[i]) = h[i]
      BY <2>1, <2>2, <2>6, ListingIs
    <3>2. \A i \in DOMAIN got : ~(i < 1)
      BY <3>1
    <3> QED BY <2>5, <3>1, <3>2 DEF Listed
  <2> QED BY <1>4, <2>4, <2>5, <2>6
<1>6. CASE Messages!Get(r)
  <2>1. PICK m : m = Messages!Fetched(requests[r].got[requests[r].at])
    OBVIOUS
  <2>2. PICK q : q = [requests[r] EXCEPT !.at = @ + 1, !.got[requests[r].at].msg = m]
    OBVIOUS
  <2>3. Messages!Becomes(r, q) /\ requests[r].pc = "get" /\ requests[r].at <= Len(requests[r].got)
    BY <1>6, <2>1, <2>2 DEF Messages!Get
  <2>4. PICK got : got = [requests[r].got EXCEPT ![requests[r].at].msg = m]
    OBVIOUS
  <2>5. /\ q.pc = "get" /\ q.budget = requests[r].budget /\ q.snapshot = requests[r].snapshot
        /\ q.at = requests[r].at + 1 /\ q.got = got
    BY <1>0, <2>2, <2>3, <2>4 DEF RequestFields
  <2>6. ASSUME ~careless PROVE Listed(q)
    <3>1. Listed(requests[r])
      BY <1>0, <2>3, <2>6 DEF Reader
    <3>2. PICK n \in Nat : DOMAIN requests[r].snapshot = 1..n /\ DOMAIN requests[r].got = 1..n
      BY <3>1 DEF Listed
    <3>3. PICK at \in Nat \ {0} : at = requests[r].at
      BY <3>1 DEF Listed
    <3>4. DOMAIN got = 1..n /\ \A i \in 1..n : i # at => got[i] = requests[r].got[i]
      BY <2>4, <3>2, <3>3
    <3>5. at \in 1..n => got[at] = [requests[r].got[at] EXCEPT !.msg = m]
      BY <2>4, <3>2, <3>3
    <3>6. at \in 1..n => DOMAIN requests[r].got[at] = {"msg", "key"}
      BY <3>1, <3>2 DEF Listed
    <3>7. at \in 1..n => DOMAIN got[at] = {"msg", "key"} /\ got[at].msg = m /\ got[at].key = requests[r].got[at].key
      BY <3>5, <3>6
    <3>8. at \in 1..n => m = requests[r].snapshot[at]
      BY <2>1, <3>1, <3>2, <3>3 DEF Listed
    <3>9. ASSUME NEW i \in 1..n
          PROVE  /\ DOMAIN got[i] = {"msg", "key"} /\ got[i].key \in DOMAIN objs \union {0}
                 /\ i < at + 1 => got[i].msg = requests[r].snapshot[i]
                 /\ at + 1 <= i => Messages!Fetched(got[i]) = requests[r].snapshot[i]
      <4>1. CASE i = at
        BY <3>1, <3>2, <3>3, <3>7, <3>8, <4>1 DEF Listed
      <4>2. CASE i # at
        <5>1. got[i] = requests[r].got[i] /\ (i < at + 1 => i < at) /\ (at + 1 <= i => at <= i)
          BY <3>4, <4>2
        <5> QED BY <3>1, <3>2, <3>3, <5>1 DEF Listed
      <4> QED BY <4>1, <4>2
    <3>10. at + 1 \in Nat \ {0}
      OBVIOUS
    <3> QED BY <2>5, <3>2, <3>3, <3>4, <3>9, <3>10 DEF Listed
  <2> QED BY <1>4, <2>3, <2>5, <2>6
<1>7. CASE Messages!Cut(r)
  <2>1. PICK msgs : msgs = [i \in DOMAIN requests[r].got |-> Messages!Decoded(requests[r].got[i].msg)]
    OBVIOUS
  <2>2. PICK q : q = [requests[r] EXCEPT !.pc = "answered", !.got = Messages!ApplyWindow(msgs, requests[r].budget)]
    OBVIOUS
  <2>3. Messages!Becomes(r, q) /\ requests[r].pc = "get" /\ requests[r].at > Len(requests[r].got)
    BY <1>7, <2>1, <2>2 DEF Messages!Cut
  <2>4. /\ q.pc = "answered" /\ q.budget = requests[r].budget /\ q.snapshot = requests[r].snapshot
        /\ q.got = Messages!ApplyWindow(msgs, q.budget)
    BY <1>0, <2>2 DEF RequestFields
  <2>5. ASSUME ~careless PROVE Window(q)
    <3>1. Listed(requests[r])
      BY <1>0, <2>3, <2>5 DEF Reader
    <3>2. PICK n \in Nat : DOMAIN requests[r].snapshot = 1..n /\ DOMAIN requests[r].got = 1..n
      BY <3>1 DEF Listed
    <3>3. PICK all : all = [i \in DOMAIN q.snapshot |-> Messages!Decoded(q.snapshot[i])]
      OBVIOUS
    <3>4. Len(requests[r].got) = n
      BY <3>2
    <3>5. \A i \in 1..n : requests[r].got[i].msg = requests[r].snapshot[i]
      <4>1. \A i \in 1..n : i < requests[r].at
        BY <2>3, <3>1, <3>4 DEF Listed
      <4> QED BY <3>1, <3>2, <4>1 DEF Listed
    <3>6. msgs = all
      BY <2>1, <2>4, <3>2, <3>3, <3>5
    <3>7. Len(all) = n
      BY <2>4, <3>2, <3>3
    <3>8. q.budget \in Nat
      BY <1>3, <2>4, BudgetsAre
    <3>9. CASE q.budget = 0
      BY <2>4, <3>3, <3>6, <3>9 DEF Window, Messages!ApplyWindow
    <3>10. CASE q.budget # 0
      <4>1. q.got = Messages!Walk(all, q.budget, TRUE)
        BY <2>4, <3>6, <3>10 DEF Messages!ApplyWindow
      <4>2. Messages!IsLongestEnd(q.got, all, q.budget)
        BY <3>7, <3>8, <4>1, WindowIs
      <4> QED BY <3>3, <3>10, <4>2 DEF Window
    <3> QED BY <3>9, <3>10
  <2>6. Window(q)' = Window(q)
    BY <1>1 DEF Window, Messages!Decoded, Messages!Unmarshalled, Messages!IsLongestEnd, Messages!CostFrom,
           Messages!Cost
  <2>7. Reader(q)'
    BY <1>1, <1>3, <2>4, <2>5, <2>6 DEF Reader, Reading
  <2>8. careless => careless'
    BY <1>1, Zenon
  <2>9. q.pc \notin {"name", "put"}
    BY <2>4
  <2> QED BY <1>1, <2>3, <2>7, <2>8, <2>9, OneReader
<1> QED BY <1>5, <1>6, <1>7


\* A process that ends takes its readers with it.
LEMMA RestartReads ==
    ASSUME MessagesInv, ReadersInv, NEW p \in Processes, Messages!Restart(p) \/ Messages!Restore(p)
    PROVE  ReadersInv'
<1>0. MessageTypes /\ seq \in [Processes -> Nat] /\ DOMAIN requests = Requests
  BY DEF MessagesInv, MessageTypes
<1>1. kind' = kind /\ objs' = objs /\ careless' = careless
  BY DEF Messages!Restart, Messages!Restore
<1>2. \E n : seq' = [seq EXCEPT ![p] = n]
  BY DEF Messages!Restart, Messages!Restore
<1>3. ASSUME NEW s \in Requests
      PROVE  requests'[s] = Messages!NoRequest \/ (requests'[s] = requests[s] /\ p \notin requests[s].process)
  BY <1>0 DEF Messages!Restart, Messages!Restore
<1>4. "idle" \notin Reading /\ Messages!NoRequest.pc = "idle"
  BY NoRequestIs DEF Reading
<1>5. \A s \in Requests : requests'[s] = requests[s] \/ requests'[s].pc \notin Reading
  BY <1>3, <1>4
<1>6. KeysCountFromOne'
  <2>1. SUFFICES ASSUME kind = "minio" PROVE KeysCountFromOne'
    BY <1>1 DEF KeysCountFromOne
  <2>2. 0 \notin DOMAIN objs'
    BY <1>1, <2>1 DEF ReadersInv, KeysCountFromOne
  <2>3. ASSUME NEW s \in Requests, requests'[s].pc \in {"name", "put"}
        PROVE  /\ requests'[s].pc = "name" => seq'[Messages!Process(s)'] # 0
               /\ requests'[s].pc = "put" => requests'[s].key # 0
    <3>1. requests'[s] = requests[s] /\ p \notin requests[s].process
      BY <1>3, <1>4, <2>3
    <3>2. Request(requests[s]) /\ requests[s].pc \in Senders
      BY <1>0, <2>1, <2>3, <3>1, StepsAre DEF MessageTypes
    <3>3. requests[s].process = {Messages!Process(s)} /\ Messages!Process(s) \in Processes
      BY <2>1, <3>2, ProcessIs
    <3>4. Messages!Process(s)' = Messages!Process(s)
      BY <3>1 DEF Messages!Process
    <3>5. seq'[Messages!Process(s)] = seq[Messages!Process(s)]
      BY <1>0, <1>2, <3>1, <3>3
    <3> QED BY <2>1, <3>1, <3>4, <3>5 DEF ReadersInv, KeysCountFromOne
  <2> QED BY <2>2, <2>3 DEF KeysCountFromOne
<1>7. ObjectsStay
  BY <1>1 DEF ObjectsStay
<1> QED BY <1>5, <1>6, <1>7, ReadersStay

LEMMA ReadersInitially == Messages!Init => ReadersInv
<1>. SUFFICES ASSUME Messages!Init PROVE ReadersInv
  OBVIOUS
<1>1. objs = <<>> /\ \A r \in Requests : requests[r] = Messages!NoRequest
  BY DEF Messages!Init
<1>2. DOMAIN objs = {} /\ \A r \in Requests : requests[r].pc = "idle"
  BY <1>1, NoRequestIs
<1> QED BY <1>2 DEF ReadersInv, KeysCountFromOne, Reader, Reading

LEMMA ReadersStepKeeps == MessagesInv /\ ReadersInv /\ [Messages!Next]_(Messages!storeVars) => ReadersInv'
<1>. SUFFICES ASSUME MessagesInv, ReadersInv, [Messages!Next]_(Messages!storeVars) PROVE ReadersInv'
  OBVIOUS
<1>1. ASSUME NEW r \in Requests,
             Messages!Invoke(r) \/ Messages!AppendMedia(r) \/ Messages!Read(r)
      PROVE  ReadersInv'
  BY <1>1, StartReads
<1>2. ASSUME NEW r \in Requests,
             Messages!BeginAppend(r) \/ Messages!EndRequest(r) \/ Messages!FailRead(r) \/ Messages!LoadSeq(r)
             \/ Messages!Insert(r)
      PROVE  ReadersInv'
  BY <1>2, AppendReads
<1>3. ASSUME NEW r \in Requests, Messages!StoreSeq(r) \/ Messages!Name(r) \/ Messages!Put(r)
      PROVE  ReadersInv'
  BY <1>3, NameReads, PutReads
<1>4. ASSUME NEW r \in Requests, Messages!ListMessages(r) \/ Messages!Get(r) \/ Messages!Cut(r)
      PROVE  ReadersInv'
  BY <1>4, ReaderReads
<1>5. ASSUME NEW p \in Processes, Messages!Restart(p) \/ Messages!Restore(p)
      PROVE  ReadersInv'
  BY <1>5, RestartReads
<1>6. CASE UNCHANGED Messages!storeVars
  <2>1. UNCHANGED <<kind, objs, seq, requests, careless>>
    BY <1>6 DEF Messages!storeVars
  <2>2. KeysCountFromOne'
    BY <2>1, CountsStay DEF ReadersInv
  <2>3. ObjectsStay
    BY <2>1 DEF ObjectsStay
  <2> QED BY <2>1, <2>2, <2>3, ReadersStay
<1> QED BY <1>1, <1>2, <1>3, <1>4, <1>5, <1>6 DEF Messages!Next

\* What a reader is answered is a window.
LEMMA ReadersInvIsWindow == ReadersInv => Messages!WindowIsLongestEnd
<1>. SUFFICES ASSUME ReadersInv, NEW r \in Requests, requests[r].pc = "answered", ~careless
              PROVE  LET all == [i \in DOMAIN requests[r].snapshot |-> Messages!Decoded(requests[r].snapshot[i])]
                     IN IF requests[r].budget = 0 THEN requests[r].got = all
                        ELSE Messages!IsLongestEnd(requests[r].got, all, requests[r].budget)
  BY DEF Messages!WindowIsLongestEnd
<1>1. Window(requests[r])
  BY DEF ReadersInv, Reader
<1> QED BY <1>1 DEF Window

-----------------------------------------------------------------------------
(* The invariants, and what they say of the composition.                   *)

\* The inductive invariant of GitStores: how far the working tree and the index are from the last commit
\* at each file operation of the writer under way, and what the calls that failed before it have left,
\* each at any of its operations.
THEOREM GitInvariance == Git!Spec => []GitInv
  BY GitInitially, GitStepKeeps, PTL DEF Git!Spec

\* The inductive invariant of MessageStores: messages to come and keys to come are new, and what is
\* acknowledged is in its place.
THEOREM MessagesInvariance == Messages!Spec => []MessagesInv
  BY MessagesInitially, MessagesStepKeeps, PTL DEF Messages!Spec

\* The inductive invariant of a reader of messages: what it has fetched, and what it has still to fetch,
\* is the history it has listed, whatever is appended meanwhile.
THEOREM ReadersInvariance == Messages!Spec => [](MessagesInv /\ ReadersInv)
<1>1. Messages!Init => MessagesInv /\ ReadersInv
  BY MessagesInitially, ReadersInitially
<1>2. (MessagesInv /\ ReadersInv) /\ [Messages!Next]_(Messages!storeVars) => (MessagesInv /\ ReadersInv)'
  BY MessagesStepKeeps, ReadersStepKeeps
<1> QED BY <1>1, <1>2, PTL DEF Messages!Spec

\* Each family of the composition behaves as its own module says, or stays as it is.
LEMMA FamiliesBehave == StoresSpec => Spec /\ Messages!Spec /\ Git!Spec /\ Prompts!Spec
<1>1. StoresInit => Init /\ Messages!Init /\ Git!Init /\ Prompts!Init
  BY DEF StoresInit
<1>2. [StoresNext]_vars => [Next]_agentVars
  BY DEF StoresNext, vars
<1>3. [StoresNext]_vars => [Messages!Next]_(Messages!storeVars)
  BY DEF StoresNext, vars, storeVars, Messages!storeVars
<1>4. [StoresNext]_vars => [Git!Next]_(Git!gitVars)
  BY DEF StoresNext, vars, gitVars, Git!gitVars
<1>5. [StoresNext]_vars => [Prompts!Next]_(Prompts!promptVars)
  BY DEF StoresNext, vars, promptVars, Prompts!promptVars
<1> QED BY <1>1, <1>2, <1>3, <1>4, <1>5, PTL DEF StoresSpec, Spec, Messages!Spec, Git!Spec, Prompts!Spec

\* commitSpec, Activate and Delete of the git stores: no commit holds half of what its writer wrote, and a
\* pointer comes with its version, whichever operations of whichever calls have failed, as long as the
\* working tree is used by one writer at a time.  A version whose Create failed and left its file is
\* excepted: Activate takes the file for the version.
THEOREM CommitsAreKeptWhole == StoresSpec => []CommitsAreWhole
<1>1. GitInv => CommitsAreWhole
  BY GitInvIsWhole DEF CommitsAreWhole
<1> QED BY <1>1, GitInvariance, FamiliesBehave, PTL

\* The same calls: between them, the branches are what the calls that returned nil amount to; one that
\* failed before its commit has changed none, and what it left gets into none, but for the versions whose
\* Create failed and left a file, which a second Create takes for committed.
THEOREM BranchesAreKept == StoresSpec => []BranchesAreAsPromised
<1>1. GitInv => BranchesAreAsPromised
  BY GitInvIsPromised DEF BranchesAreAsPromised
<1> QED BY <1>1, GitInvariance, FamiliesBehave, PTL

\* Append of the message stores: every message acknowledged is in the history, once and behind those
\* acknowledged before it was appended, through lost answers, failures and restarts.
THEOREM MessagesAreKept == StoresSpec => []AcknowledgedAreKept
<1>1. MessagesInv => AcknowledgedAreKept
  BY MessagesInvIsKept DEF AcknowledgedAreKept
<1> QED BY <1>1, MessagesInvariance, FamiliesBehave, PTL

\* applyWindow and the reads of the message stores: a reader is answered the longest end of the history that
\* fits its budget, as the history was when it was listed, though objects are fetched one at a time while
\* others append.
THEOREM WindowsAreLongestEnds == StoresSpec => []WindowIsLongestEnd
<1>1. ReadersInv => WindowIsLongestEnd
  BY ReadersInvIsWindow DEF WindowIsLongestEnd
<1> QED BY <1>1, ReadersInvariance, FamiliesBehave, PTL

\* NewFSStore, watchLoop and Watch: once all events are handled, the store serves what is in the
\* files and its subscribers have been sent it.
THEOREM ChangesReachTheStore == StoresSpec => []ChangesArrive
<1>1. PromptsInv => ChangesArrive
  BY PromptsInvArrives DEF ChangesArrive
<1> QED BY <1>1, PromptsInvariance, FamiliesBehave, PTL

\* PromptComposer.Render: the fragments are the template's, in its order, each as the store served it
\* at some time during the call, however fetches overtake one another and files change meanwhile.
THEOREM RendersKeepTheOrder == StoresSpec => []RendersAreOrdered
<1>1. RendersInv => RendersAreOrdered
  <2> SUFFICES ASSUME RendersInv, NEW c \in Composers, renders[c].pc = "rendered", NEW i \in DOMAIN renders[c].refs
               PROVE  /\ renders[c].work[i][1] = renders[c].refs[i]
                      /\ renders[c].work[i][2] \in renders[c].from[i]..mem[renders[c].refs[i]]
    BY DEF RendersAreOrdered, Prompts!RendersAreOrdered
  <2>1. RenderIs(renders[c])
    BY DEF RendersInv
  <2> QED BY <2>1 DEF RenderIs
<1> QED BY <1>1, RendersInvariance, FamiliesBehave, PTL
=============================================================================
