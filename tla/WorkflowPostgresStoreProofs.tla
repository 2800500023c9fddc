-------------------- MODULE WorkflowPostgresStoreProofs --------------------
(***************************************************************************)
(* For any versions and callers: row locks are exclusive, Activate calls   *)
(* that do not overlap leave one active version, and a name loses its      *)
(* active version in a Delete only.                                        *)
(***************************************************************************)
EXTENDS WorkflowPostgresStore, TLAPS

Method == [op : {"idle", "Create", "Activate", "Delete"},
           version : Versions \union {None},
           stmt : {"none", "resurrect?", "resurrect", "insert", "exists?",
                   "demote?", "demote", "promote?", "promote", "commit",
                   "delete?", "delete"},
           todo : SUBSET Versions]

Updates == {"resurrect", "demote", "promote", "delete"}

\* The statements of each method; rows are selected by an UPDATE only.
Shape(c) ==
    /\ \/ c.op = "idle" /\ c.stmt = "none"
       \/ c.op = "Create" /\ c.version \in Versions /\ c.stmt \in {"resurrect?", "resurrect", "insert"}
       \/ c.op = "Activate" /\ c.version \in Versions
          /\ c.stmt \in {"exists?", "demote?", "demote", "promote?", "promote", "commit"}
       \/ c.op = "Delete" /\ c.stmt \in {"exists?", "delete?", "delete"}
    /\ c.todo # {} => c.stmt \in Updates

InService(r) == r # None /\ r.status = "active"
Look(s, r, w) == IF s[w] # None THEN s[w] ELSE r[w]

\* What a call c has written in s, and how it relates to the committed rows r.
Sound(c, s, r) ==
    /\ \A w \in Versions : s[w] # None =>
           /\ r[w] # None
           /\ c.stmt \in Updates \union {"promote?", "commit"}
           /\ c.op = "Create" => s[w].status = r[w].status
           /\ c.op = "Delete" => s[w].status = "draft"
    /\ c.stmt \in {"demote?", "demote", "promote?", "promote", "commit"} => r[c.version] # None
    /\ c.stmt = "promote" => c.version \in c.todo \/ InService(s[c.version])
    /\ c.stmt = "commit" => InService(s[c.version])

\* What an Activate that has no rival knows at each of its statements.
Turn(c, s, r) ==
    \A w \in Versions : InService(Look(s, r, w)) =>
        /\ c.stmt = "demote" => w \in c.todo
        /\ c.stmt # "promote?"
        /\ c.stmt \in {"promote", "commit"} => w = c.version

OneActive(r) == \A v, w \in Versions : InService(r[v]) /\ InService(r[w]) => v = w

NoRivals == \A p, q \in Procs : call[p].op = "Activate" /\ call[q].op = "Activate" => p = q

InTurn == NoRivals /\ OneActive(row) /\ \A p \in Procs : Turn(call[p], staged[p], row)

IInv ==
    /\ TypeOK
    /\ \A p \in Procs : Shape(call[p]) /\ Sound(call[p], staged[p], row)
    /\ RowsAreLockedOnce
    /\ ~overlapped => InTurn

-----------------------------------------------------------------------------
LEMMA Types ==
    ASSUME TypeOK
    PROVE  /\ row \in [Versions -> Row \union {None}]
           /\ call \in [Procs -> Method]
           /\ staged \in [Procs -> [Versions -> Row \union {None}]]
           /\ overlapped \in BOOLEAN
  BY DEF TypeOK, Method

LEMMA IdleMethod == Idle \in Method /\ Idle.op = "idle" /\ Idle.stmt = "none" /\ Idle.todo = {}
  BY DEF Idle, Method

LEMMA RowFields == \A r \in Row : r # None /\ r.status \in {"draft", "active"} /\ r.deleted \in BOOLEAN
  BY NoneIsNoRow DEF Row

\* What a step of q does to the committed rows: it leaves a row alone, inserts it, or commits
\* what it has written.
RowsBy(q) ==
    \A w \in Versions :
        \/ row'[w] = row[w]
        \/ row[w] = None /\ row'[w] # None /\ row'[w].status = "draft"
        \/ staged[q][w] # None /\ row'[w] = staged[q][w]

\* A step of q keeps the invariant when it keeps q's part of it: the other calls do not see the
\* rows q commits, as they do not hold them, and none of them becomes active but in an Activate.
LEMMA StepOf ==
    ASSUME IInv, NEW q \in Procs,
           row' \in [Versions -> Row \union {None}], RowsBy(q),
           call' \in [Procs -> Method], \A p \in Procs : p # q => call'[p] = call[p],
           staged' \in [Procs -> [Versions -> Row \union {None}]],
           \A p \in Procs : p # q => staged'[p] = staged[p],
           \A w \in Versions : staged'[q][w] # None /\ staged[q][w] = None => ~LockedByOther(q, w),
           Shape(call'[q]), Sound(call'[q], staged'[q], row'),
           overlapped' \in BOOLEAN, overlapped => overlapped',
           ~overlapped' => OneActive(row') /\ Turn(call'[q], staged'[q], row'),
           ~overlapped' /\ call'[q].op = "Activate" => \A p \in Procs \ {q} : call[p].op # "Activate",
           ~overlapped' /\ row' # row /\ call[q].op \notin {"Create", "Delete"} => call[q].op = "Activate"
    PROVE  IInv'
<1>1. TypeOK'
  BY DEF TypeOK, Method
<1>2. RowsAreLockedOnce'
  BY DEF IInv, RowsAreLockedOnce, LockedByOther
<1>3. \A p \in Procs \ {q}, w \in Versions : staged[p][w] # None => row'[w] = row[w]
  BY DEF IInv, Sound, RowsAreLockedOnce, RowsBy
<1>4. \A w \in Versions : row[w] # None => row'[w] # None
  BY DEF RowsBy
<1>5. ASSUME NEW p \in Procs \ {q} PROVE Shape(call[p]) /\ Sound(call[p], staged[p], row')
  <2>1. Shape(call[p]) /\ Sound(call[p], staged[p], row)
    BY DEF IInv
  <2>2. call[p].stmt \in {"demote?", "demote", "promote?", "promote", "commit"} => call[p].version \in Versions
    BY <2>1 DEF Shape
  <2> QED BY <1>3, <1>4, <2>1, <2>2 DEF Sound
<1>6. ASSUME ~overlapped' PROVE InTurn'
  <2>1. ~overlapped /\ InTurn
    BY <1>6 DEF IInv
  <2>2. NoRivals'
    BY <1>6, <2>1 DEF InTurn, NoRivals
  <2>3. ASSUME NEW p \in Procs \ {q} PROVE Turn(call[p], staged[p], row')
    <3>1. CASE call[p].op # "Activate"
      BY <3>1, <1>5 DEF Shape, Turn
    <3>2. CASE call[p].op = "Activate"
      <4>1. call[q].op # "Activate"
        BY <2>1, <3>2 DEF InTurn, NoRivals
      <4>2. \A w \in Versions : InService(row'[w]) => InService(row[w])
        <5> SUFFICES ASSUME NEW w \in Versions, InService(row'[w]), row'[w] # row[w] PROVE InService(row[w])
          OBVIOUS
        <5>1. staged[q][w] # None /\ row'[w] = staged[q][w] /\ staged[q][w].status = "active"
          BY DEF RowsBy, InService
        <5>2. call[q].op \in {"Create", "Delete"}
          BY <1>6, <4>1
        <5>3. row[w] # None /\ row[w].status = "active"
          BY <5>1, <5>2 DEF IInv, Sound
        <5> QED BY <5>3 DEF InService
      <4>3. \A w \in Versions : InService(Look(staged[p], row', w)) => InService(Look(staged[p], row, w))
        BY <4>2 DEF Look
      <4>4. Turn(call[p], staged[p], row)
        BY <2>1 DEF InTurn
      <4> QED BY <4>3, <4>4 DEF Turn
    <3> QED BY <3>1, <3>2
  <2>4. \A p \in Procs : Turn(call'[p], staged'[p], row')
    BY <1>6, <2>3
  <2>5. OneActive(row')
    BY <1>6
  <2> QED BY <2>2, <2>4, <2>5 DEF InTurn
<1>7. \A p \in Procs : Shape(call'[p]) /\ Sound(call'[p], staged'[p], row')
  BY <1>5
<1> QED BY <1>1, <1>2, <1>6, <1>7 DEF IInv

LEMMA InitInv == Init => IInv
<1> SUFFICES ASSUME Init PROVE IInv
  OBVIOUS
<1>1. /\ \A p \in Procs : call[p] = Idle /\ \A w \in Versions : staged[p][w] = None
      /\ \A w \in Versions : row[w] = None
  BY DEF Init
<1>2. TypeOK
  BY IdleMethod DEF Init, TypeOK, Method
<1>3. \A p \in Procs : Shape(call[p]) /\ Sound(call[p], staged[p], row)
  BY <1>1, IdleMethod DEF Shape, Sound
<1>4. RowsAreLockedOnce
  BY <1>1 DEF RowsAreLockedOnce
<1>5. InTurn
  BY <1>1, IdleMethod DEF InTurn, NoRivals, OneActive, InService, Turn, Look
<1> QED BY <1>2, <1>3, <1>4, <1>5 DEF IInv

-----------------------------------------------------------------------------
(* The steps.                                                              *)

LEMMA CallIs ==
    ASSUME TypeOK, NEW q \in Procs, NEW c \in Method, call' = [call EXCEPT ![q] = c]
    PROVE  /\ call' \in [Procs -> Method] /\ call'[q] = c
           /\ \A p \in Procs : p # q => call'[p] = call[p]
  BY Types

LEMMA StagedIs ==
    ASSUME TypeOK, NEW q \in Procs, NEW s \in [Versions -> Row \union {None}],
           staged' = [staged EXCEPT ![q] = s]
    PROVE  /\ staged' \in [Procs -> [Versions -> Row \union {None}]] /\ staged'[q] = s
           /\ \A p \in Procs : p # q => staged'[p] = staged[p]
  BY Types

LEMMA GotoCall ==
    ASSUME TypeOK, NEW q \in Procs, NEW stmt \in {"insert", "demote?", "promote?", "commit", "delete?"}, Goto(q, stmt)
    PROVE  \E c \in Method : /\ call' = [call EXCEPT ![q] = c]
                             /\ c.op = call[q].op /\ c.version = call[q].version
                             /\ c.stmt = stmt /\ c.todo = {}
<1>1. call[q] \in Method
  BY Types
<1>2. PICK c : c = [call[q] EXCEPT !.stmt = stmt, !.todo = {}]
  OBVIOUS
<1>3. c \in Method /\ c.op = call[q].op /\ c.version = call[q].version /\ c.stmt = stmt /\ c.todo = {}
  BY <1>1, <1>2 DEF Method
<1>4. call' = [call EXCEPT ![q] = c]
  BY <1>2, Types DEF Goto
<1> QED BY <1>3, <1>4

\* A call that has written nothing knows all that is to be known of an idle one.
LEMMA IdleKnows ==
    ASSUME NEW r \in [Versions -> Row \union {None}], NEW s \in [Versions -> Row \union {None}],
           \A w \in Versions : s[w] = None
    PROVE  Shape(Idle) /\ Sound(Idle, s, r) /\ Turn(Idle, s, r)
  BY IdleMethod DEF Shape, Sound, Turn

\* A step that leaves the rows alone.
LEMMA QuietStep ==
    ASSUME IInv, NEW q \in Procs, NEW c \in Method, call' = [call EXCEPT ![q] = c], row' = row,
           NEW s \in [Versions -> Row \union {None}], staged' = [staged EXCEPT ![q] = s],
           \A w \in Versions : s[w] # None /\ staged[q][w] = None => ~LockedByOther(q, w),
           Shape(c), Sound(c, s, row), ~overlapped => Turn(c, s, row),
           overlapped' = overlapped, c.op \in {"idle", call[q].op}
    PROVE  IInv'
<1> USE DEF IInv
<1>1. /\ call' \in [Procs -> Method] /\ call'[q] = c
      /\ \A p \in Procs : p # q => call'[p] = call[p]
  BY CallIs
<1>2. /\ staged' \in [Procs -> [Versions -> Row \union {None}]] /\ staged'[q] = s
      /\ \A p \in Procs : p # q => staged'[p] = staged[p]
  BY StagedIs
<1>3. row' \in [Versions -> Row \union {None}] /\ RowsBy(q) /\ overlapped' \in BOOLEAN
  BY Types DEF RowsBy
<1>4. ~overlapped' => OneActive(row')
  BY DEF InTurn
<1>5. ~overlapped' /\ c.op = "Activate" => \A p \in Procs \ {q} : call[p].op # "Activate"
  BY DEF InTurn, NoRivals
<1> HIDE DEF IInv
<1> QED BY <1>1, <1>2, <1>3, <1>4, <1>5, StepOf

LEMMA StartStep ==
    ASSUME IInv, NEW q \in Procs, NEW v \in Versions \union {None},
           NEW op \in {"Create", "Activate", "Delete"}, NEW stmt \in {"resurrect?", "exists?"},
           Start(q, op, v, stmt),
           op = "Create" => v \in Versions /\ stmt = "resurrect?",
           op = "Activate" => v \in Versions /\ stmt = "exists?",
           op = "Delete" => stmt = "exists?"
    PROVE  IInv'
<1>1. PICK c : c = [op |-> op, version |-> v, stmt |-> stmt, todo |-> {}]
  OBVIOUS
<1>2. c \in Method /\ c.op = op /\ c.version = v /\ c.stmt = stmt /\ c.todo = {}
  BY <1>1 DEF Method
<1>3. /\ call' \in [Procs -> Method] /\ call'[q] = c
      /\ \A p \in Procs : p # q => call'[p] = call[p]
  BY <1>1, <1>2, CallIs DEF Start, IInv
<1>4. row' = row /\ staged' = staged
  BY DEF Start
<1>5. \A w \in Versions : staged[q][w] = None
  <2>1. call[q].stmt = "none"
    BY IdleMethod DEF Start
  <2> QED BY <2>1 DEF IInv, Sound, Updates
<1>6. Shape(c) /\ Sound(c, staged[q], row) /\ Turn(c, staged[q], row)
  BY <1>2, <1>5 DEF Shape, Sound, Turn
<1>7. /\ row' \in [Versions -> Row \union {None}] /\ staged' \in [Procs -> [Versions -> Row \union {None}]]
      /\ RowsBy(q)
  BY <1>4, Types DEF IInv, RowsBy
<1>8. overlapped' \in BOOLEAN /\ (overlapped => overlapped')
  BY Types DEF IInv, Start
<1>9. ~overlapped' /\ c.op = "Activate" => \A p \in Procs \ {q} : call[p].op # "Activate"
  BY <1>2 DEF Start
<1>10. ~overlapped' => OneActive(row')
  BY <1>4, <1>8 DEF IInv, InTurn
<1> QED BY <1>3, <1>4, <1>6, <1>7, <1>8, <1>9, <1>10, StepOf

\* An UPDATE selects every active row when it demotes, and the version when it promotes.
LEMMA BeginUpdateStep ==
    ASSUME IInv, NEW q \in Procs, NEW stmt \in Updates, NEW asked \in {"resurrect?", "demote?", "promote?", "delete?"},
           BeginUpdate(q, stmt, asked),
           <<stmt, asked>> \in {<<"resurrect", "resurrect?">>, <<"demote", "demote?">>,
                                <<"promote", "promote?">>, <<"delete", "delete?">>}
    PROVE  IInv'
<1>1. call[q] \in Method /\ staged[q] \in [Versions -> Row \union {None}] /\ row \in [Versions -> Row \union {None}]
  BY Types DEF IInv
<1>2. PICK todo \in SUBSET Versions : todo = {w \in Versions : Selects(stmt, call[q].version, w, Seen(q, w))}
  OBVIOUS
<1>3. PICK c : c = [call[q] EXCEPT !.stmt = stmt, !.todo = todo]
  OBVIOUS
<1>4. c \in Method /\ c.op = call[q].op /\ c.version = call[q].version /\ c.stmt = stmt /\ c.todo = todo
  BY <1>1, <1>3 DEF Method, Updates
<1>5. call' = [call EXCEPT ![q] = c]
  BY <1>2, <1>3, Types DEF BeginUpdate, IInv
<1>6. row' = row /\ staged' = [staged EXCEPT ![q] = staged[q]] /\ overlapped' = overlapped
  BY Types DEF BeginUpdate, IInv
<1>7. Shape(call[q]) /\ Sound(call[q], staged[q], row) /\ call[q].stmt = asked
  BY DEF IInv, BeginUpdate
<1>8. Shape(c)
  BY <1>4, <1>7 DEF Shape, Updates
<1>9. c.stmt = "promote" => c.version \in todo
  <2> SUFFICES ASSUME c.stmt = "promote" PROVE c.version \in todo
    OBVIOUS
  <2>1. c.version \in Versions /\ row[c.version] # None
    BY <1>4, <1>7 DEF Shape, Sound
  <2>2. Seen(q, c.version) # None
    BY <2>1 DEF Seen
  <2> QED BY <1>2, <1>4, <2>1, <2>2 DEF Selects
<1>10. Sound(c, staged[q], row)
  BY <1>4, <1>7, <1>9 DEF Sound, Updates
<1>11. ~overlapped => Turn(c, staged[q], row)
  <2> SUFFICES ASSUME ~overlapped, NEW w \in Versions, InService(Look(staged[q], row, w))
               PROVE  (stmt = "demote" => w \in todo) /\ stmt # "promote?"
                      /\ (stmt \in {"promote", "commit"} => w = c.version)
    BY <1>4 DEF Turn
  <2>1. Look(staged[q], row, w) = Seen(q, w)
    BY DEF Look, Seen
  <2>2. stmt = "demote" => w \in todo
    BY <1>2, <2>1 DEF Selects, InService
  <2>3. Turn(call[q], staged[q], row)
    BY DEF IInv, InTurn
  <2>4. asked # "promote?"
    BY <1>7, <2>3 DEF Turn
  <2> QED BY <2>2, <2>4 DEF Updates
<1> QED BY <1>1, <1>4, <1>5, <1>6, <1>8, <1>10, <1>11, QuietStep

LEMMA UpdatedRow ==
    ASSUME NEW r \in Row, NEW stmt \in Updates
    PROVE  /\ Updated(stmt, r) \in Row
           /\ stmt = "resurrect" => Updated(stmt, r).status = r.status
           /\ stmt \in {"demote", "delete"} => Updated(stmt, r).status = "draft"
           /\ stmt = "promote" => Updated(stmt, r).status = "active"
<1>1. CASE stmt = "resurrect"
  BY <1>1 DEF Updated, Row
<1>2. CASE stmt = "demote"
  BY <1>2 DEF Updated, Row
<1>3. CASE stmt = "promote"
  BY <1>3 DEF Updated, Row
<1>4. CASE stmt = "delete"
  BY <1>4 DEF Updated, Row
<1> QED BY <1>1, <1>2, <1>3, <1>4 DEF Updates

\* A row is locked and rewritten, or let go.
LEMMA UpdateRowStep ==
    ASSUME IInv, NEW q \in Procs, NEW w \in Versions, UpdateRow(q, w)
    PROVE  IInv'
<1>1. call[q] \in Method /\ staged[q] \in [Versions -> Row \union {None}] /\ row \in [Versions -> Row \union {None}]
  BY Types DEF IInv
<1>2. Shape(call[q]) /\ Sound(call[q], staged[q], row)
  BY DEF IInv
<1>3. w \in call[q].todo /\ call[q].stmt \in Updates
  BY <1>2 DEF UpdateRow, Shape
<1>4. PICK c : c = [call[q] EXCEPT !.todo = call[q].todo \ {w}]
  OBVIOUS
<1>5. c \in Method /\ c.op = call[q].op /\ c.version = call[q].version /\ c.stmt = call[q].stmt /\ c.todo = call[q].todo \ {w}
  BY <1>1, <1>4 DEF Method
<1>6. call' = [call EXCEPT ![q] = c]
  BY <1>4, Types DEF UpdateRow, IInv
<1>7. row' = row /\ overlapped' = overlapped /\ ~LockedByOther(q, w)
  BY DEF UpdateRow
<1>8. Shape(c)
  BY <1>2, <1>3, <1>5 DEF Shape
<1>9. Look(staged[q], row, w) = Seen(q, w)
  BY DEF Look, Seen
<1>10. CASE /\ Selects(call[q].stmt, call[q].version, w, Seen(q, w))
            /\ staged' = [staged EXCEPT ![q][w] = Updated(call[q].stmt, Seen(q, w))]
  <2>1. Seen(q, w) \in Row
    BY <1>1, <1>10 DEF Seen, Selects
  <2>2. PICK r : r = Updated(call[q].stmt, Seen(q, w))
    OBVIOUS
  <2>3. /\ r \in Row /\ r # None
        /\ call[q].stmt = "resurrect" => r.status = Seen(q, w).status
        /\ call[q].stmt \in {"demote", "delete"} => r.status = "draft"
        /\ call[q].stmt = "promote" => r.status = "active"
    BY <1>3, <2>1, <2>2, UpdatedRow, RowFields
  <2>4. PICK s : s = [staged[q] EXCEPT ![w] = r]
    OBVIOUS
  <2>5. s \in [Versions -> Row \union {None}] /\ s[w] = r /\ \A u \in Versions : u # w => s[u] = staged[q][u]
    BY <1>1, <2>3, <2>4
  <2>6. staged' = [staged EXCEPT ![q] = s]
    BY <1>10, <2>2, <2>4, Types DEF IInv
  <2>7. row[w] # None
    BY <1>2, <2>1, RowFields DEF Seen, Sound
  <2>8. call[q].op = "Create" => r.status = row[w].status
    <3>1. call[q].op = "Create" => call[q].stmt = "resurrect"
      BY <1>2, <1>3 DEF Shape, Updates
    <3>2. call[q].op = "Create" => Seen(q, w).status = row[w].status
      BY <1>2 DEF Seen, Sound
    <3> QED BY <2>3, <3>1, <3>2
  <2>9. call[q].op = "Delete" => r.status = "draft"
    BY <1>2, <1>3, <2>3 DEF Shape, Updates
  <2>10. call[q].stmt = "promote" => w = call[q].version /\ InService(r)
    BY <1>10, <2>3 DEF Selects, InService
  <2>11. Sound(c, s, row)
    <3>1. \A u \in Versions : s[u] # None =>
              /\ row[u] # None
              /\ c.stmt \in Updates \union {"promote?", "commit"}
              /\ c.op = "Create" => s[u].status = row[u].status
              /\ c.op = "Delete" => s[u].status = "draft"
      <4> TAKE u \in Versions
      <4>1. CASE u = w
        BY <4>1, <1>3, <1>5, <2>5, <2>7, <2>8, <2>9
      <4>2. CASE u # w
        BY <4>2, <1>2, <1>5, <2>5 DEF Sound
      <4> QED BY <4>1, <4>2
    <3>2. c.stmt = "promote" => InService(s[c.version])
      BY <1>5, <2>5, <2>10
    <3>3. c.stmt # "commit"
      BY <1>3, <1>5 DEF Updates
    <3>4. c.stmt \in {"demote?", "demote", "promote?", "promote", "commit"} => row[c.version] # None
      BY <1>2, <1>5 DEF Sound
    <3> QED BY <3>1, <3>2, <3>3, <3>4 DEF Sound
  <2>12. ~overlapped => Turn(c, s, row)
    <3> SUFFICES ASSUME ~overlapped, NEW u \in Versions, InService(Look(s, row, u))
                 PROVE  (c.stmt = "demote" => u \in c.todo) /\ c.stmt # "promote?"
                        /\ (c.stmt \in {"promote", "commit"} => u = c.version)
      BY DEF Turn
    <3>1. Turn(call[q], staged[q], row)
      BY DEF IInv, InTurn
    <3>2. CASE u = w
      <4>1. InService(r)
        BY <2>3, <2>5, <3>2 DEF Look
      <4>2. call[q].stmt \notin {"demote", "promote?", "commit"}
        BY <1>3, <2>3, <4>1 DEF InService, Updates
      <4> QED BY <1>5, <2>10, <3>2, <4>2
    <3>3. CASE u # w
      <4>1. InService(Look(staged[q], row, u))
        BY <2>5, <3>3 DEF Look
      <4> QED BY <1>5, <3>1, <3>3, <4>1 DEF Turn
    <3> QED BY <3>2, <3>3
  <2>13. \A u \in Versions : s[u] # None /\ staged[q][u] = None => ~LockedByOther(q, u)
    BY <1>7, <2>5
  <2> QED BY <1>5, <1>6, <1>7, <1>8, <2>5, <2>6, <2>11, <2>12, <2>13, QuietStep
<1>11. CASE ~Selects(call[q].stmt, call[q].version, w, Seen(q, w)) /\ staged' = staged
  <2>1. staged' = [staged EXCEPT ![q] = staged[q]]
    BY <1>11, Types DEF IInv
  <2>2. call[q].stmt = "promote" => call[q].version # w
    <3> SUFFICES ASSUME call[q].stmt = "promote", call[q].version = w PROVE FALSE
      OBVIOUS
    <3>1. row[w] # None
      BY <1>2 DEF Sound
    <3>2. Seen(q, w) # None
      BY <3>1 DEF Seen
    <3> QED BY <1>11, <3>2 DEF Selects
  <2>3. Sound(c, staged[q], row)
    BY <1>2, <1>5, <2>2 DEF Sound
  <2>4. ~overlapped => Turn(c, staged[q], row)
    <3>1. call[q].stmt = "demote" => ~InService(Look(staged[q], row, w))
      BY <1>9, <1>11 DEF Selects, InService
    <3> QED BY <1>5, <3>1 DEF IInv, InTurn, Turn
  <2> QED BY <1>1, <1>5, <1>6, <1>7, <1>8, <2>1, <2>3, <2>4, QuietStep
<1> QED BY <1>10, <1>11 DEF UpdateRow

NoRows == [w \in Versions |-> None]

\* What a commit of q does to the rows and to q's locks.
LEMMA CommitEffect ==
    ASSUME TypeOK, NEW q \in Procs, Commit(q)
    PROVE  /\ row' \in [Versions -> Row \union {None}] /\ RowsBy(q)
           /\ \A w \in Versions : row'[w] = Look(staged[q], row, w)
           /\ staged' = [staged EXCEPT ![q] = NoRows]
           /\ NoRows \in [Versions -> Row \union {None}] /\ \A w \in Versions : NoRows[w] = None
<1>1. row \in [Versions -> Row \union {None}] /\ staged[q] \in [Versions -> Row \union {None}]
  BY Types
<1>2. \A w \in Versions : row'[w] = Look(staged[q], row, w)
  BY DEF Commit, Seen, Look
<1>3. row' \in [Versions -> Row \union {None}]
  BY <1>1 DEF Commit, Seen
<1>4. RowsBy(q)
  BY <1>2 DEF RowsBy, Look
<1> QED BY <1>2, <1>3, <1>4 DEF Commit, NoRows

LEMMA CommitStep ==
    ASSUME IInv, NEW q \in Procs, Commit(q), UNCHANGED overlapped,
           NEW c \in Method, call' = [call EXCEPT ![q] = c],
           \/ c = Idle /\ call[q].op = "Activate" /\ call[q].stmt = "commit"
           \/ c = Idle /\ call[q].op = "Delete"
           \/ call[q].op = "Create" /\ c.op = "Create" /\ c.stmt = "insert" /\ c.version \in Versions /\ c.todo = {}
    PROVE  IInv'
<1>1. /\ row' \in [Versions -> Row \union {None}] /\ RowsBy(q)
      /\ \A w \in Versions : row'[w] = Look(staged[q], row, w)
      /\ staged' = [staged EXCEPT ![q] = NoRows]
      /\ NoRows \in [Versions -> Row \union {None}] /\ \A w \in Versions : NoRows[w] = None
  BY CommitEffect DEF IInv
<1>2. /\ call' \in [Procs -> Method] /\ call'[q] = c
      /\ \A p \in Procs : p # q => call'[p] = call[p]
  BY CallIs DEF IInv
<1>3. /\ staged' \in [Procs -> [Versions -> Row \union {None}]] /\ staged'[q] = NoRows
      /\ \A p \in Procs : p # q => staged'[p] = staged[p]
  BY <1>1, StagedIs DEF IInv
<1>4. Shape(c) /\ Sound(c, NoRows, row') /\ Turn(c, NoRows, row')
  BY <1>1, IdleMethod DEF Shape, Sound, Turn, Updates
<1>5. ASSUME ~overlapped PROVE OneActive(row')
  <2>1. OneActive(row) /\ Turn(call[q], staged[q], row)
    BY <1>5 DEF IInv, InTurn
  <2>2. CASE call[q].op = "Activate" /\ call[q].stmt = "commit"
    BY <1>1, <2>1, <2>2 DEF OneActive, Turn
  <2>3. CASE call[q].op \in {"Create", "Delete"}
    <3>1. ASSUME NEW w \in Versions, InService(row'[w]) PROVE InService(row[w])
      <4>1. CASE staged[q][w] = None
        BY <1>1, <3>1, <4>1 DEF Look
      <4>2. CASE staged[q][w] # None
        <5>1. row'[w] = staged[q][w] /\ row'[w].status = "active"
          BY <1>1, <3>1, <4>2 DEF Look, InService
        <5>2. row[w] # None /\ row[w].status = "active"
          BY <2>3, <4>2, <5>1 DEF IInv, Sound
        <5> QED BY <5>2 DEF InService
      <4> QED BY <4>1, <4>2
    <3> QED BY <2>1, <3>1 DEF OneActive
  <2> QED BY <2>2, <2>3
<1>6. overlapped' \in BOOLEAN /\ overlapped' = overlapped
  BY Types DEF IInv
<1>7. c.op # "Activate"
  BY IdleMethod
<1> QED BY <1>1, <1>2, <1>3, <1>4, <1>5, <1>6, <1>7, StepOf

LEMMA EndResurrectStep == ASSUME IInv, NEW q \in Procs, EndResurrect(q) PROVE IInv'
<1>1. call[q].op = "Create" /\ call[q].version \in Versions
  BY DEF EndResurrect, UpdateDone, IInv, Shape
<1>2. PICK c \in Method : /\ call' = [call EXCEPT ![q] = c]
                          /\ c.op = call[q].op /\ c.version = call[q].version
                          /\ c.stmt = "insert" /\ c.todo = {}
  BY GotoCall DEF EndResurrect, IInv
<1> QED BY <1>1, <1>2, CommitStep DEF EndResurrect

LEMMA CommitActivateStep == ASSUME IInv, NEW q \in Procs, CommitActivate(q) PROVE IInv'
  BY CommitStep, IdleMethod DEF CommitActivate, InCall, Return

LEMMA EndDeleteStep == ASSUME IInv, NEW q \in Procs, EndDelete(q) PROVE IInv'
<1>1. call[q].op = "Delete"
  BY DEF EndDelete, UpdateDone, IInv, Shape
<1> QED BY <1>1, CommitStep, IdleMethod DEF EndDelete, Return

LEMMA InsertStep == ASSUME IInv, NEW q \in Procs, Insert(q) PROVE IInv'
<1>1. call[q].op = "Create" /\ call[q].stmt = "insert" /\ call[q].version \in Versions
  BY DEF Insert, InCall, IInv, Shape
<1>2. /\ call' \in [Procs -> Method] /\ call'[q] = Idle
      /\ \A p \in Procs : p # q => call'[p] = call[p]
  BY IdleMethod, CallIs DEF Insert, Return, IInv
<1>3. PICK r : r = [status |-> "draft", deleted |-> FALSE]
  OBVIOUS
<1>4. r \in Row /\ r # None /\ r.status = "draft"
  BY <1>3, RowFields DEF Row
<1>5. /\ row' \in [Versions -> Row \union {None}] /\ RowsBy(q)
      /\ \A w \in Versions : row'[w] = row[w] \/ row'[w] = r
  BY <1>1, <1>3, <1>4, Types DEF Insert, IInv, RowsBy
<1>6. \A w \in Versions : staged[q][w] = None
  BY <1>1 DEF IInv, Sound, Updates
<1>7. /\ staged' \in [Procs -> [Versions -> Row \union {None}]] /\ staged' = staged
      /\ staged[q] \in [Versions -> Row \union {None}]
  BY Types DEF Insert, IInv
<1>8. Shape(Idle) /\ Sound(Idle, staged[q], row') /\ Turn(Idle, staged[q], row')
  BY <1>5, <1>6, <1>7, IdleKnows
<1>9. ~overlapped => OneActive(row')
  <2>1. \A w \in Versions : InService(row'[w]) => InService(row[w])
    BY <1>4, <1>5 DEF InService
  <2> QED BY <2>1 DEF IInv, InTurn, OneActive
<1>10. overlapped' \in BOOLEAN /\ overlapped' = overlapped
  BY Types DEF IInv, Insert
<1> QED BY <1>1, <1>2, <1>5, <1>7, <1>8, <1>9, <1>10, IdleMethod, StepOf

\* A call ends, and what it has not committed is rolled back.
LEMMA ReturnStep ==
    ASSUME IInv, NEW q \in Procs, Return(q), UNCHANGED <<row, overlapped>>,
           staged' = [staged EXCEPT ![q] = NoRows]
    PROVE  IInv'
<1>1. NoRows \in [Versions -> Row \union {None}] /\ \A w \in Versions : NoRows[w] = None
  BY DEF NoRows
<1>2. row \in [Versions -> Row \union {None}]
  BY Types DEF IInv
<1>3. Shape(Idle) /\ Sound(Idle, NoRows, row) /\ Turn(Idle, NoRows, row)
  BY <1>1, <1>2, IdleKnows
<1> QED BY <1>1, <1>3, IdleMethod, QuietStep DEF Return

LEMMA AbandonStep == ASSUME IInv, NEW q \in Procs, Abandon(q) PROVE IInv'
  BY ReturnStep DEF Abandon, NoRows

\* A statement that is not an UPDATE has been answered, or an UPDATE is done.
LEMMA GotoStep ==
    ASSUME IInv, NEW q \in Procs, UNCHANGED <<row, staged, overlapped>>,
           NEW stmt \in {"demote?", "promote?", "commit", "delete?"}, Goto(q, stmt),
           \/ stmt = "demote?" /\ call[q].op = "Activate" /\ call[q].stmt = "exists?" /\ row[call[q].version] # None
           \/ stmt = "promote?" /\ call[q].stmt = "demote" /\ call[q].todo = {}
           \/ stmt = "commit" /\ call[q].stmt = "promote" /\ call[q].todo = {}
           \/ stmt = "delete?" /\ call[q].op = "Delete" /\ call[q].stmt = "exists?"
    PROVE  IInv'
<1>1. PICK c \in Method : /\ call' = [call EXCEPT ![q] = c]
                          /\ c.op = call[q].op /\ c.version = call[q].version
                          /\ c.stmt = stmt /\ c.todo = {}
  BY GotoCall DEF IInv
<1>2. Shape(call[q]) /\ Sound(call[q], staged[q], row)
  BY DEF IInv
<1>3. staged' = [staged EXCEPT ![q] = staged[q]] /\ staged[q] \in [Versions -> Row \union {None}]
  BY Types DEF IInv
<1>4. Shape(c)
  BY <1>1, <1>2 DEF Shape, Updates
<1>5. Sound(c, staged[q], row)
  BY <1>1, <1>2 DEF Sound, Updates
<1>6. ~overlapped => Turn(c, staged[q], row)
  BY <1>1 DEF IInv, InTurn, Turn
<1> QED BY <1>1, <1>3, <1>4, <1>5, <1>6, QuietStep

\* A call ends that has written nothing.
LEMMA EndQuietly ==
    ASSUME IInv, NEW q \in Procs, Return(q), UNCHANGED <<row, staged, overlapped>>, call[q].stmt = "exists?"
    PROVE  IInv'
<1>1. \A w \in Versions : staged[q][w] = None
  BY DEF IInv, Sound, Updates
<1>2. staged' = [staged EXCEPT ![q] = staged[q]] /\ staged[q] \in [Versions -> Row \union {None}]
      /\ row \in [Versions -> Row \union {None}]
  BY Types DEF IInv
<1>3. Shape(Idle) /\ Sound(Idle, staged[q], row) /\ Turn(Idle, staged[q], row)
  BY <1>1, <1>2, IdleKnows
<1> QED BY <1>1, <1>2, <1>3, IdleMethod, QuietStep DEF Return

LEMMA NextStep == ASSUME IInv, Next PROVE IInv'
<1> SUFFICES ASSUME NEW q \in Procs,
                    \/ StartDelete(q)
                    \/ \E v \in Versions : StartCreate(q, v) \/ StartActivate(q, v)
                    \/ Step(q) \/ Abandon(q)
             PROVE  IInv'
  BY DEF Next
<1>1. CASE StartDelete(q) \/ \E v \in Versions : StartCreate(q, v) \/ StartActivate(q, v)
  BY <1>1, StartStep DEF StartDelete, StartCreate, StartActivate
<1>2. CASE BeginResurrect(q) \/ BeginDemote(q) \/ BeginPromote(q) \/ BeginDelete(q)
  BY <1>2, BeginUpdateStep DEF BeginResurrect, BeginDemote, BeginPromote, BeginDelete, Updates
<1>3. CASE \E w \in Versions : UpdateRow(q, w)
  BY <1>3, UpdateRowStep
<1>4. CASE EndResurrect(q) \/ Insert(q) \/ CommitActivate(q) \/ EndDelete(q)
  BY <1>4, EndResurrectStep, InsertStep, CommitActivateStep, EndDeleteStep
<1>5. CASE CheckVersion(q)
  BY <1>5, GotoStep, EndQuietly DEF CheckVersion, InCall
<1>6. CASE EndDemote(q)
  BY <1>6, GotoStep DEF EndDemote, UpdateDone
<1>7. CASE EndPromote(q)
  BY <1>7, GotoStep DEF EndPromote, UpdateDone
<1>8. CASE FindName(q)
  BY <1>8, GotoStep, EndQuietly DEF FindName, InCall
<1>9. CASE DeadlockDetected(q) \/ Abandon(q)
  BY <1>9, AbandonStep DEF DeadlockDetected
<1> QED BY <1>1, <1>2, <1>3, <1>4, <1>5, <1>6, <1>7, <1>8, <1>9 DEF Step

-----------------------------------------------------------------------------
\* The inductive invariant of WorkflowPostgresStore: what each call has written, how that relates
\* to the committed rows, and what an Activate without a rival knows at each statement.
THEOREM Invariance == Spec => []IInv
<1>1. IInv /\ [Next]_vars => IInv'
  <2> SUFFICES ASSUME IInv, [Next]_vars PROVE IInv'
    OBVIOUS
  <2>1. CASE UNCHANGED vars
    BY <2>1 DEF vars, IInv, TypeOK, Shape, Sound, Turn, Look, InService, InTurn, NoRivals, OneActive, RowsAreLockedOnce
  <2> QED BY <2>1, NextStep
<1> QED BY <1>1, InitInv, PTL DEF Spec

\* The variables have their types, for any versions and callers.
THEOREM TypeCorrect == Spec => []TypeOK
<1>1. IInv => TypeOK
  BY DEF IInv
<1> QED BY <1>1, Invariance, PTL

\* Store.Activate and Store.Delete: a row has one writer at a time.
THEOREM LocksAreExclusive == Spec => []RowsAreLockedOnce
<1>1. IInv => RowsAreLockedOnce
  BY DEF IInv
<1> QED BY <1>1, Invariance, PTL

\* Store.Activate: while Activate calls on a name do not overlap, one version at most is active,
\* whatever Create and Delete calls, failures and rollbacks come between its statements.
THEOREM OneVersionActive == Spec => []SerialActivatesKeepOneActive
<1>1. IInv => SerialActivatesKeepOneActive
  BY DEF IInv, InTurn, OneActive, InService, SerialActivatesKeepOneActive, IsActive
<1> QED BY <1>1, Invariance, PTL

\* What a step does to the status of a row that is there.
LEMMA StatusOf ==
    ASSUME IInv, NEW q \in Procs, NEW w \in Versions, row[w] # None,
           row' = row \/ Insert(q) \/ EndResurrect(q)
    PROVE  row'[w] # None /\ row'[w].status = row[w].status
<1>1. CASE row' = row
  BY <1>1
<1>2. CASE Insert(q)
  BY <1>2, Types DEF Insert, IInv
<1>3. CASE EndResurrect(q)
  <2>1. call[q].op = "Create"
    BY <1>3 DEF EndResurrect, UpdateDone, IInv, Shape
  <2>2. row'[w] = Look(staged[q], row, w)
    BY <1>3, CommitEffect DEF EndResurrect, IInv
  <2> QED BY <2>1, <2>2 DEF IInv, Sound, Look
<1> QED BY <1>1, <1>2, <1>3

\* Store.Activate: the demotion and the promotion are one commit, so that a name goes back to
\* having no active version in a Delete only, however calls overlap, fail and roll back.
THEOREM ActivationsAreAtomic == Spec => ActiveLostInDeleteOnly
<1>1. IInv /\ [Next]_vars =>
          [(\E w \in Versions : IsActive(w)) /\ (\A w \in Versions : ~IsActive(w)')
              => \E p \in Procs : EndDelete(p)]_vars
  <2> SUFFICES ASSUME IInv, Next, NEW w \in Versions, IsActive(w), \A u \in Versions : ~IsActive(u)'
               PROVE  \E p \in Procs : EndDelete(p)
    OBVIOUS
  <2>1. PICK q \in Procs : row' = row \/ Insert(q) \/ EndResurrect(q) \/ CommitActivate(q) \/ EndDelete(q)
    BY DEF Next, Step, StartDelete, StartCreate, StartActivate, Start, BeginResurrect, BeginDemote,
           BeginPromote, BeginDelete, BeginUpdate, UpdateRow, CheckVersion, EndDemote, EndPromote,
           FindName, DeadlockDetected, Abandon
  <2>2. ~(row' = row \/ Insert(q) \/ EndResurrect(q))
    BY StatusOf DEF IsActive
  <2>3. ~CommitActivate(q)
    <3> SUFFICES ASSUME CommitActivate(q) PROVE FALSE
      OBVIOUS
    <3>1. call[q].op = "Activate" /\ call[q].stmt = "commit"
      BY DEF CommitActivate, InCall
    <3>2. call[q].version \in Versions /\ InService(staged[q][call[q].version])
      BY <3>1 DEF IInv, Shape, Sound
    <3>3. row'[call[q].version] = staged[q][call[q].version]
      BY <3>2, CommitEffect DEF CommitActivate, IInv, Look, InService
    <3> QED BY <3>2, <3>3 DEF IsActive, InService
  <2> QED BY <2>1, <2>2, <2>3
<1> QED BY <1>1, Invariance, PTL DEF Spec, ActiveLostInDeleteOnly
=============================================================================
