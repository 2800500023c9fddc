-------------------------- MODULE BlobStoresProofs --------------------------
(***************************************************************************)
(* For any versions and callers, in the three stores: the pointer never    *)
(* dangles, Get returns what was served, Delete leaves nothing behind.     *)
(***************************************************************************)
EXTENDS BlobStores, TLAPS

Method == [op : {"idle", "Create", "Activate", "Delete", "Get"},
           version : Versions \union {None},
           at : {"none", "exists?", "write", "read list", "write list", "deleted?", "revive",
                 "mark", "unlink", "list", "delete", "read active", "read spec"},
           read : Seq(Versions),
           todo : SUBSET (Versions \union {None})]

\* Where a call can be, in which store, and what it knows of its version there.
Shape(p) ==
    /\ call[p].op = "idle" => call[p] = Idle
    /\ call[p].op \in {"Create", "Activate"} => call[p].version \in Versions
    /\ call[p].at \in {"list", "delete"} => call[p].op = "Delete" /\ store = "agent"
    /\ call[p].op = "Get" /\ call[p].at = "deleted?" => store = "workflow"
    /\ call[p].at \in {"read active", "read spec"} => call[p].op = "Get"
    /\ call[p].at = "read spec" => call[p].version \in Versions

\* The keys of the agent store, None standing for active.txt.
Keys == objects \union (IF active = None THEN {} ELSE {None})

\* What a call that writes relies on: what it has seen is still so.
WriterKnows(p) ==
    /\ At(p, "Activate", "write") /\ (store = "agent" => ~contended) => call[p].version \in objects
    /\ call[p].at = "delete" /\ ~contended => call[p].todo = Keys
    /\ call[p].op = "Activate" /\ call[p].at \in {"exists?", "write"}
           /\ store = "workflow" /\ ~contended /\ ~missed => ~deleted

\* What a Get relies on: the pointer it is about to read, and the version it has read, were
\* served during the call; if the version is gone, there was a moment when nothing was.
ReaderKnows(p) ==
    /\ call[p].op = "Get" => Served \in during[p]
    /\ Writes(call[p].op) => answer[p] = None /\ during[p] = {None}
    /\ ~contended /\ ~missed =>
           /\ call[p].at = "read active" => active \in during[p]
           /\ call[p].at = "read spec" =>
                  call[p].version \in during[p] /\ (call[p].version \notin objects => None \in during[p])
           /\ call[p] = Idle => answer[p] \in during[p]

TakeTurns == \A p, q \in Callers : Writes(call[p].op) /\ Writes(call[q].op) => p = q

IInv ==
    /\ TypeOK
    /\ ActiveHasObject
    /\ ~contended => TakeTurns
    /\ \A p \in Callers : Shape(p) /\ WriterKnows(p) /\ ReaderKnows(p)

-----------------------------------------------------------------------------
LEMMA Types ==
    ASSUME TypeOK
    PROVE  /\ call \in [Callers -> Method] /\ answer \in [Callers -> Versions \union {None}]
           /\ contended \in BOOLEAN /\ interrupted \in BOOLEAN /\ missed \in BOOLEAN
  BY DEF TypeOK, Method

LEMMA IdleIs ==
    /\ Idle \in Method /\ Idle.op = "idle" /\ Idle.at = "none" /\ Idle.version = None
    /\ ~Writes(Idle.op)
  BY DEF Idle, Method, Writes

LEMMA OneMoreFault == ASSUME faults \in Nat PROVE faults + 1 \in Nat
  OBVIOUS

LEMMA DuringIs ==
    ASSUME Observe, NEW p \in Callers
    PROVE  /\ call'[p].op = "idle" => during'[p] = during[p]
           /\ call'[p].op = "Get" /\ call[p].op = "Get" => during'[p] = {Served'} \union during[p]
           /\ call'[p].op = "Get" => Served' \in during'[p]
           /\ call'[p].op \notin {"idle", "Get"} => during'[p] = {None}
  BY DEF Observe

LEMMA DuringType ==
    ASSUME TypeOK, Observe, active' \in Versions \union {None}
    PROVE  during' \in [Callers -> SUBSET (Versions \union {None})]
<1>1. Served' \in Versions \union {None}
  BY DEF Served
<1>2. \A p \in Callers : during[p] \in SUBSET (Versions \union {None})
  BY DEF TypeOK
<1> QED BY <1>1, <1>2 DEF Observe

LEMMA ContendedIs ==
    ASSUME TypeOK, Observe
    PROVE  contended' \in BOOLEAN /\ (contended => contended') /\ (~contended' => TakeTurns')
  BY DEF TypeOK, Observe, TakeTurns

\* What a step of q does to the bucket: nothing if q does not write, and otherwise what is
\* pointed at is then served.
Changes(q) ==
    /\ Writes(call[q].op) \/ UNCHANGED <<objects, active, deleted>>
    /\ store # "agent" => objects \subseteq objects'
    /\ ~contended /\ ~missed =>
        /\ \/ active' \in {active, None}
           \/ active' \in objects' /\ (store = "workflow" => ~deleted')
        /\ objects \subseteq objects' \/ active' = None

LEMMA StepOf ==
    ASSUME IInv, NEW q \in Callers, Observe,
           call' \in [Callers -> Method], \A p \in Callers : p # q => call'[p] = call[p],
           answer' \in [Callers -> Versions \union {None}],
           \A p \in Callers : p # q => answer'[p] = answer[p],
           objects' \subseteq Versions, log' \in Seq(Versions),
           active' \in Versions \union {None}, deleted' \in BOOLEAN,
           faults' \in Nat, interrupted' \in BOOLEAN, missed' \in BOOLEAN, missed => missed',
           Changes(q), ActiveHasObject', Shape(q)', WriterKnows(q)', ReaderKnows(q)'
    PROVE  IInv'
<1>1. /\ contended' \in BOOLEAN /\ (contended => contended') /\ (~contended' => TakeTurns')
      /\ store' = store
  BY ContendedIs DEF IInv, Observe
<1>2. TypeOK'
  <2>1. store' \in {"workflow", "skill", "agent"}
    BY <1>1 DEF IInv, TypeOK
  <2> QED BY <1>1, <2>1, DuringType DEF IInv, TypeOK, Method
<1>3. ASSUME NEW p \in Callers \ {q} PROVE Shape(p)' /\ WriterKnows(p)' /\ ReaderKnows(p)'
  <2>1. call'[p] = call[p] /\ answer'[p] = answer[p] /\ call[p] \in Method
    BY Types DEF IInv
  <2>2. Shape(p) /\ WriterKnows(p) /\ ReaderKnows(p)
    BY DEF IInv
  <2>3. Shape(p)'
    BY <1>1, <2>1, <2>2 DEF Shape
  <2>4. Writes(call[p].op) /\ ~contended' => UNCHANGED <<objects, active, deleted>>
    BY <1>1 DEF IInv, TakeTurns, Changes
  <2>5. WriterKnows(p)'
    <3>1. At(p, "Activate", "write")' /\ (store' = "agent" => ~contended') => call'[p].version \in objects'
      BY <1>1, <2>1, <2>2, <2>4 DEF WriterKnows, At, Changes, Writes
    <3>2. call'[p].at = "delete" /\ ~contended' => call'[p].todo = Keys'
      BY <1>1, <2>1, <2>2, <2>4 DEF WriterKnows, Shape, Writes, Keys
    <3>3. call'[p].op = "Activate" /\ call'[p].at \in {"exists?", "write"}
             /\ store' = "workflow" /\ ~contended' /\ ~missed' => ~deleted'
      BY <1>1, <2>1, <2>2, <2>4 DEF WriterKnows, Writes
    <3> QED BY <3>1, <3>2, <3>3 DEF WriterKnows
  <2>6. ReaderKnows(p)'
    <3>1. call'[p].op = "Get" => Served' \in during'[p]
      BY DuringIs
    <3>2. Writes(call'[p].op) => answer'[p] = None /\ during'[p] = {None}
      BY <2>1, <2>2, DuringIs DEF ReaderKnows, Writes
    <3>3. ASSUME ~contended', ~missed'
          PROVE  /\ call'[p].at = "read active" => active' \in during'[p]
                 /\ call'[p].at = "read spec" =>
                        call'[p].version \in during'[p] /\ (call'[p].version \notin objects' => None \in during'[p])
                 /\ call'[p] = Idle => answer'[p] \in during'[p]
      <4>1. /\ call[p].at = "read active" => active \in during[p]
            /\ call[p].at = "read spec" =>
                   call[p].version \in during[p] /\ (call[p].version \notin objects => None \in during[p])
            /\ call[p] = Idle => answer[p] \in during[p]
        BY <1>1, <2>2, <3>3 DEF ReaderKnows
      <4>2. call[p].at \in {"read active", "read spec"} => during'[p] = {Served'} \union during[p]
        BY <2>1, <2>2, DuringIs DEF Shape
      <4>3. active' = None => Served' = None
        BY DEF Served
      <4>4. active' \in objects' /\ (store = "workflow" => ~deleted') => Served' = active'
        BY <1>1 DEF Served
      <4>5. call[p] = Idle => during'[p] = during[p]
        BY <2>1, IdleIs, DuringIs
      <4> QED BY <1>1, <2>1, <3>3, <4>1, <4>2, <4>3, <4>4, <4>5 DEF Changes
    <3> QED BY <3>1, <3>2, <3>3 DEF ReaderKnows
  <2> QED BY <2>3, <2>5, <2>6
<1> QED BY <1>1, <1>2, <1>3 DEF IInv

LEMMA InitInv == Init => IInv
<1> SUFFICES ASSUME Init PROVE IInv
  OBVIOUS
<1>1. \A p \in Callers : call[p] = Idle /\ answer[p] = None /\ during[p] = {None}
  BY DEF Init
<1>2. TypeOK
  <2>1. /\ call \in [Callers -> Method] /\ answer \in [Callers -> Versions \union {None}]
        /\ during \in [Callers -> SUBSET (Versions \union {None})]
    BY IdleIs DEF Init
  <2>2. log \in Seq(Versions)
    BY DEF Init
  <2> QED BY <2>1, <2>2 DEF Init, TypeOK, Method
<1>3. ActiveHasObject
  BY DEF Init, ActiveHasObject
<1>4. TakeTurns
  BY <1>1, IdleIs DEF TakeTurns
<1>5. \A p \in Callers : Shape(p) /\ WriterKnows(p) /\ ReaderKnows(p)
  BY <1>1, IdleIs DEF Shape, WriterKnows, ReaderKnows, At
<1> QED BY <1>2, <1>3, <1>4, <1>5 DEF IInv

-----------------------------------------------------------------------------
(* The steps.                                                              *)

LEMMA CallIs ==
    ASSUME TypeOK, NEW q \in Callers, NEW c \in Method, call' = [call EXCEPT ![q] = c]
    PROVE  /\ call' \in [Callers -> Method] /\ call'[q] = c
           /\ \A p \in Callers : p # q => call'[p] = call[p]
  BY Types

Places == {"exists?", "write", "read list", "write list", "deleted?", "revive",
           "mark", "unlink", "read active", "read spec"}

\* A call that has ended relies on nothing.
LEMMA EndedKnows ==
    ASSUME NEW q \in Callers, call'[q] = Idle
    PROVE  Shape(q)' /\ WriterKnows(q)'
  BY IdleIs DEF Shape, WriterKnows, At

\* A step of a call that writes.
LEMMA WriterStep ==
    ASSUME IInv, NEW q \in Callers, Observe, Writes(call[q].op), answer' = answer,
           NEW c \in Method, call' = [call EXCEPT ![q] = c],
           c = Idle \/ (c.op = call[q].op /\ c.at \notin {"read active", "read spec"}),
           objects' \subseteq Versions, log' \in Seq(Versions),
           active' \in Versions \union {None}, deleted' \in BOOLEAN,
           faults' \in Nat, interrupted' \in BOOLEAN, missed' \in BOOLEAN, missed => missed',
           Changes(q), ActiveHasObject', c # Idle => Shape(q)' /\ WriterKnows(q)'
    PROVE  IInv'
<1>1. /\ call' \in [Callers -> Method] /\ call'[q] = c
      /\ \A p \in Callers : p # q => call'[p] = call[p]
  BY CallIs DEF IInv
<1>2. Shape(q)' /\ WriterKnows(q)'
  BY <1>1, EndedKnows
<1>3. answer[q] = None /\ during[q] = {None}
  BY DEF IInv, ReaderKnows
<1>4. ReaderKnows(q)'
  <2>1. CASE c = Idle
    <3>1. during'[q] = {None}
      BY <1>1, <1>3, <2>1, DuringIs, IdleIs
    <3> QED BY <1>1, <1>3, <2>1, <3>1, IdleIs DEF ReaderKnows
  <2>2. CASE c # Idle
    <3>1. c.op \in {"Create", "Activate", "Delete"}
      BY <2>2 DEF Writes
    <3>2. during'[q] = {None}
      BY <1>1, <3>1, DuringIs
    <3> QED BY <1>1, <1>3, <2>2, <3>1, <3>2 DEF ReaderKnows, Writes
  <2> QED BY <2>1, <2>2
<1>5. /\ answer' \in [Callers -> Versions \union {None}]
      /\ \A p \in Callers : p # q => answer'[p] = answer[p]
  BY Types DEF IInv
<1> QED BY <1>1, <1>2, <1>4, <1>5, StepOf

\* A step that leaves the bucket alone.
LEMMA QuietChanges ==
    ASSUME IInv, NEW q \in Callers, Observe, UNCHANGED bucket
    PROVE  /\ Changes(q) /\ ActiveHasObject'
           /\ objects' \subseteq Versions /\ log' \in Seq(Versions)
           /\ active' \in Versions \union {None} /\ deleted' \in BOOLEAN
<1>1. contended => contended'
  BY ContendedIs DEF IInv
<1> QED BY <1>1 DEF IInv, TypeOK, bucket, Changes, ActiveHasObject, Observe

LEMMA WriterAsks ==
    ASSUME IInv, NEW q \in Callers, Observe, Writes(call[q].op), UNCHANGED <<bucket, answer>>,
           NEW c \in Method, call' = [call EXCEPT ![q] = c],
           \/ c = Idle
           \/ /\ c.op = call[q].op /\ c.version = call[q].version
              /\ c.at \notin {"read active", "read spec", "list"}
              /\ c.at = "delete" => call[q].at = "list" /\ c.todo = Keys
              /\ c.op = "Activate" /\ c.at = "write" => call[q].at = "exists?" /\ c.version \in objects
              /\ c.op = "Activate" /\ c.at = "exists?" => ~deleted \/ missed',
           faults' \in Nat, interrupted' \in BOOLEAN, missed' \in BOOLEAN, missed => missed'
    PROVE  IInv'
<1>1. call'[q] = c
  BY CallIs DEF IInv
<1>2. Shape(q) /\ WriterKnows(q)
  BY DEF IInv
<1>3. (contended => contended') /\ store' = store
  BY ContendedIs DEF IInv, Observe
<1>4. ASSUME c # Idle PROVE Shape(q)' /\ WriterKnows(q)'
  <2>1. c.op \in {"Create", "Activate", "Delete"} /\ c.op = call[q].op /\ c.version = call[q].version
    BY <1>4 DEF Writes
  <2>2. Shape(q)'
    BY <1>1, <1>2, <1>3, <1>4, <2>1 DEF Shape
  <2>3. objects' = objects /\ deleted' = deleted /\ Keys' = Keys
    BY DEF bucket, Keys
  <2>4. At(q, "Activate", "write")' => call'[q].version \in objects'
    BY <1>1, <1>4, <2>3 DEF At
  <2>5. call'[q].at = "delete" => call'[q].todo = Keys'
    BY <1>1, <1>4, <2>3
  <2>6. call[q].op = "Activate" /\ call[q].at = "exists?"
            /\ store = "workflow" /\ ~contended' /\ ~missed' => ~deleted
    BY <1>2, <1>3 DEF WriterKnows
  <2>7. call'[q].op = "Activate" /\ call'[q].at \in {"exists?", "write"}
            /\ store' = "workflow" /\ ~contended' /\ ~missed' => ~deleted'
    BY <1>1, <1>3, <1>4, <2>1, <2>3, <2>6
  <2> QED BY <2>2, <2>4, <2>5, <2>7 DEF WriterKnows
<1>5. UNCHANGED bucket /\ answer' = answer
  OBVIOUS
<1>6. /\ Changes(q) /\ ActiveHasObject'
      /\ objects' \subseteq Versions /\ log' \in Seq(Versions)
      /\ active' \in Versions \union {None} /\ deleted' \in BOOLEAN
  BY <1>5, QuietChanges
<1>7. c = Idle \/ (c.op = call[q].op /\ c.at \notin {"read active", "read spec"})
  OBVIOUS
<1> QED BY <1>4, <1>5, <1>6, <1>7, WriterStep

LEMMA WriterReturns ==
    ASSUME IInv, NEW q \in Callers, Observe, Writes(call[q].op), UNCHANGED <<bucket, answer>>, Return(q),
           faults' \in Nat, interrupted' \in BOOLEAN, missed' \in BOOLEAN, missed => missed'
    PROVE  IInv'
  BY IdleIs, WriterAsks DEF Return

LEMMA WriterGoes ==
    ASSUME IInv, NEW q \in Callers, Observe, Writes(call[q].op), UNCHANGED <<bucket, answer>>,
           NEW place \in Places, place \notin {"read active", "read spec"}, Goto(q, place),
           call[q].op = "Activate" =>
               \/ place = "write" /\ call[q].at = "exists?" /\ call[q].version \in objects
               \/ place = "exists?" /\ (~deleted \/ missed'),
           faults' \in Nat, interrupted' \in BOOLEAN, missed' \in BOOLEAN, missed => missed'
    PROVE  IInv'
<1>1. place \in Places /\ place \notin {"read active", "read spec", "list", "delete"} /\ TypeOK
  BY DEF Places, IInv
<1>2. PICK c : c = [call[q] EXCEPT !.at = place]
  OBVIOUS
<1>3. /\ c \in Method /\ call' = [call EXCEPT ![q] = c]
      /\ c.op = call[q].op /\ c.version = call[q].version /\ c.at = place
  BY <1>1, <1>2, Types DEF Goto, Method, Places
<1> QED BY <1>1, <1>3, WriterAsks

\* checkNotDeleted of a call that writes.
LEMMA CheckStep ==
    ASSUME IInv, NEW q \in Callers, Observe, NEW op \in {"Activate", "Delete"},
           NEW next \in {"exists?", "mark"}, op = "Activate" <=> next = "exists?",
           NotDeleted(q, op, next) \/ NotDeletedFails(q, op, next) \/ IsDeleted(q, op)
    PROVE  IInv'
<1> USE DEF At
<1>1. TypeOK /\ Writes(op) /\ next \in Places
  BY DEF IInv, Writes, Places
<1>2. faults \in Nat /\ interrupted \in BOOLEAN /\ missed \in BOOLEAN
  BY <1>1, Types DEF TypeOK
<1>3. CASE NotDeleted(q, op, next)
  BY <1>1, <1>2, <1>3, WriterGoes DEF NotDeleted, history
<1>4. CASE NotDeletedFails(q, op, next)
  <2>1. faults' \in Nat /\ missed' = TRUE /\ interrupted' \in BOOLEAN
    BY <1>2, <1>4 DEF NotDeletedFails
  <2> QED BY <1>1, <1>4, <2>1, WriterGoes DEF NotDeletedFails
<1>5. CASE IsDeleted(q, op)
  BY <1>1, <1>2, <1>5, WriterReturns DEF IsDeleted, history
<1> QED BY <1>3, <1>4, <1>5

LEMMA AskStep ==
    ASSUME IInv, NEW q \in Callers, Observe,
           \/ CreateExists(q) \/ CreateExistsFails(q) \/ ReadList(q)
           \/ CreateDeleted(q) \/ CreateDeletedFails(q)
           \/ ActivateExists(q) \/ GiveUp(q)
    PROVE  IInv'
<1> USE DEF At
<1>1. TypeOK /\ Writes("Create") /\ Writes("Activate") /\ {"write", "deleted?", "revive"} \subseteq Places
  BY DEF IInv, Writes, Places
<1>2. faults \in Nat /\ interrupted \in BOOLEAN /\ missed \in BOOLEAN
  BY <1>1, Types DEF TypeOK
<1>. faults + 1 \in Nat
  BY <1>2, OneMoreFault
<1>3. CASE CreateExists(q)
  BY <1>1, <1>2, <1>3, WriterGoes, WriterReturns DEF CreateExists, history
<1>4. CASE CreateExistsFails(q)
  BY <1>1, <1>2, <1>4, WriterGoes DEF CreateExistsFails
<1>5. CASE ReadList(q)
  <2>1. PICK c : c = [call[q] EXCEPT !.at = "write list", !.read = log]
    OBVIOUS
  <2>2. /\ c \in Method /\ call' = [call EXCEPT ![q] = c]
        /\ c.op = "Create" /\ c.version = call[q].version /\ c.at = "write list"
    BY <1>1, <1>5, <2>1, Types DEF ReadList, Method, TypeOK
  <2> QED BY <1>1, <1>2, <1>5, <2>2, WriterAsks DEF ReadList, history
<1>6. CASE CreateDeleted(q)
  BY <1>1, <1>2, <1>6, WriterGoes, WriterReturns DEF CreateDeleted, history
<1>7. CASE CreateDeletedFails(q)
  BY <1>1, <1>2, <1>7, WriterReturns DEF CreateDeletedFails
<1>8. CASE ActivateExists(q)
  BY <1>1, <1>2, <1>8, WriterGoes, WriterReturns DEF ActivateExists, history
<1>9. CASE GiveUp(q)
  <2>1. interrupted' \in BOOLEAN
    BY <1>2, <1>9 DEF GiveUp
  <2> QED BY <1>2, <1>9, <2>1, WriterReturns DEF GiveUp
<1> QED BY <1>3, <1>4, <1>5, <1>6, <1>7, <1>8, <1>9

LEMMA ListKeysStep == ASSUME IInv, NEW q \in Callers, Observe, ListKeys(q) PROVE IInv'
<1> USE DEF At
<1>1. TypeOK /\ Writes("Delete")
  BY DEF IInv, Writes
<1>2. faults \in Nat /\ interrupted \in BOOLEAN /\ missed \in BOOLEAN
  BY <1>1, Types DEF TypeOK
<1>3. call[q].op = "Delete" /\ call[q].at = "list" /\ UNCHANGED <<bucket, answer, history>>
  BY DEF ListKeys
<1>4. CASE Return(q)
  BY <1>1, <1>2, <1>3, <1>4, WriterReturns DEF history
<1>5. CASE call' = [call EXCEPT ![q].at = "delete", ![q].todo = Keys]
  <2>1. PICK c : c = [call[q] EXCEPT !.at = "delete", !.todo = Keys]
    OBVIOUS
  <2>2. Keys \in SUBSET (Versions \union {None})
    BY <1>1 DEF TypeOK, Keys
  <2>3. /\ c \in Method /\ call' = [call EXCEPT ![q] = c]
        /\ c.op = "Delete" /\ c.version = call[q].version /\ c.at = "delete" /\ c.todo = Keys
    BY <1>1, <1>3, <1>5, <2>1, <2>2, Types DEF Method
  <2> QED BY <1>1, <1>2, <1>3, <2>3, WriterAsks DEF history
<1> QED BY <1>4, <1>5 DEF ListKeys, Keys

\* A call begins: a Get of another store than workflow is served what the pointer says.
LEMMA StartStep ==
    ASSUME IInv, NEW q \in Callers, Observe,
           NEW op \in {"Create", "Activate", "Delete", "Get"}, NEW v \in Versions \union {None},
           NEW place \in {"write", "exists?", "deleted?", "unlink", "list", "read active"},
           Start(q, op, v, place),
           op \in {"Create", "Activate"} => v \in Versions,
           op = "Activate" => place = FirstCheck,
           place = "list" => op = "Delete" /\ store = "agent",
           op = "Get" => place = IF store = "workflow" THEN "deleted?" ELSE "read active",
           place = "read active" => op = "Get"
    PROVE  IInv'
<1>1. PICK c : c = [Idle EXCEPT !.op = op, !.version = v, !.at = place]
  OBVIOUS
<1>2. c \in Method /\ c.op = op /\ c.version = v /\ c.at = place
  BY <1>1, IdleIs DEF Method
<1>3. /\ call' \in [Callers -> Method] /\ call'[q] = c
      /\ \A p \in Callers : p # q => call'[p] = call[p]
  BY <1>1, <1>2, CallIs DEF Start, IInv
<1>4. /\ answer' \in [Callers -> Versions \union {None}] /\ answer'[q] = None
      /\ \A p \in Callers : p # q => answer'[p] = answer[p]
  BY Types DEF Start, IInv
<1>5. UNCHANGED bucket /\ c # Idle
  BY <1>2, IdleIs DEF Start
<1>6. /\ Changes(q) /\ ActiveHasObject'
      /\ objects' \subseteq Versions /\ log' \in Seq(Versions)
      /\ active' \in Versions \union {None} /\ deleted' \in BOOLEAN
  BY <1>5, QuietChanges
<1>7. faults' \in Nat /\ interrupted' \in BOOLEAN /\ missed' \in BOOLEAN /\ (missed => missed')
  BY Types DEF IInv, TypeOK, Start, history
<1>8. store' = store /\ store \in {"workflow", "skill", "agent"}
  BY DEF Observe, IInv, TypeOK
<1>9. Shape(q)'
  BY <1>2, <1>3, <1>8, IdleIs DEF Shape
<1>10. WriterKnows(q)'
  BY <1>2, <1>3, <1>8 DEF WriterKnows, At, FirstCheck
<1>11. ReaderKnows(q)'
  <2>1. CASE op = "Get"
    <3>1. Served' \in during'[q]
      BY <1>2, <1>3, <2>1, DuringIs
    <3>2. place = "read active" /\ ~contended' => active' = Served'
      BY <1>6, <1>8, <2>1 DEF Served, ActiveHasObject
    <3> QED BY <1>2, <1>3, <1>5, <2>1, <3>1, <3>2 DEF ReaderKnows, Writes
  <2>2. CASE op # "Get"
    <3>1. during'[q] = {None}
      BY <1>2, <1>3, <2>2, DuringIs
    <3> QED BY <1>2, <1>3, <1>4, <1>5, <2>2, <3>1 DEF ReaderKnows, Writes
  <2> QED BY <2>1, <2>2
<1> QED BY <1>3, <1>4, <1>6, <1>7, <1>9, <1>10, <1>11, StepOf

\* A request of a Get.
LEMMA GetStep ==
    ASSUME IInv, NEW q \in Callers, Observe, call[q].op = "Get", UNCHANGED bucket,
           NEW c \in Method, call' = [call EXCEPT ![q] = c],
           NEW a \in Versions \union {None}, answer' = [answer EXCEPT ![q] = a],
           faults' \in Nat, interrupted' \in BOOLEAN, missed' \in BOOLEAN, missed => missed',
           c = Idle \/ (c.op = "Get" /\ c.at \in {"read active", "read spec"}),
           c.at = "read spec" => c.version \in Versions,
           ~contended' /\ ~missed' =>
               /\ c.at = "read active" => ~deleted
               /\ c.at = "read spec" => c.version \in during[q] /\ c.version \in objects
               /\ c = Idle => a \in during[q]
    PROVE  IInv'
<1>1. /\ call' \in [Callers -> Method] /\ call'[q] = c
      /\ \A p \in Callers : p # q => call'[p] = call[p]
  BY CallIs DEF IInv
<1>2. /\ answer' \in [Callers -> Versions \union {None}] /\ answer'[q] = a
      /\ \A p \in Callers : p # q => answer'[p] = answer[p]
  BY Types DEF IInv
<1>3. /\ Changes(q) /\ ActiveHasObject'
      /\ objects' \subseteq Versions /\ log' \in Seq(Versions)
      /\ active' \in Versions \union {None} /\ deleted' \in BOOLEAN
      /\ objects' = objects /\ deleted' = deleted
  BY QuietChanges DEF bucket
<1>4. store' = store
  BY DEF Observe
<1>5. Shape(q)' /\ WriterKnows(q)'
  BY <1>1, IdleIs DEF Shape, WriterKnows, At
<1>6. ReaderKnows(q)'
  <2>1. CASE c = Idle
    <3>1. during'[q] = during[q]
      BY <1>1, <2>1, DuringIs, IdleIs
    <3> QED BY <1>1, <1>2, <2>1, <3>1, IdleIs DEF ReaderKnows
  <2>2. CASE c # Idle
    <3>1. during'[q] = {Served'} \union during[q]
      BY <1>1, <2>2, DuringIs
    <3>2. ~deleted /\ ~contended' => active' = Served'
      BY <1>3 DEF Served, ActiveHasObject
    <3> QED BY <1>1, <1>3, <2>2, <3>1, <3>2 DEF ReaderKnows, Writes
  <2> QED BY <2>1, <2>2
<1> QED BY <1>1, <1>2, <1>3, <1>5, <1>6, StepOf

LEMMA GetSteps ==
    ASSUME IInv, NEW q \in Callers, Observe,
           \/ NotDeleted(q, "Get", "read active") \/ NotDeletedFails(q, "Get", "read active")
           \/ IsDeleted(q, "Get") \/ ReadActive(q) \/ ReadSpec(q)
    PROVE  IInv'
<1> USE DEF At
<1>1. TypeOK /\ Shape(q) /\ ReaderKnows(q) /\ ActiveHasObject
  BY DEF IInv
<1>2. faults \in Nat /\ interrupted \in BOOLEAN /\ missed \in BOOLEAN /\ faults + 1 \in Nat
  <2>1. interrupted \in BOOLEAN /\ missed \in BOOLEAN
    BY <1>1, Types
  <2>2. faults \in Nat
    BY <1>1 DEF TypeOK
  <2>3. faults + 1 \in Nat
    BY <2>2, OneMoreFault
  <2> QED BY <2>1, <2>2, <2>3
<1>3. contended => contended'
  BY ContendedIs DEF IInv
<1>4. call[q] \in Method /\ answer[q] \in Versions \union {None} /\ answer = [answer EXCEPT ![q] = answer[q]]
  BY <1>1, Types
<1>5. active = None => Served = None
  BY DEF Served
<1>6. CASE NotDeleted(q, "Get", "read active") \/ NotDeletedFails(q, "Get", "read active")
  <2>1. PICK c : c = [call[q] EXCEPT !.at = "read active"]
    OBVIOUS
  <2>2. /\ c \in Method /\ call' = [call EXCEPT ![q] = c] /\ c.op = "Get" /\ c.at = "read active"
        /\ call[q].op = "Get" /\ UNCHANGED <<bucket, answer, interrupted>> /\ c # Idle
    BY <1>1, <1>4, <1>6, <2>1, Types, IdleIs DEF NotDeleted, NotDeletedFails, Goto, Method, history
  <2>3. faults' \in Nat /\ missed' \in BOOLEAN /\ (missed => missed') /\ (~missed' => ~deleted)
    BY <1>2, <1>6 DEF NotDeleted, NotDeletedFails, history
  <2> QED BY <1>2, <1>4, <2>2, <2>3, GetStep
<1>7. CASE IsDeleted(q, "Get")
  <2>1. /\ call[q].op = "Get" /\ call' = [call EXCEPT ![q] = Idle] /\ UNCHANGED <<bucket, history>>
        /\ answer' = [answer EXCEPT ![q] = None]
    BY <1>7 DEF IsDeleted, Return
  <2>2. Served = None
    BY <1>1, <1>7 DEF IsDeleted, Shape, Served
  <2>3. None \in during[q]
    BY <1>1, <2>1, <2>2 DEF ReaderKnows
  <2> QED BY <1>2, <2>1, <2>3, IdleIs, GetStep DEF history
<1>8. CASE ReadActive(q) /\ active = None
  <2>1. /\ call[q].op = "Get" /\ call' = [call EXCEPT ![q] = Idle] /\ UNCHANGED <<bucket, history>>
        /\ answer' = [answer EXCEPT ![q] = None]
    BY <1>8 DEF ReadActive, Return
  <2>2. None \in during[q]
    BY <1>1, <1>5, <1>8, <2>1 DEF ReaderKnows
  <2> QED BY <1>2, <2>1, <2>2, IdleIs, GetStep DEF history
<1>9. CASE ReadActive(q) /\ active # None
  <2>1. PICK c : c = [call[q] EXCEPT !.at = "read spec", !.version = active]
    OBVIOUS
  <2>2. active \in Versions
    BY <1>1, <1>9 DEF TypeOK
  <2>3. /\ c \in Method /\ call' = [call EXCEPT ![q] = c] /\ c.op = "Get" /\ c.at = "read spec"
        /\ c.version = active
        /\ call[q].op = "Get" /\ UNCHANGED <<bucket, answer, history>> /\ c # Idle
    BY <1>4, <1>9, <2>1, <2>2, <1>1, Types, IdleIs DEF ReadActive, Method
  <2>4. ~contended' /\ ~missed' => active \in during[q] /\ active \in objects
    <3> SUFFICES ASSUME ~contended', ~missed' PROVE active \in during[q] /\ active \in objects
      OBVIOUS
    <3>1. ~contended /\ ~missed
      BY <1>3, <2>3 DEF history
    <3> QED BY <1>1, <1>9, <3>1 DEF ReaderKnows, ReadActive, ActiveHasObject
  <2> QED BY <1>2, <1>4, <2>2, <2>3, <2>4, GetStep DEF history
<1>10. CASE ReadSpec(q)
  <2>1. PICK a : a = IF call[q].version \in objects THEN call[q].version ELSE None
    OBVIOUS
  <2>2. /\ call[q].op = "Get" /\ call' = [call EXCEPT ![q] = Idle] /\ UNCHANGED <<bucket, history>>
        /\ answer' = [answer EXCEPT ![q] = a] /\ a \in Versions \union {None}
    BY <1>10, <1>1, <2>1 DEF ReadSpec, Return, TypeOK
  <2>3. ~contended' /\ ~missed' => a \in during[q]
    <3> SUFFICES ASSUME ~contended', ~missed' PROVE a \in during[q]
      OBVIOUS
    <3>1. ~contended /\ ~missed
      BY <1>3, <2>2 DEF history
    <3> QED BY <1>1, <1>10, <2>1, <3>1 DEF ReaderKnows, ReadSpec
  <2> QED BY <1>2, <2>2, <2>3, IdleIs, GetStep DEF history
<1> QED BY <1>6, <1>7, <1>8, <1>9, <1>10 DEF ReadActive

-----------------------------------------------------------------------------
(* The writes to the bucket.                                               *)

LEMMA WriteStep ==
    ASSUME IInv, NEW q \in Callers, Observe,
           \/ WriteSpec(q) \/ WriteList(q) \/ Revive(q)
           \/ WriteActive(q) \/ WriteDeleted(q) \/ RemoveActive(q)
    PROVE  IInv'
<1> USE DEF At
<1>1. TypeOK /\ Shape(q) /\ WriterKnows(q) /\ ActiveHasObject
  BY DEF IInv
<1>2. /\ faults' \in Nat /\ interrupted' \in BOOLEAN /\ missed' \in BOOLEAN /\ missed' = missed
      /\ answer' = answer /\ Writes(call[q].op)
  BY <1>1, Types DEF TypeOK, WriteSpec, WriteList, Revive, WriteActive, WriteDeleted, RemoveActive, history, Writes
<1>3. (contended => contended') /\ store' = store
  BY ContendedIs DEF IInv, Observe
<1>4. /\ objects \subseteq Versions /\ log \in Seq(Versions) /\ active \in Versions \union {None}
      /\ deleted \in BOOLEAN /\ call[q] \in Method /\ call \in [Callers -> Method]
  BY <1>1, Types DEF TypeOK
<1>5. /\ objects' \subseteq Versions /\ active' \in Versions \union {None} /\ deleted' \in BOOLEAN
      /\ objects \subseteq objects'
  BY <1>1, <1>4 DEF WriteSpec, WriteList, Revive, WriteActive, WriteDeleted, RemoveActive, Shape
<1>6. log' \in Seq(Versions)
  <2>1. CASE log' = log
    BY <1>4, <2>1
  <2>2. CASE log' = Append(call[q].read, call[q].version) /\ call[q].op = "Create"
    <3>1. call[q].read \in Seq(Versions) /\ call[q].version \in Versions
      BY <1>1, <1>4, <2>2 DEF Method, Shape
    <3> QED BY <2>2, <3>1
  <2> QED BY <2>1, <2>2 DEF WriteSpec, WriteList, Revive, WriteActive, WriteDeleted, RemoveActive
<1>7. /\ \/ active' \in {active, None}
         \/ active' \in objects /\ call[q].op = "Activate" /\ call[q].at = "write" /\ deleted' = deleted
         \/ store = "agent" /\ contended
  BY <1>1 DEF WriteSpec, WriteList, Revive, WriteActive, WriteDeleted, RemoveActive, WriterKnows
<1>8. Changes(q)
  BY <1>1, <1>2, <1>5, <1>7 DEF Changes, WriterKnows
<1>9. ActiveHasObject'
  BY <1>1, <1>3, <1>5, <1>7 DEF ActiveHasObject
<1>10. CASE Return(q)
  BY <1>2, <1>5, <1>6, <1>8, <1>9, <1>10, IdleIs, WriterStep DEF Return
<1>11. CASE \E place \in {"read list", "deleted?"} : call[q].op = "Create" /\ Goto(q, place)
  <2>1. PICK place \in {"read list", "deleted?"} : call[q].op = "Create" /\ Goto(q, place)
    BY <1>11
  <2>2. PICK c : c = [call[q] EXCEPT !.at = place]
    OBVIOUS
  <2>3. /\ c \in Method /\ call' = [call EXCEPT ![q] = c]
        /\ c.op = "Create" /\ c.version = call[q].version /\ c.at = place
    BY <1>4, <2>1, <2>2 DEF Goto, Method
  <2>4. call'[q] = c
    BY <1>1, <2>3, CallIs
  <2>5. Shape(q)' /\ WriterKnows(q)'
    BY <1>1, <2>1, <2>3, <2>4, IdleIs DEF Shape, WriterKnows
  <2> QED BY <1>2, <1>5, <1>6, <1>8, <1>9, <2>1, <2>3, <2>5, WriterStep
<1> QED BY <1>10, <1>11 DEF WriteSpec, WriteList, Revive, WriteActive, WriteDeleted, RemoveActive

\* An agent's keys go one by one, the pointer first.
LEMMA DeleteKeyStep ==
    ASSUME IInv, NEW q \in Callers, Observe, NEW key \in Versions \union {None}, DeleteKey(q, key)
    PROVE  IInv'
<1> USE DEF At
<1>1. TypeOK /\ Shape(q) /\ WriterKnows(q) /\ ActiveHasObject
  BY DEF IInv
<1>2. /\ faults' \in Nat /\ interrupted' \in BOOLEAN /\ missed' \in BOOLEAN /\ missed' = missed
      /\ answer' = answer /\ Writes(call[q].op)
  BY <1>1, Types DEF TypeOK, DeleteKey, history, Writes
<1>3. (contended => contended') /\ store' = store /\ store = "agent"
  BY <1>1, ContendedIs DEF IInv, Observe, DeleteKey, Shape
<1>4. /\ objects \subseteq Versions /\ log \in Seq(Versions) /\ active \in Versions \union {None}
      /\ deleted \in BOOLEAN /\ call[q] \in Method /\ call \in [Callers -> Method]
  BY <1>1, Types DEF TypeOK
<1>5. /\ objects' \subseteq Versions /\ active' \in Versions \union {None} /\ deleted' \in BOOLEAN
      /\ log' \in Seq(Versions) /\ active' \in {active, None}
  BY <1>4 DEF DeleteKey
<1>6. ~contended => call[q].todo = Keys
  BY <1>1 DEF WriterKnows, DeleteKey
<1>7. ~contended => objects' = objects \/ active' = None
  BY <1>4, <1>6, NoneIsNoVersion DEF DeleteKey, Keys
<1>8. Changes(q)
  BY <1>2, <1>3, <1>5, <1>7 DEF Changes
<1>9. ActiveHasObject'
  BY <1>1, <1>3, <1>5, <1>7 DEF ActiveHasObject
<1>10. CASE Return(q)
  BY <1>2, <1>5, <1>8, <1>9, <1>10, IdleIs, WriterStep DEF Return
<1>11. CASE call' = [call EXCEPT ![q].todo = @ \ {key}]
  <2>1. PICK c : c = [call[q] EXCEPT !.todo = call[q].todo \ {key}]
    OBVIOUS
  <2>2. /\ c \in Method /\ call' = [call EXCEPT ![q] = c]
        /\ c.op = "Delete" /\ c.version = call[q].version /\ c.at = "delete" /\ c.todo = call[q].todo \ {key}
    BY <1>4, <1>11, <2>1 DEF DeleteKey, Method
  <2>3. call'[q] = c
    BY <1>1, <2>2, CallIs
  <2>4. Keys' = Keys \ {key}
    BY <1>4, NoneIsNoVersion DEF DeleteKey, Keys
  <2>5. Shape(q)' /\ WriterKnows(q)'
    BY <1>1, <1>3, <1>6, <2>2, <2>3, <2>4, IdleIs DEF Shape, WriterKnows
  <2> QED BY <1>2, <1>5, <1>8, <1>9, <2>2, <2>5, WriterStep DEF DeleteKey
<1> QED BY <1>10, <1>11 DEF DeleteKey

-----------------------------------------------------------------------------
LEMMA NextStep == ASSUME IInv, Next PROVE IInv'
<1> SUFFICES ASSUME NEW q \in Callers, Step(q), Observe PROVE IInv'
  BY DEF Next
<1>1. store \in {"workflow", "skill", "agent"}
  BY DEF IInv, TypeOK
<1>2. CASE \E v \in Versions : StartCreate(q, v)
  BY <1>2, StartStep DEF StartCreate
<1>3. CASE \E v \in Versions : StartActivate(q, v)
  BY <1>3, StartStep DEF StartActivate, FirstCheck
<1>4. CASE StartDelete(q)
  BY <1>1, <1>4, StartStep DEF StartDelete
<1>5. CASE StartGet(q)
  BY <1>5, StartStep DEF StartGet
<1>6. CASE \/ CreateExists(q) \/ CreateExistsFails(q) \/ ReadList(q)
           \/ CreateDeleted(q) \/ CreateDeletedFails(q)
           \/ ActivateExists(q) \/ GiveUp(q)
  BY <1>6, AskStep
<1>7. CASE \E check \in {<<"Activate", "exists?">>, <<"Delete", "mark">>, <<"Get", "read active">>} :
               \/ NotDeleted(q, check[1], check[2])
               \/ NotDeletedFails(q, check[1], check[2])
               \/ IsDeleted(q, check[1])
  <2>1. PICK op \in {"Activate", "Delete", "Get"}, next \in {"exists?", "mark", "read active"} :
            /\ <<op, next>> \in {<<"Activate", "exists?">>, <<"Delete", "mark">>, <<"Get", "read active">>}
            /\ NotDeleted(q, op, next) \/ NotDeletedFails(q, op, next) \/ IsDeleted(q, op)
    <3>1. PICK check \in {<<"Activate", "exists?">>, <<"Delete", "mark">>, <<"Get", "read active">>} :
               \/ NotDeleted(q, check[1], check[2])
               \/ NotDeletedFails(q, check[1], check[2])
               \/ IsDeleted(q, check[1])
      BY <1>7
    <3>2. CASE check = <<"Activate", "exists?">>
      BY <3>1, <3>2
    <3>3. CASE check = <<"Delete", "mark">>
      BY <3>1, <3>3
    <3>4. CASE check = <<"Get", "read active">>
      BY <3>1, <3>4
    <3> QED BY <3>2, <3>3, <3>4
  <2> QED BY <2>1, CheckStep, GetSteps
<1>8. CASE ReadActive(q) \/ ReadSpec(q)
  BY <1>8, GetSteps
<1>9. CASE \/ WriteSpec(q) \/ WriteList(q) \/ Revive(q)
           \/ WriteActive(q) \/ WriteDeleted(q) \/ RemoveActive(q)
  BY <1>9, WriteStep
<1>10. CASE ListKeys(q)
  BY <1>10, ListKeysStep
<1>11. CASE \E key \in Versions \union {None} : DeleteKey(q, key)
  BY <1>11, DeleteKeyStep
<1> QED BY <1>2, <1>3, <1>4, <1>5, <1>6, <1>7, <1>8, <1>9, <1>10, <1>11 DEF Step

-----------------------------------------------------------------------------
\* The inductive invariant of BlobStores: what each call relies on between its requests.
THEOREM Invariance == Spec => []IInv
<1>1. IInv /\ [Next]_vars => IInv'
  <2> SUFFICES ASSUME IInv, [Next]_vars PROVE IInv'
    OBVIOUS
  <2>1. CASE UNCHANGED vars
    BY <2>1 DEF vars, bucket, history, IInv, TypeOK, ActiveHasObject, TakeTurns, Shape, WriterKnows, Keys,
                ReaderKnows, Served, At
  <2> QED BY <2>1, NextStep
<1> QED BY <1>1, InitInv, PTL DEF Spec

\* The variables have their types, for any versions and callers.
THEOREM TypeCorrect == Spec => []TypeOK
<1>1. IInv => TypeOK
  BY DEF IInv
<1> QED BY <1>1, Invariance, PTL

\* Store.Activate, Store.Delete: the pointer never names a version that is not stored.
THEOREM PointerNeverDangles == Spec => []ActiveHasObject
<1>1. IInv => ActiveHasObject
  BY DEF IInv
<1> QED BY <1>1, Invariance, PTL

\* Store.Get: with writers that take turns and no lost answer, it returns what was served at a
\* moment of the call, whatever comes between its reads.
THEOREM GetReturnsTheServed == Spec => []GetIsLinearizable
<1>1. IInv => GetIsLinearizable
  BY DEF IInv, ReaderKnows, GetIsLinearizable
<1> QED BY <1>1, Invariance, PTL

\* BlobStore.Delete of pkg/agent/store: when it comes to its end, the name has no key left.
THEOREM DeletesAreComplete == Spec => DeleteLeavesNothing
<1>1. ASSUME IInv, [Next]_vars, NEW p \in Callers,
             At(p, "Delete", "delete"), call'[p] = Idle, faults' = faults, ~contended
      PROVE  objects' = {} /\ active' = None
  <2> USE DEF At
  <2>1. call \in [Callers -> Method] /\ faults \in Nat /\ call[p] # Idle
    BY <1>1, Types, IdleIs DEF IInv, TypeOK
  <2>2. PICK q \in Callers : Step(q) /\ Observe
    BY <1>1, <2>1 DEF Next, vars
  <2>3. q = p
    BY <1>1, <2>1, <2>2 DEF Step, StartCreate, StartActivate, StartDelete, StartGet, Start, Goto, Return,
        CreateExists, CreateExistsFails, WriteSpec, ReadList, WriteList, CreateDeleted, CreateDeletedFails, Revive,
        NotDeleted, NotDeletedFails, IsDeleted, ActivateExists, WriteActive, WriteDeleted, RemoveActive,
        ListKeys, DeleteKey, ReadActive, ReadSpec, GiveUp
  <2>4. PICK key \in Versions \union {None} : DeleteKey(p, key)
    <3>1. ~GiveUp(p)
      BY <1>1, <2>1 DEF GiveUp
    <3> QED BY <1>1, <2>1, <2>2, <2>3, <3>1 DEF Step, StartCreate, StartActivate, StartDelete, StartGet, Start,
        CreateExists, CreateExistsFails, WriteSpec, ReadList, WriteList, CreateDeleted, CreateDeletedFails, Revive,
        NotDeleted, NotDeletedFails, IsDeleted, ActivateExists, WriteActive, WriteDeleted, RemoveActive,
        ListKeys, ReadActive, ReadSpec
  <2>5. call[p].todo = Keys /\ objects \subseteq Versions
    BY <1>1 DEF IInv, WriterKnows, TypeOK
  <2>6. Exists(key)
    BY <2>4, <2>5, NoneIsNoVersion DEF DeleteKey, Exists, Keys
  <2>7. call[p].todo = {key}
    <3>1. (call' = [call EXCEPT ![p].todo = @ \ {key}]) => call'[p].op = "Delete"
      BY <1>1, <2>1 DEF Method
    <3> QED BY <1>1, <2>4, <2>6, <3>1, IdleIs DEF DeleteKey
  <2> QED BY <2>4, <2>5, <2>7, NoneIsNoVersion DEF DeleteKey, Keys
<1>2. IInv /\ [Next]_vars =>
          [\A p \in Callers : At(p, "Delete", "delete") /\ call'[p] = Idle /\ faults' = faults
               /\ ~contended => objects' = {} /\ active' = None]_vars
  BY <1>1
<1> QED BY <1>2, Invariance, PTL DEF Spec, DeleteLeavesNothing
=============================================================================
