--------------------- MODULE PostgresCheckpointerProofs ---------------------
(***************************************************************************)
(* For any number of nodes, steps, deletes and crashes: the optimistic     *)
(* lock of PostgresCheckpointer loses no update and no step within a       *)
(* lifetime of the thread's row, and its conflicts are real.               *)
(***************************************************************************)
EXTENDS MCWorkflowState, TLAPS

\* A stored row has been written by a Save, and its version is never 0: the
\* Version of a fresh Checkpoint matches no row.
RowWritten == checkpoint # None => checkpoint.version >= 1 /\ checkpoint.write \in 1 .. writes

\* What n holds is no newer than the row of the same lifetime, and has the
\* row's version exactly when it was loaded from the row; a row of another
\* lifetime may have the version too, but is another write.
HoldsNoNewer(n) ==
    /\ cp[n].lifetime <= lifetime
    /\ cp[n].write <= writes
    /\ checkpoint # None /\ cp[n].write = checkpoint.write => cp[n].version = checkpoint.version
    /\ Checkpoints!Current(n) /\ checkpoint = None => cp[n].version = 0
    /\ Checkpoints!Current(n) /\ checkpoint # None =>
           /\ cp[n].version <= checkpoint.version
           /\ (cp[n].version = checkpoint.version) <=> (cp[n].write = checkpoint.write)

\* A node whose checkpoint is the row's executes, and saves, the next step.
OnNextStep(n) ==
    Checkpoints!Current(n) /\ checkpoint # None /\ cp[n].version = checkpoint.version =>
        /\ at[n] = "execute" => cp[n].step = checkpoint.step
        /\ at[n] = "save" => cp[n].step = checkpoint.step + 1

\* A row that n wrote itself while it held its checkpoint is the one it loaded,
\* or comes from a save that was not answered.
KnowsItsWrites(n) ==
    (at[n] # "load" /\ checkpoint # None /\ checkpoint.node = n) => checkpoint.write \in {cp[n].write, cp[n].own}

IInv ==
    /\ Checkpoints!TypeOK
    /\ RowWritten
    /\ \A n \in Nodes : HoldsNoNewer(n) /\ OnNextStep(n) /\ KnowsItsWrites(n)
    /\ Checkpoints!ConflictIsReal

-----------------------------------------------------------------------------
\* The type invariant is inductive.
LEMMA TypeStep == ASSUME Checkpoints!TypeOK, [Checkpoints!Next]_(Checkpoints!vars) PROVE Checkpoints!TypeOK'
<1> USE NoneIsNoCheckpoint DEF Checkpoints!TypeOK, Checkpoints!Row
<1>1. ASSUME NEW n \in Nodes, Checkpoints!Load(n) PROVE Checkpoints!TypeOK'
  <2>1. Checkpoints!Loaded \in [version : Nat, step : Nat, write : Nat, own : Nat, lifetime : Nat]
    BY DEF Checkpoints!Loaded, Checkpoints!Fresh
  <2> QED BY <1>1, <2>1 DEF Checkpoints!Load, Checkpoints!NoSave
<1>2. ASSUME NEW n \in Nodes, Checkpoints!Execute(n) PROVE Checkpoints!TypeOK'
  <2>1. cp'[n] = [cp[n] EXCEPT !.step = @ + 1] /\ \A m \in Nodes \ {n} : cp'[m] = cp[m]
    BY <1>2 DEF Checkpoints!Execute
  <2>2. [cp[n] EXCEPT !.step = @ + 1] \in [version : Nat, step : Nat, write : Nat, own : Nat, lifetime : Nat]
    OBVIOUS
  <2>3. cp' \in [Nodes -> [version : Nat, step : Nat, write : Nat, own : Nat, lifetime : Nat]]
    BY <1>2, <2>1, <2>2 DEF Checkpoints!Execute
  <2> QED BY <1>2, <2>3 DEF Checkpoints!Execute, Checkpoints!NoSave
<1>3. ASSUME NEW n \in Nodes, Checkpoints!Save(n) PROVE Checkpoints!TypeOK'
  BY <1>3 DEF Checkpoints!Save, Checkpoints!InsertRow, Checkpoints!UpdateRow, Checkpoints!Upsert
<1>4. ASSUME NEW n \in Nodes, Checkpoints!SaveAnswerLost(n) PROVE Checkpoints!TypeOK'
  <2>1. cp'[n] = [cp[n] EXCEPT !.own = writes + 1] /\ \A m \in Nodes \ {n} : cp'[m] = cp[m]
    BY <1>4 DEF Checkpoints!SaveAnswerLost
  <2>2. [cp[n] EXCEPT !.own = writes + 1] \in [version : Nat, step : Nat, write : Nat, own : Nat, lifetime : Nat]
    OBVIOUS
  <2>3. cp' \in [Nodes -> [version : Nat, step : Nat, write : Nat, own : Nat, lifetime : Nat]]
    BY <1>4, <2>1, <2>2 DEF Checkpoints!SaveAnswerLost
  <2> QED BY <1>4, <2>3 DEF Checkpoints!SaveAnswerLost, Checkpoints!InsertRow, Checkpoints!UpdateRow, Checkpoints!Upsert
<1>5. ASSUME NEW n \in Nodes, Checkpoints!Crash(n) PROVE Checkpoints!TypeOK'
  BY <1>5 DEF Checkpoints!Crash, Checkpoints!Fresh, Checkpoints!NoSave
<1>6. ASSUME NEW n \in Nodes, Checkpoints!Delete(n) PROVE Checkpoints!TypeOK'
  BY <1>6 DEF Checkpoints!Delete, Checkpoints!NoSave
<1>7. CASE UNCHANGED Checkpoints!vars
  BY <1>7 DEF Checkpoints!vars
<1> QED BY <1>1, <1>2, <1>3, <1>4, <1>5, <1>6, <1>7 DEF Checkpoints!Next

\* Rows are written with a version from 1 up.
LEMMA RowStep == ASSUME Checkpoints!TypeOK, RowWritten, [Checkpoints!Next]_(Checkpoints!vars) PROVE RowWritten'
<1> USE NoneIsNoCheckpoint DEF Checkpoints!TypeOK, Checkpoints!Row, RowWritten
<1>1. ASSUME NEW n \in Nodes, Checkpoints!InsertRow(n) \/ Checkpoints!UpdateRow(n) PROVE RowWritten'
  BY <1>1 DEF Checkpoints!InsertRow, Checkpoints!UpdateRow, Checkpoints!Upsert
<1>2. ASSUME UNCHANGED <<checkpoint, writes>> PROVE RowWritten'
  BY <1>2
<1>3. ASSUME NEW n \in Nodes, Checkpoints!Delete(n) PROVE RowWritten'
  BY <1>3 DEF Checkpoints!Delete
<1> QED BY <1>1, <1>2, <1>3 DEF Checkpoints!Next, Checkpoints!vars, Checkpoints!Load, Checkpoints!Execute, Checkpoints!Save, Checkpoints!SaveAnswerLost, Checkpoints!Crash

\* A Save that is applied leaves every node behind the row it has written.
LEMMA WriteLeavesBehind ==
    ASSUME Checkpoints!TypeOK, RowWritten, NEW n \in Nodes, NEW m \in Nodes,
           HoldsNoNewer(m), Checkpoints!InsertRow(n) \/ Checkpoints!UpdateRow(n), lifetime' = lifetime,
           cp'[m].version = cp[m].version, cp'[m].write = cp[m].write, cp'[m].lifetime = cp[m].lifetime
    PROVE  HoldsNoNewer(m)' /\ (Checkpoints!Current(m)' => cp'[m].version # checkpoint'.version)
<1> USE NoneIsNoCheckpoint DEF Checkpoints!TypeOK, Checkpoints!Row, RowWritten, HoldsNoNewer, Checkpoints!Current
<1>1. CASE Checkpoints!InsertRow(n)
  BY <1>1 DEF Checkpoints!InsertRow, Checkpoints!Upsert
<1>2. CASE Checkpoints!UpdateRow(n)
  BY <1>2 DEF Checkpoints!UpdateRow, Checkpoints!Upsert
<1> QED BY <1>1, <1>2

\* What the nodes hold stays at or behind the row.
LEMMA HoldStep ==
    ASSUME Checkpoints!TypeOK, RowWritten, \A m \in Nodes : HoldsNoNewer(m) /\ OnNextStep(m), [Checkpoints!Next]_(Checkpoints!vars)
    PROVE  \A m \in Nodes : HoldsNoNewer(m)' /\ OnNextStep(m)'
<1> SUFFICES ASSUME NEW m \in Nodes PROVE HoldsNoNewer(m)' /\ OnNextStep(m)'
  OBVIOUS
<1> USE NoneIsNoCheckpoint DEF Checkpoints!TypeOK, Checkpoints!Row
<1>1. ASSUME NEW n \in Nodes, Checkpoints!Load(n) PROVE HoldsNoNewer(m)' /\ OnNextStep(m)'
  <2>1. CASE m = n
    <3>1. cp'[m] = Checkpoints!Loaded /\ at'[m] \in {"load", "execute"} /\ UNCHANGED <<checkpoint, writes, lifetime>>
      BY <1>1, <2>1 DEF Checkpoints!Load
    <3> QED BY <3>1 DEF Checkpoints!Loaded, Checkpoints!Fresh, HoldsNoNewer, OnNextStep, Checkpoints!Current, RowWritten
  <2>2. CASE m # n
    BY <1>1, <2>2 DEF Checkpoints!Load, HoldsNoNewer, OnNextStep, Checkpoints!Current
  <2> QED BY <2>1, <2>2
<1>2. ASSUME NEW n \in Nodes, Checkpoints!Execute(n) PROVE HoldsNoNewer(m)' /\ OnNextStep(m)'
  <2>1. CASE m = n
    <3>1. /\ cp'[m] = [cp[m] EXCEPT !.step = @ + 1]
          /\ at[m] = "execute" /\ at'[m] = "save"
          /\ UNCHANGED <<checkpoint, writes, lifetime>>
      BY <1>2, <2>1 DEF Checkpoints!Execute
    <3> QED BY <3>1 DEF HoldsNoNewer, OnNextStep, Checkpoints!Current
  <2>2. CASE m # n
    BY <1>2, <2>2 DEF Checkpoints!Execute, HoldsNoNewer, OnNextStep, Checkpoints!Current
  <2> QED BY <2>1, <2>2
<1>3. ASSUME NEW n \in Nodes, Checkpoints!Save(n) PROVE HoldsNoNewer(m)' /\ OnNextStep(m)'
  <2>1. CASE Checkpoints!InsertRow(n) \/ Checkpoints!UpdateRow(n)
    BY <1>3, <2>1, WriteLeavesBehind DEF Checkpoints!Save, OnNextStep
  <2>2. CASE UNCHANGED <<checkpoint, writes>>
    BY <1>3, <2>2 DEF Checkpoints!Save, HoldsNoNewer, OnNextStep, Checkpoints!Current
  <2> QED BY <1>3, <2>1, <2>2 DEF Checkpoints!Save
<1>4. ASSUME NEW n \in Nodes, Checkpoints!SaveAnswerLost(n) PROVE HoldsNoNewer(m)' /\ OnNextStep(m)'
  <2>1. cp'[m].version = cp[m].version /\ cp'[m].write = cp[m].write /\ cp'[m].lifetime = cp[m].lifetime
    <3>1. cp'[m] \in {cp[m], [cp[m] EXCEPT !.own = writes + 1]}
      BY <1>4 DEF Checkpoints!SaveAnswerLost
    <3> QED BY <3>1
  <2> QED BY <1>4, <2>1, WriteLeavesBehind DEF Checkpoints!SaveAnswerLost, OnNextStep
<1>5. ASSUME NEW n \in Nodes, Checkpoints!Crash(n) PROVE HoldsNoNewer(m)' /\ OnNextStep(m)'
  <2>1. CASE m = n
    <3>1. cp'[m] = Checkpoints!Fresh /\ at'[m] = "load" /\ UNCHANGED <<checkpoint, writes, lifetime>>
      BY <1>5, <2>1 DEF Checkpoints!Crash
    <3> QED BY <3>1 DEF Checkpoints!Fresh, HoldsNoNewer, OnNextStep, Checkpoints!Current, RowWritten
  <2>2. CASE m # n
    BY <1>5, <2>2 DEF Checkpoints!Crash, HoldsNoNewer, OnNextStep, Checkpoints!Current
  <2> QED BY <2>1, <2>2
<1>6. ASSUME NEW n \in Nodes, Checkpoints!Delete(n) PROVE HoldsNoNewer(m)' /\ OnNextStep(m)'
  BY <1>6 DEF Checkpoints!Delete, HoldsNoNewer, OnNextStep, Checkpoints!Current
<1>7. CASE UNCHANGED Checkpoints!vars
  BY <1>7 DEF Checkpoints!vars, HoldsNoNewer, OnNextStep, Checkpoints!Current
<1> QED BY <1>1, <1>2, <1>3, <1>4, <1>5, <1>6, <1>7 DEF Checkpoints!Next

\* While n goes on from one checkpoint, its own writes are the ones it knows.
LEMMA KnowsStep ==
    ASSUME Checkpoints!TypeOK, RowWritten, \A m \in Nodes : KnowsItsWrites(m), [Checkpoints!Next]_(Checkpoints!vars)
    PROVE  \A m \in Nodes : KnowsItsWrites(m)'
<1> SUFFICES ASSUME NEW m \in Nodes PROVE KnowsItsWrites(m)'
  OBVIOUS
<1> USE NoneIsNoCheckpoint DEF Checkpoints!TypeOK, Checkpoints!Row, KnowsItsWrites
<1>1. ASSUME NEW n \in Nodes, Checkpoints!Load(n) PROVE KnowsItsWrites(m)'
  <2>1. CASE m = n
    <3>1. cp'[m] = Checkpoints!Loaded /\ checkpoint' = checkpoint
      BY <1>1, <2>1 DEF Checkpoints!Load
    <3> QED BY <3>1 DEF Checkpoints!Loaded
  <2>2. CASE m # n
    BY <1>1, <2>2 DEF Checkpoints!Load
  <2> QED BY <2>1, <2>2
<1>2. ASSUME NEW n \in Nodes, Checkpoints!Execute(n) PROVE KnowsItsWrites(m)'
  <2>1. CASE m = n
    <3>1. cp'[m] = [cp[m] EXCEPT !.step = @ + 1] /\ at[m] = "execute" /\ checkpoint' = checkpoint
      BY <1>2, <2>1 DEF Checkpoints!Execute
    <3> QED BY <3>1
  <2>2. CASE m # n
    BY <1>2, <2>2 DEF Checkpoints!Execute
  <2> QED BY <2>1, <2>2
<1>3. ASSUME NEW n \in Nodes, Checkpoints!Save(n) PROVE KnowsItsWrites(m)'
  BY <1>3 DEF Checkpoints!Save, Checkpoints!InsertRow, Checkpoints!UpdateRow, Checkpoints!Upsert
<1>4. ASSUME NEW n \in Nodes, Checkpoints!SaveAnswerLost(n) PROVE KnowsItsWrites(m)'
  <2>1. checkpoint' = [version |-> checkpoint'.version, step |-> cp[n].step, write |-> writes + 1, node |-> n]
    BY <1>4 DEF Checkpoints!SaveAnswerLost, Checkpoints!InsertRow, Checkpoints!UpdateRow, Checkpoints!Upsert
  <2>2. CASE m = n
    <3>1. cp'[m] = [cp[m] EXCEPT !.own = writes + 1]
      BY <1>4, <2>2 DEF Checkpoints!SaveAnswerLost
    <3> QED BY <2>1, <3>1
  <2>3. CASE m # n
    BY <2>1, <2>3
  <2> QED BY <2>2, <2>3
<1>5. ASSUME NEW n \in Nodes, Checkpoints!Crash(n) PROVE KnowsItsWrites(m)'
  BY <1>5 DEF Checkpoints!Crash
<1>6. ASSUME NEW n \in Nodes, Checkpoints!Delete(n) PROVE KnowsItsWrites(m)'
  BY <1>6 DEF Checkpoints!Delete
<1>7. CASE UNCHANGED Checkpoints!vars
  BY <1>7 DEF Checkpoints!vars
<1> QED BY <1>1, <1>2, <1>3, <1>4, <1>5, <1>6, <1>7 DEF Checkpoints!Next

\* A conflict is answered to a node whose checkpoint is not the row's.
LEMMA ConflictStep ==
    ASSUME Checkpoints!TypeOK, \A m \in Nodes : HoldsNoNewer(m) /\ KnowsItsWrites(m), Checkpoints!ConflictIsReal, [Checkpoints!Next]_(Checkpoints!vars)
    PROVE  Checkpoints!ConflictIsReal'
<1> USE NoneIsNoCheckpoint DEF Checkpoints!TypeOK, Checkpoints!Row
<1>1. ASSUME NEW n \in Nodes, Checkpoints!Save(n) PROVE Checkpoints!ConflictIsReal'
  <2>1. CASE saved' = [node |-> n, outcome |-> "ok"]
    BY <2>1 DEF Checkpoints!ConflictIsReal
  <2>2. CASE Checkpoints!Conflict(n) /\ saved'.node = n /\ UNCHANGED <<checkpoint, cp, lifetime>>
    <3>1. at[n] = "save" /\ checkpoint # None /\ cp[n].write # checkpoint.write
      BY <1>1, <2>2 DEF Checkpoints!Save, Checkpoints!Conflict, HoldsNoNewer
    <3>2. checkpoint.node = n => checkpoint.write = cp[n].own
      BY <3>1 DEF KnowsItsWrites
    <3> QED BY <3>1, <3>2, <2>2 DEF Checkpoints!ConflictIsReal
  <2> QED BY <1>1, <2>1, <2>2 DEF Checkpoints!Save
<1>2. ASSUME saved' = Checkpoints!NoSave PROVE Checkpoints!ConflictIsReal'
  BY <1>2 DEF Checkpoints!NoSave, Checkpoints!ConflictIsReal
<1>3. ASSUME NEW n \in Nodes, Checkpoints!SaveAnswerLost(n) PROVE Checkpoints!ConflictIsReal'
  BY <1>3 DEF Checkpoints!SaveAnswerLost, Checkpoints!ConflictIsReal
<1>4. CASE UNCHANGED Checkpoints!vars
  BY <1>4 DEF Checkpoints!vars, Checkpoints!ConflictIsReal
<1> QED BY <1>1, <1>2, <1>3, <1>4 DEF Checkpoints!Next, Checkpoints!Load, Checkpoints!Execute, Checkpoints!Crash, Checkpoints!Delete

\* The inductive invariant holds in every reachable state.
THEOREM Invariance == Checkpoints!Spec => []IInv
<1>1. Checkpoints!Init => IInv
  BY NoneIsNoCheckpoint DEF Checkpoints!Init, IInv, Checkpoints!TypeOK, Checkpoints!Row, RowWritten, HoldsNoNewer, OnNextStep,
                        Checkpoints!Current, Checkpoints!ConflictIsReal, KnowsItsWrites, Checkpoints!NoSave
<1>2. IInv /\ [Checkpoints!Next]_(Checkpoints!vars) => IInv'
  BY TypeStep, RowStep, HoldStep, KnowsStep, ConflictStep DEF IInv
<1> QED BY <1>1, <1>2, PTL DEF Checkpoints!Spec

\* ErrVersionConflict always means that the row is not what the node loaded,
\* and was written by another node or in the node's own save that was not
\* answered; and a version names one write of a lifetime.
COROLLARY ConflictsAreReal == Checkpoints!Spec => [](ConflictIsReal /\ Checkpoints!VersionNamesWrite)
<1>1. IInv => ConflictIsReal /\ Checkpoints!VersionNamesWrite
  BY DEF IInv, ConflictIsReal, HoldsNoNewer, Checkpoints!VersionNamesWrite
<1> QED BY <1>1, Invariance, PTL

\* A step that replaces the row is an UPDATE by the node, which had matched it.
LEMMA ReplaceIsUpdate ==
    ASSUME IInv, [Checkpoints!Next]_(Checkpoints!vars), NEW n \in Nodes, Checkpoints!Replaces(n)
    PROVE  at[n] = "save" /\ Checkpoints!UpdateRow(n)
<1>1. PICK m \in Nodes : at[m] = "save" /\ (Checkpoints!InsertRow(m) \/ Checkpoints!UpdateRow(m)) /\ saved'.node = m
  BY DEF Checkpoints!Replaces, Checkpoints!Next, Checkpoints!vars, Checkpoints!Load, Checkpoints!Execute, Checkpoints!Save, Checkpoints!SaveAnswerLost, Checkpoints!Crash, Checkpoints!Delete
<1> QED BY <1>1 DEF Checkpoints!Replaces, Checkpoints!InsertRow

\* Within a lifetime of the row a Save replaces only what its node has loaded.
THEOREM LocksLoseNothing == Checkpoints!Spec => NoLostUpdate
<1>1. IInv /\ [Checkpoints!Next]_(Checkpoints!vars) => \A n \in Nodes : Checkpoints!Replaces(n) /\ Checkpoints!Current(n) => cp[n].write = checkpoint.write
  <2> SUFFICES ASSUME IInv, [Checkpoints!Next]_(Checkpoints!vars), NEW n \in Nodes, Checkpoints!Replaces(n), Checkpoints!Current(n)
               PROVE  cp[n].write = checkpoint.write
    OBVIOUS
  <2>1. checkpoint # None /\ checkpoint.version = cp[n].version
    BY ReplaceIsUpdate DEF Checkpoints!UpdateRow
  <2> QED BY <2>1 DEF IInv, HoldsNoNewer
<1> QED BY <1>1, Invariance, PTL DEF Checkpoints!Spec, NoLostUpdate, Checkpoints!NoLostUpdate

\* Within a lifetime of the row every checkpoint is one step past the last.
THEOREM StepsAreConsecutive == Checkpoints!Spec => Checkpoints!StepsFollow
<1>1. IInv /\ [Checkpoints!Next]_(Checkpoints!vars) => \A n \in Nodes : Checkpoints!Replaces(n) /\ Checkpoints!Current(n) => checkpoint'.step = checkpoint.step + 1
  <2> SUFFICES ASSUME IInv, [Checkpoints!Next]_(Checkpoints!vars), NEW n \in Nodes, Checkpoints!Replaces(n), Checkpoints!Current(n)
               PROVE  checkpoint'.step = checkpoint.step + 1
    OBVIOUS
  <2>1. at[n] = "save" /\ checkpoint # None /\ checkpoint.version = cp[n].version /\ checkpoint'.step = cp[n].step
    BY ReplaceIsUpdate DEF Checkpoints!UpdateRow, Checkpoints!Upsert
  <2> QED BY <2>1 DEF IInv, OnNextStep
<1> QED BY <1>1, Invariance, PTL DEF Checkpoints!Spec, Checkpoints!StepsFollow
=============================================================================
