--------------------- MODULE WorkflowMemoryStoreProofs ---------------------
(***************************************************************************)
(* The in-memory workflow store for any set of names and versions: its     *)
(* invariants, and that it implements the contract SpecStore.              *)
(***************************************************************************)
EXTENDS MCWorkflowState, Sequences, TLAPS

\* The inductive invariant: AbsentIsEmpty is what Create needs to know of an
\* entry it makes (nothing stored, so nothing can be listed or active).
IInv ==
    /\ Memory!TypeOK
    /\ Memory!ActiveIsServed
    /\ Memory!StatusAgreesUntilDelete
    /\ Memory!ListIsExact
    /\ Memory!AbsentIsEmpty

\* What no Activate changes.
Retained == UNCHANGED <<entries, versionList, deleted, everDeleted>>

\* Activate either fails and leaves the store alone, or finds the version in a
\* live entry, moves the mark to it, and changes no Status but two.
LEMMA ActivateEffect ==
  ASSUME Memory!TypeOK, NEW n \in Names, NEW v \in Versions, Memory!Activate(n, v)
  PROVE  /\ Retained
         /\ \/ UNCHANGED <<status, active>>
            \/ /\ Memory!Found(n)
               /\ status[n][v] # "absent"
               /\ active' = [active EXCEPT ![n] = v]
               /\ \A m \in Names : m # n => status'[m] = status[m]
               /\ \A w \in Versions :
                      status'[n][w] = IF w = v THEN "active"
                                      ELSE IF w = active[n] /\ status[n][w] # "absent"
                                      THEN "draft" ELSE status[n][w]
               /\ status' \in [Names -> [Versions -> {"absent", "draft", "active"}]]
<1> USE DEF Memory!TypeOK, Retained, Memory!Stored
<1>1. CASE Memory!Found(n) /\ v \in Memory!Stored(n)
  <2>1. Memory!Demoted(n) \in [Versions -> {"absent", "draft", "active"}]
    BY DEF Memory!Demoted
  <2>2. status' = [status EXCEPT ![n] = [Memory!Demoted(n) EXCEPT ![v] = "active"]]
    BY <1>1 DEF Memory!Activate
  <2>3. \A w \in Versions :
            status'[n][w] = IF w = v THEN "active"
                            ELSE IF w = active[n] /\ status[n][w] # "absent"
                            THEN "draft" ELSE status[n][w]
    BY <2>1, <2>2 DEF Memory!Demoted
  <2>4. status' \in [Names -> [Versions -> {"absent", "draft", "active"}]]
    <3>1. [Memory!Demoted(n) EXCEPT ![v] = "active"]
             \in [Versions -> {"absent", "draft", "active"}]
      BY <2>1
    <3> QED
      BY <2>2, <3>1
  <2>5. \A m \in Names : m # n => status'[m] = status[m]
    BY <2>2
  <2> QED
    BY <1>1, <2>3, <2>4, <2>5 DEF Memory!Activate
<1>2. CASE ~(Memory!Found(n) /\ v \in Memory!Stored(n))
  BY <1>2 DEF Memory!Activate
<1> QED
  BY <1>1, <1>2

\* Activate stores no version and loses none.
LEMMA ActivateKeepsStored ==
  ASSUME Memory!TypeOK, NEW n \in Names, NEW v \in Versions, Memory!Activate(n, v)
  PROVE  \A m \in Names : Memory!Stored(m)' = Memory!Stored(m)
<1>1. ASSUME NEW m \in Names, NEW w \in Versions
      PROVE  status'[m][w] # "absent" <=> status[m][w] # "absent"
  <2>1. CASE m # n
    BY <2>1, ActivateEffect
  <2>2. CASE m = n
    BY <2>2, ActivateEffect
  <2> QED
    BY <2>1, <2>2
<1> QED
  BY <1>1 DEF Memory!Stored

\* The shape of the store is kept by every call.
LEMMA TypeStep == Memory!TypeOK /\ [Memory!Next]_(Memory!vars) => Memory!TypeOK'
<1> SUFFICES ASSUME Memory!TypeOK, [Memory!Next]_(Memory!vars) PROVE Memory!TypeOK'
  OBVIOUS
<1> USE DEF Memory!TypeOK
<1>1. ASSUME NEW n \in Names, Memory!Get(n) PROVE Memory!TypeOK'
  BY <1>1 DEF Memory!Get
<1>2. ASSUME NEW n \in Names, Memory!Delete(n) PROVE Memory!TypeOK'
  BY <1>2 DEF Memory!Delete
<1>3. ASSUME NEW n \in Names, NEW v \in Versions, Memory!Create(n, v) PROVE Memory!TypeOK'
  <2>1. status' \in [Names -> [Versions -> {"absent", "draft", "active"}]]
    <3>1. [status[n] EXCEPT ![v] = "draft"] \in [Versions -> {"absent", "draft", "active"}]
      OBVIOUS
    <3> QED
      BY <1>3, <3>1 DEF Memory!Create
  <2>2. versionList' \in [Names -> Seq(Versions)]
    <3>1. Append(versionList[n], v) \in Seq(Versions)
      OBVIOUS
    <3> QED
      BY <1>3, <3>1 DEF Memory!Create
  <2> QED
    BY <1>3, <2>1, <2>2 DEF Memory!Create
<1>4. ASSUME NEW n \in Names, NEW v \in Versions, Memory!GetVersion(n, v) PROVE Memory!TypeOK'
  BY <1>4 DEF Memory!GetVersion
<1>5. ASSUME NEW n \in Names, NEW v \in Versions, Memory!Activate(n, v) PROVE Memory!TypeOK'
  <2>1. Retained /\ (UNCHANGED active \/ active' = [active EXCEPT ![n] = v])
    BY <1>5, ActivateEffect
  <2>2. status' \in [Names -> [Versions -> {"absent", "draft", "active"}]]
    BY <1>5, ActivateEffect
  <2> QED
    BY <2>1, <2>2 DEF Retained
<1>6. CASE UNCHANGED Memory!vars
  BY <1>6 DEF Memory!vars
<1> QED
  BY <1>1, <1>2, <1>3, <1>4, <1>5, <1>6 DEF Memory!Next

\* A name that no call has created has an empty entry.
LEMMA AbsentStep == Memory!TypeOK /\ Memory!AbsentIsEmpty /\ [Memory!Next]_(Memory!vars) => Memory!AbsentIsEmpty'
<1> SUFFICES ASSUME Memory!TypeOK, Memory!AbsentIsEmpty, [Memory!Next]_(Memory!vars) PROVE Memory!AbsentIsEmpty'
  OBVIOUS
<1> USE DEF Memory!TypeOK, Memory!AbsentIsEmpty, Memory!Stored, Memory!Found
<1>1. ASSUME NEW n \in Names, Memory!Get(n) PROVE Memory!AbsentIsEmpty'
  BY <1>1 DEF Memory!Get
<1>2. ASSUME NEW n \in Names, Memory!Delete(n) PROVE Memory!AbsentIsEmpty'
  BY <1>2 DEF Memory!Delete
<1>3. ASSUME NEW n \in Names, NEW v \in Versions, Memory!Create(n, v) PROVE Memory!AbsentIsEmpty'
  BY <1>3 DEF Memory!Create
<1>4. ASSUME NEW n \in Names, NEW v \in Versions, Memory!GetVersion(n, v) PROVE Memory!AbsentIsEmpty'
  BY <1>4 DEF Memory!GetVersion
<1>5. ASSUME NEW n \in Names, NEW v \in Versions, Memory!Activate(n, v) PROVE Memory!AbsentIsEmpty'
  <2>1. \A m \in Names \ entries : status'[m] = status[m]
    BY <1>5, ActivateEffect
  <2>2. Retained
    BY <1>5, ActivateEffect
  <2> QED
    BY <2>1, <2>2 DEF Retained
<1>6. CASE UNCHANGED Memory!vars
  BY <1>6 DEF Memory!vars
<1> QED
  BY <1>1, <1>2, <1>3, <1>4, <1>5, <1>6 DEF Memory!Next

\* Get keeps serving a stored version of a live name that calls itself active.
LEMMA ServedStep == Memory!TypeOK /\ Memory!ActiveIsServed /\ [Memory!Next]_(Memory!vars) => Memory!ActiveIsServed'
<1> SUFFICES ASSUME Memory!TypeOK, Memory!ActiveIsServed, [Memory!Next]_(Memory!vars) PROVE Memory!ActiveIsServed'
  OBVIOUS
<1> USE NoneIsNoVersion DEF Memory!TypeOK, Memory!ActiveIsServed, Memory!Found, Memory!Stored
<1>1. ASSUME NEW n \in Names, Memory!Get(n) PROVE Memory!ActiveIsServed'
  BY <1>1 DEF Memory!Get
<1>2. ASSUME NEW n \in Names, Memory!Delete(n) PROVE Memory!ActiveIsServed'
  BY <1>2 DEF Memory!Delete
<1>3. ASSUME NEW n \in Names, NEW v \in Versions, Memory!Create(n, v) PROVE Memory!ActiveIsServed'
  BY <1>3 DEF Memory!Create
<1>4. ASSUME NEW n \in Names, NEW v \in Versions, Memory!GetVersion(n, v) PROVE Memory!ActiveIsServed'
  BY <1>4 DEF Memory!GetVersion
<1>5. ASSUME NEW n \in Names, NEW v \in Versions, Memory!Activate(n, v) PROVE Memory!ActiveIsServed'
  BY <1>5, ActivateEffect DEF Retained
<1>6. CASE UNCHANGED Memory!vars
  BY <1>6 DEF Memory!vars
<1> QED
  BY <1>1, <1>2, <1>3, <1>4, <1>5, <1>6 DEF Memory!Next

\* Until a name is deleted, only its active version calls itself active.
LEMMA StatusStep ==
  Memory!TypeOK /\ Memory!StatusAgreesUntilDelete /\ [Memory!Next]_(Memory!vars) => Memory!StatusAgreesUntilDelete'
<1> SUFFICES ASSUME Memory!TypeOK, Memory!StatusAgreesUntilDelete, [Memory!Next]_(Memory!vars)
             PROVE  Memory!StatusAgreesUntilDelete'
  OBVIOUS
<1> USE NoneIsNoVersion DEF Memory!TypeOK, Memory!StatusAgreesUntilDelete, Memory!Found, Memory!Stored
<1>1. ASSUME NEW n \in Names, Memory!Get(n) PROVE Memory!StatusAgreesUntilDelete'
  BY <1>1 DEF Memory!Get
<1>2. ASSUME NEW n \in Names, Memory!Delete(n) PROVE Memory!StatusAgreesUntilDelete'
  BY <1>2 DEF Memory!Delete
<1>3. ASSUME NEW n \in Names, NEW v \in Versions, Memory!Create(n, v)
      PROVE  Memory!StatusAgreesUntilDelete'
  <2>1. CASE UNCHANGED status
    BY <1>3, <2>1 DEF Memory!Create
  <2>2. CASE status' = [status EXCEPT ![n][v] = "draft"]
    <3>1. \A m \in Names, w \in Versions :
              status'[m][w] = "active" => status[m][w] = "active"
      BY <2>2
    <3> QED
      BY <1>3, <3>1 DEF Memory!Create
  <2> QED
    BY <1>3, <2>1, <2>2 DEF Memory!Create
<1>4. ASSUME NEW n \in Names, NEW v \in Versions, Memory!GetVersion(n, v)
      PROVE  Memory!StatusAgreesUntilDelete'
  BY <1>4 DEF Memory!GetVersion
<1>5. ASSUME NEW n \in Names, NEW v \in Versions, Memory!Activate(n, v)
      PROVE  Memory!StatusAgreesUntilDelete'
  <2>1. CASE UNCHANGED <<status, active>>
    BY <1>5, <2>1, ActivateEffect DEF Retained
  <2>2. CASE ~ UNCHANGED <<status, active>>
    <3>1. /\ active' = [active EXCEPT ![n] = v]
          /\ \A m \in Names : m # n => status'[m] = status[m]
          /\ \A w \in Versions :
                 status'[n][w] = IF w = v THEN "active"
                                 ELSE IF w = active[n] /\ status[n][w] # "absent"
                                 THEN "draft" ELSE status[n][w]
      BY <1>5, <2>2, ActivateEffect
    <3>2. n \notin everDeleted =>
              \A w \in Versions : status'[n][w] = "active" => w = v
      BY <3>1
    <3>3. everDeleted' = everDeleted
      BY <1>5, ActivateEffect DEF Retained
    <3> QED
      BY <3>1, <3>2, <3>3
  <2> QED
    BY <2>1, <2>2
<1>6. CASE UNCHANGED Memory!vars
  BY <1>6 DEF Memory!vars
<1> QED
  BY <1>1, <1>2, <1>3, <1>4, <1>5, <1>6 DEF Memory!Next

\* ListVersions stays an exact enumeration of the stored versions.
LEMMA ListStep == Memory!TypeOK /\ Memory!ListIsExact /\ [Memory!Next]_(Memory!vars) => Memory!ListIsExact'
<1> SUFFICES ASSUME Memory!TypeOK, Memory!ListIsExact, [Memory!Next]_(Memory!vars) PROVE Memory!ListIsExact'
  OBVIOUS
<1> USE DEF Memory!TypeOK, Memory!ListIsExact, Memory!Stored, Memory!Found
<1>1. ASSUME NEW n \in Names, Memory!Get(n) PROVE Memory!ListIsExact'
  BY <1>1 DEF Memory!Get
<1>2. ASSUME NEW n \in Names, Memory!Delete(n) PROVE Memory!ListIsExact'
  <2>1. UNCHANGED <<versionList, status>>
    BY <1>2 DEF Memory!Delete
  <2> QED
    BY <2>1
<1>3. ASSUME NEW n \in Names, NEW v \in Versions, Memory!Create(n, v) PROVE Memory!ListIsExact'
  <2>1. CASE v \in Memory!Stored(n)
    BY <1>3, <2>1 DEF Memory!Create
  <2>2. CASE v \notin Memory!Stored(n)
    <3> SUFFICES ASSUME NEW m \in Names
                 PROVE  /\ \A i \in 1..Len(versionList'[m]) :
                               status'[m][versionList'[m][i]] # "absent"
                        /\ \A i \in 1..Len(versionList'[m]) :
                               versionList'[m][i] \in Versions
                        /\ \A w \in Versions : status'[m][w] # "absent" =>
                               \E i \in 1..Len(versionList'[m]) : versionList'[m][i] = w
                        /\ \A i, j \in 1..Len(versionList'[m]) :
                               versionList'[m][i] = versionList'[m][j] => i = j
      OBVIOUS
    <3>1. CASE m # n
      BY <1>3, <2>2, <3>1 DEF Memory!Create
    <3>2. CASE m = n
      <4>1. /\ versionList'[n] = Append(versionList[n], v)
            /\ status'[n] = [status[n] EXCEPT ![v] = "draft"]
            /\ versionList[n] \in Seq(Versions)
        <5>1. versionList' = [versionList EXCEPT ![n] = Append(@, v)]
          BY <1>3, <2>2 DEF Memory!Create
        <5>2. status' = [status EXCEPT ![n][v] = "draft"]
          BY <1>3, <2>2 DEF Memory!Create
        <5> QED
          BY <5>1, <5>2
      <4>2. /\ Len(versionList'[n]) = Len(versionList[n]) + 1
            /\ \A i \in 1..Len(versionList[n]) : versionList'[n][i] = versionList[n][i]
            /\ versionList'[n][Len(versionList[n]) + 1] = v
            /\ Len(versionList[n]) \in Nat
        BY <4>1
      <4>3. \A i \in 1..Len(versionList[n]) :
                versionList[n][i] \in Versions /\ versionList[n][i] # v
        BY <2>2
      <4>4. \A w \in Versions : status'[n][w] # "absent" =>
                \E i \in 1..Len(versionList'[n]) : versionList'[n][i] = w
        <5> SUFFICES ASSUME NEW w \in Versions, status'[n][w] # "absent"
                     PROVE  \E i \in 1..Len(versionList'[n]) : versionList'[n][i] = w
          OBVIOUS
        <5>1. CASE w = v
          BY <4>2, <5>1
        <5>2. CASE w # v
          <6>1. w \in Memory!Stored(n)
            BY <4>1, <5>2
          <6> QED
            BY <4>2, <6>1
        <5> QED
          BY <5>1, <5>2
      <4>5. \A i, j \in 1..Len(versionList'[n]) :
                versionList'[n][i] = versionList'[n][j] => i = j
        <5> DEFINE L == versionList[n]
                   K == versionList'[n]
        <5>1. /\ Len(K) = Len(L) + 1
              /\ \A i \in 1..Len(L) : K[i] = L[i] /\ L[i] # v
              /\ K[Len(L) + 1] = v
              /\ Len(L) \in Nat
              /\ \A i, j \in 1..Len(L) : L[i] = L[j] => i = j
          BY <4>2, <4>3
        <5> HIDE DEF L, K
        <5>2. ASSUME NEW i \in 1..Len(K), NEW j \in 1..Len(K), K[i] = K[j] PROVE i = j
          <6>1. CASE i \in 1..Len(L) /\ j \in 1..Len(L)
            BY <5>1, <5>2, <6>1
          <6>2. CASE i = Len(L) + 1 /\ j \in 1..Len(L)
            BY <5>1, <5>2, <6>2
          <6>3. CASE i \in 1..Len(L) /\ j = Len(L) + 1
            BY <5>1, <5>2, <6>3
          <6>4. \A k \in 1..Len(K) : k \in 1..Len(L) \/ k = Len(L) + 1
            BY <5>1
          <6> QED
            BY <6>1, <6>2, <6>3, <6>4
        <5> QED
          BY <5>2 DEF K
      <4>6. \A i \in 1..Len(versionList'[n]) :
                versionList'[n][i] \in Versions /\ status'[n][versionList'[n][i]] # "absent"
        BY <4>1, <4>2, <4>3
      <4> QED
        BY <3>2, <4>4, <4>5, <4>6
    <3> QED
      BY <3>1, <3>2
  <2> QED
    BY <2>1, <2>2
<1>4. ASSUME NEW n \in Names, NEW v \in Versions, Memory!GetVersion(n, v) PROVE Memory!ListIsExact'
  BY <1>4 DEF Memory!GetVersion
<1>5. ASSUME NEW n \in Names, NEW v \in Versions, Memory!Activate(n, v) PROVE Memory!ListIsExact'
  <2>1. UNCHANGED versionList
    BY <1>5, ActivateEffect DEF Retained
  <2>2. \A m \in Names : Memory!Stored(m)' = Memory!Stored(m)
    BY <1>5, ActivateKeepsStored
  <2> QED
    BY <2>1, <2>2
<1>6. CASE UNCHANGED Memory!vars
  BY <1>6 DEF Memory!vars
<1> QED
  BY <1>1, <1>2, <1>3, <1>4, <1>5, <1>6 DEF Memory!Next

\* The inductive invariant holds in every reachable state of the store.
THEOREM Invariance == Memory!Spec => []IInv
<1>1. Memory!Init => IInv
  BY DEF Memory!Init, IInv, Memory!TypeOK, Memory!ActiveIsServed, Memory!StatusAgreesUntilDelete, Memory!ListIsExact,
         Memory!AbsentIsEmpty, Memory!Stored, Memory!Found
<1>2. IInv /\ [Memory!Next]_(Memory!vars) => IInv'
  BY TypeStep, AbsentStep, ServedStep, StatusStep, ListStep DEF IInv
<1> QED
  BY <1>1, <1>2, PTL DEF Memory!Spec

\* The two-fold bookkeeping of the live version -- the entry's active field and
\* the Status of the specs -- is sound as far as ActiveIsServed says.
COROLLARY GetIsSound == Memory!Spec => []Memory!ActiveIsServed
BY Invariance, PTL DEF IInv

\* ListVersions enumerates the stored versions, each once, for any names.
COROLLARY ListVersionsIsExact == Memory!Spec => []Memory!ListIsExact
BY Invariance, PTL DEF IInv

\* Until a name's first Delete, only its active version calls itself active.
COROLLARY StatusSoundUntilDelete == Memory!Spec => []StatusAgreesUntilDelete
BY Invariance, PTL DEF IInv, StatusAgreesUntilDelete

-----------------------------------------------------------------------------
\* Every call is a step of the contract, with the contract's answer.
LEMMA StepRefines == IInv /\ [Memory!Next]_(Memory!vars) => [Memory!Contract!Next]_(Memory!Contract!vars)
<1> SUFFICES ASSUME IInv, [Memory!Next]_(Memory!vars) PROVE [Memory!Contract!Next]_(Memory!Contract!vars)
  OBVIOUS
<1> DEFINE VS == [n \in Names |-> Memory!Stored(n)]
<1> USE DEF Memory!Contract!Answer, Memory!Answer
<1>1. ASSUME NEW n \in Names, Memory!Get(n) PROVE Memory!Contract!Next
  <2>1. Memory!Live' = Memory!Live /\ VS' = VS /\ UNCHANGED active
    BY <1>1 DEF Memory!Get, Memory!Live, Memory!Stored, Memory!Found
  <2>2. reply' = Memory!Answer("Get", n, IF n \in Memory!Live /\ active[n] # None
                                  THEN active[n] ELSE "ErrNotFound")
    BY <1>1 DEF Memory!Get, Memory!Live
  <2>3. Memory!Contract!Get(n)
    BY <2>1, <2>2 DEF Memory!Contract!Get
  <2> QED
    BY <2>3 DEF Memory!Contract!Next
<1>2. ASSUME NEW n \in Names, Memory!Delete(n) PROVE Memory!Contract!Next
  <2>1. VS' = VS
    BY <1>2 DEF Memory!Delete, Memory!Stored
  <2>2. CASE Memory!Found(n)
    <3>1. Memory!Live' = Memory!Live \ {n}
      BY <1>2, <2>2 DEF Memory!Delete, Memory!Live, Memory!Found, IInv, Memory!TypeOK
    <3>2. n \in Memory!Live
      BY <2>2 DEF Memory!Live
    <3>3. Memory!Contract!Delete(n)
      BY <1>2, <2>1, <2>2, <3>1, <3>2 DEF Memory!Delete, Memory!Contract!Delete
    <3> QED
      BY <3>3 DEF Memory!Contract!Next
  <2>3. CASE ~Memory!Found(n)
    <3>1. Memory!Live' = Memory!Live /\ n \notin Memory!Live
      BY <1>2, <2>3 DEF Memory!Delete, Memory!Live, Memory!Found
    <3>2. Memory!Contract!Delete(n)
      BY <1>2, <2>1, <2>3, <3>1 DEF Memory!Delete, Memory!Contract!Delete
    <3> QED
      BY <3>2 DEF Memory!Contract!Next
  <2> QED
    BY <2>2, <2>3
<1>3. ASSUME NEW n \in Names, NEW v \in Versions, Memory!Create(n, v) PROVE Memory!Contract!Next
  <2>1. Memory!Live' = Memory!Live \union {n}
    BY <1>3 DEF Memory!Create, Memory!Live, Memory!Found, IInv, Memory!TypeOK
  <2>2. VS' = [VS EXCEPT ![n] = @ \union {v}]
    <3>1. CASE v \in Memory!Stored(n)
      BY <1>3, <3>1 DEF Memory!Create, Memory!Stored
    <3>2. CASE v \notin Memory!Stored(n)
      <4>1. status' = [status EXCEPT ![n][v] = "draft"]
        BY <1>3, <3>2 DEF Memory!Create
      <4>2. \A m \in Names : Memory!Stored(m)' = IF m = n THEN Memory!Stored(m) \union {v} ELSE Memory!Stored(m)
        BY <4>1 DEF Memory!Stored, IInv, Memory!TypeOK
      <4> QED
        BY <4>2
    <3> QED
      BY <3>1, <3>2
  <2>3. Memory!Contract!Create(n, v)
    BY <1>3, <2>1, <2>2 DEF Memory!Create, Memory!Contract!Create
  <2> QED
    BY <2>3 DEF Memory!Contract!Next
<1>4. ASSUME NEW n \in Names, NEW v \in Versions, Memory!GetVersion(n, v) PROVE Memory!Contract!Next
  <2>1. Memory!Live' = Memory!Live /\ VS' = VS /\ UNCHANGED active
    BY <1>4 DEF Memory!GetVersion, Memory!Live, Memory!Stored, Memory!Found
  <2>2. reply' = Memory!Answer("GetVersion", n, IF n \in Memory!Live /\ v \in VS[n]
                                         THEN v ELSE "ErrNotFound")
    BY <1>4 DEF Memory!GetVersion, Memory!Live
  <2>3. Memory!Contract!GetVersion(n, v)
    BY <2>1, <2>2 DEF Memory!Contract!GetVersion
  <2> QED
    BY <2>3 DEF Memory!Contract!Next
<1>5. ASSUME NEW n \in Names, NEW v \in Versions, Memory!Activate(n, v) PROVE Memory!Contract!Next
  <2>1. Memory!Live' = Memory!Live
    BY <1>5 DEF Memory!Activate, Memory!Live, Memory!Found
  <2>2. VS' = VS
    <3>1. \A m \in Names : Memory!Stored(m)' = Memory!Stored(m)
      BY <1>5, ActivateKeepsStored DEF IInv
    <3> QED
      BY <3>1
  <2>3. (n \in Memory!Live <=> Memory!Found(n)) /\ VS[n] = Memory!Stored(n)
    BY DEF Memory!Live
  <2>4. Memory!Contract!Activate(n, v)
    BY <1>5, <2>1, <2>2, <2>3 DEF Memory!Activate, Memory!Contract!Activate
  <2> QED
    BY <2>4 DEF Memory!Contract!Next
<1>6. CASE UNCHANGED Memory!vars
  BY <1>6 DEF Memory!vars, Memory!Contract!vars, Memory!Live, Memory!Found, Memory!Stored
<1> QED
  BY <1>1, <1>2, <1>3, <1>4, <1>5, <1>6 DEF Memory!Next

\* The in-memory store implements the contract, for any names and versions.
THEOREM Refinement == Memory!Spec => ImplementsContract
<1>1. Memory!Init => Memory!Contract!Init
  BY DEF Memory!Init, Memory!Contract!Init, Memory!Live, Memory!Found, Memory!Stored, Memory!Answer, Memory!Contract!Answer
<1>2. IInv /\ [Memory!Next]_(Memory!vars) => [Memory!Contract!Next]_(Memory!Contract!vars)
  BY StepRefines
<1> QED
  BY <1>1, <1>2, Invariance, PTL DEF Memory!Spec, ImplementsContract, Memory!ImplementsContract, Memory!Contract!Spec
=============================================================================
