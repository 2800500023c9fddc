----------------------------- MODULE BlobStores -----------------------------
(***************************************************************************)
(* The spec stores on a bucket of objects (gocloud.dev/blob):              *)
(*   "workflow"  pkg/workflow/store/blob: a version object each, the list  *)
(*               _versions, the pointer _active and the marker _deleted;   *)
(*   "skill"     pkg/skill/store/blob: version objects and _active;        *)
(*   "agent"     pkg/agent/store BlobStore: version objects and active.txt,*)
(*               Delete removes them all.                                  *)
(*                                                                         *)
(* A call is a sequence of requests to the bucket, each atomic there, that *)
(* the requests of other callers and crashes come between.  One (tenant,   *)
(* name) is modelled: no request concerns two.  store says whose code runs.*)
(***************************************************************************)
EXTENDS Naturals, Sequences

CONSTANTS
    Versions,   \* content hashes
    Callers,
    MaxFaults,  \* bound on calls given up and on answers of Exists lost
    None

ASSUME NoneIsNoVersion == None \notin Versions

VARIABLES
    store,        \* "workflow", "skill" or "agent"
    objects,      \* the version objects in the bucket
    log,          \* the lines of _versions; an absent object reads as none
    active,       \* what _active or active.txt holds, None when it is absent
    deleted,      \* _deleted exists
    call,         \* call[p]: the call p is executing and where it is in it
    answer,       \* answer[p]: the spec p's last call has returned, None for none
    faults,       \* calls given up and answers lost so far
    during,       \* history: during[p]: what has been served since p's Get began
    contended,    \* history: two calls that write have overlapped
    interrupted,  \* history: a Create has been given up half way
    missed        \* history: an Exists has failed and was taken for "no"

bucket == <<objects, log, active, deleted>>
history == <<faults, interrupted, missed>>
vars == <<store, bucket, call, answer, during, contended, history>>

Idle == [op |-> "idle", version |-> None, at |-> "none", read |-> <<>>, todo |-> {}]

Writes(op) == op \in {"Create", "Activate", "Delete"}

\* What a Get that runs alone returns.
Served ==
    IF (store = "workflow" /\ deleted) \/ active \notin objects THEN None ELSE active

Init ==
    /\ store \in {"workflow", "skill", "agent"}
    /\ objects = {}
    /\ log = <<>>
    /\ active = None
    /\ deleted = FALSE
    /\ call = [p \in Callers |-> Idle]
    /\ answer = [p \in Callers |-> None]
    /\ faults = 0
    /\ during = [p \in Callers |-> {None}]
    /\ contended = FALSE
    /\ interrupted = FALSE
    /\ missed = FALSE

At(p, op, at) == call[p].op = op /\ call[p].at = at
Goto(p, at) == call' = [call EXCEPT ![p].at = at]
Return(p) == call' = [call EXCEPT ![p] = Idle]

Start(p, op, v, at) ==
    /\ call[p] = Idle
    /\ call' = [call EXCEPT ![p] = [Idle EXCEPT !.op = op, !.version = v, !.at = at]]
    /\ answer' = [answer EXCEPT ![p] = None]
    /\ UNCHANGED <<bucket, history>>

-----------------------------------------------------------------------------
\* Create.  The agent store writes the object whether it is there or not.
StartCreate(p, v) == Start(p, "Create", v, IF store = "agent" THEN "write" ELSE "exists?")

\* An Exists that fails is taken for "no".
CreateExists(p) ==
    /\ At(p, "Create", "exists?")
    /\ \/ /\ call[p].version \notin objects
          /\ Goto(p, "write")
       \/ /\ call[p].version \in objects
          /\ IF store = "workflow" THEN Goto(p, "deleted?") ELSE Return(p)
    /\ UNCHANGED <<bucket, answer, history>>

CreateExistsFails(p) ==
    /\ At(p, "Create", "exists?")
    /\ faults < MaxFaults
    /\ faults' = faults + 1
    /\ missed' = TRUE
    /\ Goto(p, "write")
    /\ UNCHANGED <<bucket, answer, interrupted>>

WriteSpec(p) ==
    /\ At(p, "Create", "write")
    /\ objects' = objects \union {call[p].version}
    /\ IF store = "workflow" THEN Goto(p, "read list") ELSE Return(p)
    /\ UNCHANGED <<log, active, deleted, answer, history>>

\* appendVersion: _versions is read, then written with one line more.
ReadList(p) ==
    /\ At(p, "Create", "read list")
    /\ call' = [call EXCEPT ![p].at = "write list", ![p].read = log]
    /\ UNCHANGED <<bucket, answer, history>>

WriteList(p) ==
    /\ At(p, "Create", "write list")
    /\ log' = Append(call[p].read, call[p].version)
    /\ Goto(p, "deleted?")
    /\ UNCHANGED <<objects, active, deleted, answer, history>>

\* A deleted name is revived; _active is as Delete has left it.
CreateDeleted(p) ==
    /\ At(p, "Create", "deleted?")
    /\ IF deleted THEN Goto(p, "revive") ELSE Return(p)
    /\ UNCHANGED <<bucket, answer, history>>

CreateDeletedFails(p) ==
    /\ At(p, "Create", "deleted?")
    /\ faults < MaxFaults
    /\ faults' = faults + 1
    /\ missed' = TRUE
    /\ Return(p)
    /\ UNCHANGED <<bucket, answer, interrupted>>

Revive(p) ==
    /\ At(p, "Create", "revive")
    /\ deleted' = FALSE
    /\ Return(p)
    /\ UNCHANGED <<objects, log, active, answer, history>>

-----------------------------------------------------------------------------
\* checkNotDeleted, the first request of a workflow call; a failing one passes.
FirstCheck == IF store = "workflow" THEN "deleted?" ELSE "exists?"

NotDeleted(p, op, next) ==
    /\ At(p, op, "deleted?")
    /\ ~deleted
    /\ Goto(p, next)
    /\ UNCHANGED <<bucket, answer, history>>

NotDeletedFails(p, op, next) ==
    /\ At(p, op, "deleted?")
    /\ faults < MaxFaults
    /\ faults' = faults + 1
    /\ missed' = TRUE
    /\ Goto(p, next)
    /\ UNCHANGED <<bucket, answer, interrupted>>

IsDeleted(p, op) ==
    /\ At(p, op, "deleted?")
    /\ deleted
    /\ Return(p)
    /\ answer' = IF op = "Get" THEN [answer EXCEPT ![p] = None] ELSE answer
    /\ UNCHANGED <<bucket, history>>

\* Activate: the version must exist, then the pointer is written.
StartActivate(p, v) == Start(p, "Activate", v, FirstCheck)

\* Mutant: the version is not looked up.
ActivateUnchecked(p) ==
    /\ At(p, "Activate", "exists?")
    /\ Goto(p, "write")
    /\ UNCHANGED <<bucket, answer, history>>

ActivateExists(p) ==
    /\ At(p, "Activate", "exists?")
    /\ IF call[p].version \in objects THEN Goto(p, "write") ELSE Return(p)
    /\ UNCHANGED <<bucket, answer, history>>

WriteActive(p) ==
    /\ At(p, "Activate", "write")
    /\ active' = call[p].version
    /\ Return(p)
    /\ UNCHANGED <<objects, log, deleted, answer, history>>

-----------------------------------------------------------------------------
StartDelete(p) ==
    Start(p, "Delete", None, CASE store = "workflow" -> "deleted?"
                               [] store = "skill" -> "unlink"
                               [] store = "agent" -> "list")

\* workflow: the marker is written.
WriteDeleted(p) ==
    /\ At(p, "Delete", "mark")
    /\ deleted' = TRUE
    /\ Return(p)
    /\ UNCHANGED <<objects, log, active, answer, history>>

\* skill: the pointer is removed; there may be none, which is an error.
RemoveActive(p) ==
    /\ At(p, "Delete", "unlink")
    /\ active' = None
    /\ Return(p)
    /\ UNCHANGED <<objects, log, deleted, answer, history>>

\* Mutant: only the .yaml objects are deleted, as in ListVersions.
ListSpecs(p) ==
    /\ At(p, "Delete", "list")
    /\ call' = [call EXCEPT ![p].at = "delete", ![p].todo = objects]
    /\ UNCHANGED <<bucket, answer, history>>

\* agent: the name's keys are listed, None standing for active.txt.
ListKeys(p) ==
    /\ At(p, "Delete", "list")
    /\ LET keys == objects \union (IF active = None THEN {} ELSE {None}) IN
           IF keys = {} THEN Return(p)
           ELSE call' = [call EXCEPT ![p].at = "delete", ![p].todo = keys]
    /\ UNCHANGED <<bucket, answer, history>>

Exists(key) == IF key = None THEN active # None ELSE key \in objects

\* The listing is in the order of the keys: active.txt comes before the versions
\* (sha256:...).  A key that is gone by now ends the call with an error.
DeleteKey(p, key) ==
    /\ At(p, "Delete", "delete")
    /\ key \in call[p].todo
    /\ None \in call[p].todo => key = None
    /\ IF Exists(key) /\ call[p].todo # {key}
       THEN call' = [call EXCEPT ![p].todo = @ \ {key}]
       ELSE Return(p)
    /\ active' = IF key = None THEN None ELSE active
    /\ objects' = objects \ {key}
    /\ UNCHANGED <<log, deleted, answer, history>>

-----------------------------------------------------------------------------
\* Mutant: Get does not ask whether the name is deleted.
StartGetUnchecked(p) == Start(p, "Get", None, "read active")

StartGet(p) == Start(p, "Get", None, IF store = "workflow" THEN "deleted?" ELSE "read active")

ReadActive(p) ==
    /\ At(p, "Get", "read active")
    /\ \/ /\ active = None
          /\ answer' = [answer EXCEPT ![p] = None]
          /\ Return(p)
       \/ /\ active # None
          /\ call' = [call EXCEPT ![p].at = "read spec", ![p].version = active]
          /\ UNCHANGED answer
    /\ UNCHANGED <<bucket, history>>

ReadSpec(p) ==
    /\ At(p, "Get", "read spec")
    /\ answer' = [answer EXCEPT ![p] = IF call[p].version \in objects
                                       THEN call[p].version ELSE None]
    /\ Return(p)
    /\ UNCHANGED <<bucket, history>>

\* A request fails, the context is cancelled or the process crashes.
GiveUp(p) ==
    /\ Writes(call[p].op)
    /\ faults < MaxFaults
    /\ faults' = faults + 1
    /\ interrupted' = (interrupted \/ call[p].op = "Create")
    /\ Return(p)
    /\ UNCHANGED <<bucket, answer, missed>>

Step(p) ==
    \/ \E v \in Versions : StartCreate(p, v) \/ StartActivate(p, v)
    \/ StartDelete(p) \/ StartGet(p)
    \/ CreateExists(p) \/ CreateExistsFails(p) \/ WriteSpec(p)
    \/ ReadList(p) \/ WriteList(p)
    \/ CreateDeleted(p) \/ CreateDeletedFails(p) \/ Revive(p)
    \/ \E check \in {<<"Activate", "exists?">>, <<"Delete", "mark">>, <<"Get", "read active">>} :
           \/ NotDeleted(p, check[1], check[2])
           \/ NotDeletedFails(p, check[1], check[2])
           \/ IsDeleted(p, check[1])
    \/ ActivateExists(p) \/ WriteActive(p)
    \/ WriteDeleted(p) \/ RemoveActive(p)
    \/ ListKeys(p) \/ \E key \in Versions \union {None} : DeleteKey(p, key)
    \/ ReadActive(p) \/ ReadSpec(p)
    \/ GiveUp(p)

\* What the properties remember of a step.
Observe ==
    /\ UNCHANGED store
    /\ during' = [p \in Callers |->
           CASE call'[p].op = "idle" -> during[p]
             [] call'[p].op = "Get" -> {Served'} \union
                                       (IF call[p].op = "Get" THEN during[p] ELSE {})
             [] OTHER -> {None}]
    /\ contended' = (contended \/ \E p, q \in Callers :
           p # q /\ Writes(call'[p].op) /\ Writes(call'[q].op))

Next == (\E p \in Callers : Step(p)) /\ Observe

Spec == Init /\ [][Next]_vars
-----------------------------------------------------------------------------
TypeOK ==
    /\ store \in {"workflow", "skill", "agent"}
    /\ objects \subseteq Versions
    /\ log \in Seq(Versions)
    /\ active \in Versions \union {None}
    /\ deleted \in BOOLEAN
    /\ call \in [Callers -> [op : {"idle", "Create", "Activate", "Delete", "Get"},
                             version : Versions \union {None},
                             at : {"none", "exists?", "write", "read list", "write list",
                                   "deleted?", "revive", "mark", "unlink", "list", "delete",
                                   "read active", "read spec"},
                             read : Seq(Versions),
                             todo : SUBSET (Versions \union {None})]]
    /\ answer \in [Callers -> Versions \union {None}]
    /\ faults \in Nat
    /\ during \in [Callers -> SUBSET (Versions \union {None})]
    /\ {contended, interrupted, missed} \subseteq BOOLEAN

\* The pointer never dangles, whatever is given up half way: in the workflow and
\* skill stores with any number of writers, in the agent store, whose Delete
\* removes the versions, as long as the writers take turns.
ActiveHasObject ==
    active # None /\ (store = "agent" => ~contended) => active \in objects

\* A version is listed only after it has been stored, lost updates of _versions,
\* crashes and repeated creates included.
ListedAreStored == \A i \in 1 .. Len(log) : log[i] \in objects

\* With writers that take turns and creates that finish, _versions lists every
\* version exactly once between two calls.
ListMatchesObjects ==
    store = "workflow" /\ ~contended /\ ~interrupted /\ ~missed
        /\ (\A p \in Callers : call[p].op # "Create") =>
        /\ \A v \in objects : \E i \in 1 .. Len(log) : log[i] = v
        /\ \A i, j \in 1 .. Len(log) : log[i] = log[j] => i = j

\* Safe for multiple readers: with writers that take turns, Get returns what was
\* being served at some moment of the call, although it reads up to three objects.
GetIsLinearizable ==
    ~contended /\ ~missed => \A p \in Callers : call[p] = Idle => answer[p] \in during[p]

\* A Delete of the agent store that comes to its end leaves nothing behind, also
\* when it finishes what one that crashed has begun.
DeleteLeavesNothing ==
    [][\A p \in Callers : At(p, "Delete", "delete") /\ call'[p] = Idle /\ faults' = faults
           /\ ~contended => objects' = {} /\ active' = None]_vars

\* What workflow.Store says of ListVersions, that it returns all versions: a Create
\* that returns with no error leaves its version in _versions.
CreatedIsListed ==
    [][\A p \in Callers :
        store = "workflow" /\ ~contended
            /\ call[p].op = "Create" /\ call'[p] = Idle /\ faults' = faults =>
                \E i \in 1 .. Len(log') : log'[i] = call[p].version]_vars
=============================================================================
