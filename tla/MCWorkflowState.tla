--------------------------- MODULE MCWorkflowState ---------------------------
(***************************************************************************)
(* What is kept of workflows, one store per behaviour: the specifications  *)
(* in PostgreSQL (WorkflowPostgresStore), the specifications in memory, or *)
(* the checkpoints of a run.  The others stay in their initial state.      *)
(*                                                                         *)
(* Two callers and two versions: two Activates racing, an Activate racing  *)
(* a Delete over both rows in opposite orders (a deadlock), and a Create   *)
(* inserting between another call's snapshot and its locks.  In memory two *)
(* names and two versions: a version is demoted by the other, the other is *)
(* activated after a delete.  Two nodes and a workflow of three steps: a   *)
(* node is two saves behind, repeats a save, saves after a delete.         *)
(***************************************************************************)
EXTENDS WorkflowPostgresStore

CONSTANTS
    Parts,                                     \* which of the three
    Names,                                     \* WorkflowMemoryStore
    Nodes, LastStep, MaxDeletes, MaxCrashes    \* PostgresCheckpointer

VARIABLES
    part,
    entries, status, versionList, active, deleted, reply, everDeleted,
    checkpoint, cp, at, writes, lifetime, crashes, saved

Memory == INSTANCE WorkflowMemoryStore
Checkpoints == INSTANCE PostgresCheckpointer WITH row <- checkpoint

ASSUME NoneIsNoVersion == None \notin Versions
ASSUME NoneIsNoCheckpoint == None \notin [version : Nat, step : Nat, write : Nat, node : Nodes]
ASSUME LastStepAssumption == LastStep \in Nat \ {0}
ASSUME BoundsAssumption == MaxDeletes \in Nat /\ MaxCrashes \in Nat

memoryVars == <<entries, status, versionList, active, deleted, reply, everDeleted>>
checkpointVars == <<checkpoint, cp, at, writes, lifetime, crashes, saved>>
stateVars == <<part, vars, memoryVars, checkpointVars>>

StateInit == part \in Parts /\ Init /\ Memory!Init /\ Checkpoints!Init

InRows(action) == part = "rows" /\ action /\ UNCHANGED <<part, memoryVars, checkpointVars>>
InMemory(action) == part = "memory" /\ action /\ UNCHANGED <<part, vars, checkpointVars>>
InCheckpoints(action) == part = "checkpoints" /\ action /\ UNCHANGED <<part, vars, memoryVars>>

StateNext == InRows(Next) \/ InMemory(Memory!Next) \/ InCheckpoints(Checkpoints!Next)

\* The fairness of each store, see there.
StateSpec ==
    /\ StateInit /\ [][StateNext]_stateVars
    /\ \A p \in Procs : /\ WF_stateVars(InRows(Step(p)))
                        /\ SF_stateVars(InRows(\E w \in Versions : UpdateRow(p, w)))
    /\ \A n \in Nodes : /\ WF_stateVars(InCheckpoints(Checkpoints!Load(n)))
                        /\ WF_stateVars(InCheckpoints(Checkpoints!Execute(n)))
                        /\ WF_stateVars(InCheckpoints(Checkpoints!Save(n)))

\* WorkflowMemoryStore: the two records of the live version agree until the first Delete.
StatusAgreesUntilDelete == Memory!StatusAgreesUntilDelete

\* WorkflowMemoryStore: the store answers what the contract of workflow.Store answers.
ImplementsContract == Memory!ImplementsContract

\* PostgresCheckpointer: what a conflict tells the node.
ConflictIsReal == Checkpoints!ConflictIsReal

\* PostgresCheckpointer: what its comments say a conflict tells the node.
ConflictsAreOthers == Checkpoints!ConflictsAreOthers

\* PostgresCheckpointer: a Save replaces what its node has loaded.
NoLostUpdate == Checkpoints!NoLostUpdate

\* PostgresCheckpointer: the thread's last step is saved.
ThreadCompletes == part = "checkpoints" => Checkpoints!ThreadCompletes
=============================================================================
