------------------------ MODULE PostgresCheckpointer ------------------------
(***************************************************************************)
(* pkg/checkpoint PostgresCheckpointer: nodes that execute one thread's    *)
(* workflow step by step and share its checkpoint row.                     *)
(*                                                                         *)
(* No code under src/ calls a Checkpointer yet, so the nodes follow what   *)
(* the package says of its callers: load the thread's checkpoint, execute  *)
(* the step after it, save it with the version read, reload on a conflict  *)
(* (ResumeFromCheckpoint); delete it to run from the start again           *)
(* (ReplayFromStart).  A node may crash, an answer may be lost.            *)
(***************************************************************************)
EXTENDS Naturals

CONSTANTS
    Nodes,
    LastStep,    \* steps of the workflow
    MaxDeletes,  \* bound on Delete
    MaxCrashes,  \* bound on crashes and on lost answers
    None         \* no row, no node

VARIABLES
    row,       \* the thread's row in bunshin_checkpoints, and who wrote it; None when there is none
    cp,        \* cp[n]: the Checkpoint n holds, what it was loaded from, and own: the
               \* write of a save of it that was applied and not answered, 0 for none
    at,        \* at[n]: what n does next
    writes,    \* history: saves applied; row.write names the one that wrote the row
    lifetime,  \* history: deletes so far
    crashes,   \* crashes and lost answers so far
    saved      \* the last Save: who made it and how it was answered

vars == <<row, cp, at, writes, lifetime, crashes, saved>>

Row == [version : Nat, step : Nat, write : Nat, node : Nodes]

\* The first checkpoint of a thread is saved with Version 0.
Fresh == [version |-> 0, step |-> 0, write |-> 0, own |-> 0, lifetime |-> lifetime]

NoSave == [node |-> None, outcome |-> "none"]

Init ==
    /\ row = None
    /\ cp = [n \in Nodes |-> [version |-> 0, step |-> 0, write |-> 0, own |-> 0, lifetime |-> 0]]
    /\ at = [n \in Nodes |-> "load"]
    /\ writes = 0
    /\ lifetime = 0
    /\ crashes = 0
    /\ saved = NoSave

\* Mutant: the version is not among the columns read.
LoadedWithoutVersion ==
    IF row = None THEN Fresh
    ELSE [version |-> 0, step |-> row.step, write |-> row.write, own |-> 0, lifetime |-> lifetime]

Loaded ==
    IF row = None THEN Fresh
    ELSE [version |-> row.version, step |-> row.step, write |-> row.write,
          own |-> 0, lifetime |-> lifetime]

\* Load; there is nothing to execute when the workflow is complete.
Load(n) ==
    /\ at[n] = "load"
    /\ cp' = [cp EXCEPT ![n] = Loaded]
    /\ at' = [at EXCEPT ![n] = IF Loaded.step < LastStep THEN "execute" ELSE "load"]
    /\ saved' = NoSave
    /\ UNCHANGED <<row, writes, lifetime, crashes>>

\* n executes the step after its checkpoint.
Execute(n) ==
    /\ at[n] = "execute"
    /\ cp' = [cp EXCEPT ![n].step = @ + 1]
    /\ at' = [at EXCEPT ![n] = "save"]
    /\ saved' = NoSave
    /\ UNCHANGED <<row, writes, lifetime, crashes>>

\* pgCPUpsert writes n's checkpoint as the given version.
Upsert(n, version) ==
    /\ row' = [version |-> version, step |-> cp[n].step, write |-> writes + 1, node |-> n]
    /\ writes' = writes + 1

\* The INSERT finds no row of the thread: version 1, whatever n's version is.
InsertRow(n) == row = None /\ Upsert(n, 1)

\* Mutant: DO UPDATE without its WHERE clause.
UpdateAnyVersion(n) == row # None /\ Upsert(n, row.version + 1)

\* DO UPDATE ... WHERE version = $7.
UpdateRow(n) ==
    /\ row # None
    /\ row.version = cp[n].version
    /\ Upsert(n, row.version + 1)

\* Mutant: a conflict unless the row has the version after the one loaded.
ConflictUnlessNext(n) == row # None /\ row.version # cp[n].version + 1

\* Zero rows are affected: ErrVersionConflict.
Conflict(n) == row # None /\ row.version # cp[n].version

\* Save leaves the caller's Checkpoint alone; the node reloads before it goes on.
Save(n) ==
    /\ at[n] = "save"
    /\ \/ (InsertRow(n) \/ UpdateRow(n)) /\ saved' = [node |-> n, outcome |-> "ok"]
       \/ /\ Conflict(n)
          /\ saved' = [node |-> n, outcome |-> "ErrVersionConflict"]
          /\ UNCHANGED <<row, writes>>
    /\ at' = [at EXCEPT ![n] = "load"]
    /\ UNCHANGED <<cp, lifetime, crashes>>

\* The save is applied, its answer is lost: n saves the same checkpoint again.
SaveAnswerLost(n) ==
    /\ at[n] = "save"
    /\ crashes < MaxCrashes
    /\ InsertRow(n) \/ UpdateRow(n)
    /\ crashes' = crashes + 1
    /\ saved' = [node |-> n, outcome |-> "lost"]
    /\ cp' = [cp EXCEPT ![n].own = writes + 1]
    /\ UNCHANGED <<at, lifetime>>

\* The node loses what it holds and starts over.
Crash(n) ==
    /\ at[n] # "load"
    /\ crashes < MaxCrashes
    /\ crashes' = crashes + 1
    /\ cp' = [cp EXCEPT ![n] = Fresh]
    /\ at' = [at EXCEPT ![n] = "load"]
    /\ saved' = NoSave
    /\ UNCHANGED <<row, writes, lifetime>>

\* Delete, to replay from the start.
Delete(n) ==
    /\ at[n] = "load"
    /\ lifetime < MaxDeletes
    /\ row' = None
    /\ lifetime' = lifetime + 1
    /\ saved' = NoSave
    /\ UNCHANGED <<cp, at, writes, crashes>>

Next ==
    \E n \in Nodes :
        \/ Load(n) \/ Execute(n) \/ Save(n)
        \/ SaveAnswerLost(n) \/ Crash(n) \/ Delete(n)

\* A node that is up goes on with its thread.
Fairness == \A n \in Nodes : WF_vars(Load(n)) /\ WF_vars(Execute(n)) /\ WF_vars(Save(n))

Spec == Init /\ [][Next]_vars /\ Fairness
-----------------------------------------------------------------------------
TypeOK ==
    /\ row \in Row \union {None}
    /\ cp \in [Nodes -> [version : Nat, step : Nat, write : Nat, own : Nat, lifetime : Nat]]
    /\ at \in [Nodes -> {"load", "execute", "save"}]
    /\ writes \in Nat
    /\ lifetime \in Nat
    /\ crashes \in Nat
    /\ saved \in [node : Nodes \union {None},
                  outcome : {"none", "ok", "lost", "ErrVersionConflict"}]

\* A checkpoint loaded since the last Delete that has the row's version is the
\* row: the version names a write.
Current(n) == cp[n].lifetime = lifetime

VersionNamesWrite ==
    \A n \in Nodes : row # None /\ Current(n) /\ cp[n].version = row.version
                        => cp[n].write = row.write

\* n's step has replaced the row.
Replaces(n) == row # None /\ row' # None /\ row'.write # row.write /\ saved'.node = n

\* No lost update: a Save replaces the checkpoint its node has loaded and no
\* other, whichever nodes saved, crashed or repeated a save in between - as long
\* as the thread was not deleted since the load.
NoLostUpdate == [][\A n \in Nodes : Replaces(n) /\ Current(n) => cp[n].write = row.write]_vars

\* Each checkpoint of a thread is exactly one step further than the one it
\* replaces: no step is skipped, repeated or undone by a node that is behind.
StepsFollow == [][\A n \in Nodes : Replaces(n) /\ Current(n) => row'.step = row.step + 1]_vars

\* What ErrVersionConflict tells a node, whatever crashes, deletes and repeated
\* saves went before: the row is not the one it loaded, and it was written by
\* another node - or by the node itself, in a save of the same checkpoint whose
\* answer it did not get.
ConflictIsReal ==
    saved.outcome = "ErrVersionConflict" =>
        LET n == saved.node IN
        /\ row # None
        /\ row.write # cp[n].write
        /\ row.node = n => row.write = cp[n].own

\* What the comments of ErrVersionConflict and of PostgresCheckpointer say: it is
\* another node that has written.  (Broken: see ConflictIsReal.)
ConflictsAreOthers ==
    saved.outcome = "ErrVersionConflict" => row # None /\ row.node # saved.node

\* The optimistic lock makes progress: with nodes that reload and retry, the
\* thread's last step is eventually saved, conflicts, crashes and all.
ThreadCompletes == <>(row # None /\ row.step = LastStep)

\* What PostgresCheckpointer's comment promises: a row written by another node
\* since it was loaded is not overwritten.
NoLostUpdateEver == [][\A n \in Nodes : Replaces(n) => cp[n].write = row.write]_vars
=============================================================================
