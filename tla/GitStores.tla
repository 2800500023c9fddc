----------------------------- MODULE GitStores -----------------------------
(***************************************************************************)
(* The three stores kept in a git repository.  The workflow and the skill  *)
(* store commit a file per version and the file _active on a branch of     *)
(* their own; the agent store keeps one file, spec.yaml, and a draft and a *)
(* main branch per agent, all of them made from the one working tree.      *)
(*                                                                         *)
(* The workflow store's mutex is taken by its writers only, though its     *)
(* readers check the branch out; the skill store's by all its methods; the *)
(* agent store has none.  go-git is external: a commit whose tree is its   *)
(* parent's is an error, a checkout fails when a tracked file was changed, *)
(* resets the index, and what becomes of untracked files is left open.     *)
(*                                                                         *)
(* Every operation may fail.  Nothing is undone then: the call returns the *)
(* error and leaves what it has done, in the working tree, in the index or *)
(* on the branch, to the calls that come after it.                         *)
(***************************************************************************)
EXTENDS Naturals, FiniteSets

CONSTANTS Kinds,          \* workflow, skill, agent
          Agents,         \* names; the other two stores use one name
          Versions,
          Workers, MaxCalls

VARIABLES flavour,
          refs,           \* branch -> the tree of its last commit
          head,           \* the branch HEAD names
          index, files,   \* what is staged and what is in the working tree: path -> content
          mutex,          \* the worker that holds the store's lock, or none
          work,           \* worker -> [pc, op, name, ver, tree]
          called,
          promised,       \* branch -> the tree that the calls which succeeded amount to
          amiss,          \* files and branches of which a call failed halfway
          disturbed       \* writers of the agent store overlapped, or a read came between a writer's steps

gitVars == <<flavour, refs, head, index, files, mutex, work, called, promised, amiss, disturbed>>

-----------------------------------------------------------------------------
Store == <<"store">>
Master == <<"master">>
Active == <<"_active">>
Spec_yaml == "spec.yaml"
Draft(a) == <<a, "draft">>
Main(a) == <<a, "main">>
NoTree == [f \in {} |-> <<>>]
Free == [pc |-> "idle", op |-> "none", name |-> <<>>, ver |-> <<>>, tree |-> NoTree]

Set(t, f, v) == [g \in DOMAIN t \union {f} |-> IF g = f THEN v ELSE t[g]]
Without(t, F) == [g \in DOMAIN t \ F |-> t[g]]

\* What a branch holds: the tree of the commit it refers to.
TreeOf(b) == IF b \in DOMAIN refs THEN refs[b] ELSE NoTree

\* An initialised repository without commits.
Init ==
    /\ flavour \in Kinds
    /\ refs = [b \in {} |-> NoTree] /\ head = Master
    /\ index = NoTree /\ files = NoTree
    /\ mutex = {} /\ work = [w \in Workers |-> Free]
    /\ called = 0 /\ promised = [b \in {} |-> NoTree] /\ amiss = {} /\ disturbed = FALSE

Becomes(w, k) == work' = [work EXCEPT ![w] = k]
Goes(w, pc) == Becomes(w, [work[w] EXCEPT !.pc = pc])

Writes(op) == op \in {"create", "activate", "delete"}
Locks(op) == flavour = "skill" \/ (flavour = "workflow" /\ Writes(op))
Writing(w) == work[w].pc # "idle" /\ Writes(work[w].op)

\* Where a call begins: the skill store looks for the file before it checks the branch out and does
\* not check it out to read, the agent store does not check anything out.
FirstStep(op) ==
    CASE flavour = "workflow" -> "checkout"
      [] flavour = "skill" -> IF op = "delete" THEN "checkout" ELSE IF op = "get" THEN "pointer" ELSE "stat"
      [] flavour = "agent" -> IF op = "create" THEN "truncate" ELSE IF op = "delete" THEN "unref" ELSE "draft"

Call(w) ==
    /\ work[w].pc = "idle" /\ called < MaxCalls /\ called' = called + 1
    /\ \E op \in {"create", "activate", "delete", "get"}, v \in Versions,
          a \in IF flavour = "agent" THEN Agents ELSE {CHOOSE n \in Agents : TRUE} :
         /\ Locks(op) => mutex = {}
         /\ mutex' = IF Locks(op) THEN {w} ELSE mutex
         /\ Becomes(w, [Free EXCEPT !.pc = FirstStep(op), !.op = op, !.name = a, !.ver = v])
         /\ disturbed' = (disturbed \/ (flavour = "agent" /\ Writes(op) /\ \E u \in Workers \ {w} : Writing(u)))
    /\ UNCHANGED <<flavour, refs, head, index, files, promised, amiss>>

\* A call returns: the lock is released, and what it said it did is remembered.
Returns(w) == work' = [work EXCEPT ![w] = Free] /\ mutex' = mutex \ {w}
Promised(b) == IF b \in DOMAIN promised THEN promised[b] ELSE NoTree

\* It succeeds, and what it said of the files or branches F is so; or it fails, and leaves of F what it
\* said nothing about.
Succeeds(w, b, t, F) == Returns(w) /\ promised' = Set(promised, b, t) /\ amiss' = amiss \ F
Fails(w, F) == Returns(w) /\ promised' = promised /\ amiss' = amiss \union F

-----------------------------------------------------------------------------
(* The workflow and the skill store.                                       *)

Unstaged == \E f \in DOMAIN index : f \notin DOMAIN files \/ files[f] # index[f]

AfterCheckout(k) ==
    CASE k.op = "delete" -> "remove"
      [] k.op = "get" -> "pointer"
      [] OTHER -> IF flavour = "workflow" THEN "stat" ELSE "truncate"

\* An empty repository is given a commit, and the branch if need be.
Made(B) == [b \in DOMAIN refs \union B |-> IF b \in DOMAIN refs THEN refs[b] ELSE TreeOf(Store)]

\* The working tree when a checkout has put the files of restored right, and has left of those that
\* are not tracked the ones in kept.
CheckedOut(restored, kept) ==
    LET tree == TreeOf(Store)
    IN [f \in (DOMAIN files \intersect DOMAIN tree) \union restored \union kept |->
           IF f \in restored THEN tree[f] ELSE files[f]]

\* worktree and checkoutBranch.  One that fails has come so far: branches made, HEAD moved, the index
\* reset, some of the files put right.
Checkout(w) ==
    /\ work[w].pc = "checkout"
    /\ \/ Fails(w, {}) /\ refs' \in {refs, Made({Master}), Made({Master, Store})} /\ UNCHANGED <<head, index, files>>
       \/ Fails(w, {}) /\ refs' = Made({Master, Store}) /\ head' = Store /\ UNCHANGED <<index, files>>
       \/ /\ ~Unstaged
          /\ refs' = Made({Master, Store}) /\ head' = Store /\ index' = TreeOf(Store)
          /\ \E restored \in SUBSET DOMAIN TreeOf(Store), kept \in SUBSET (DOMAIN files \ DOMAIN TreeOf(Store)) :
                 /\ files' = CheckedOut(restored, kept)
                 /\ \/ Fails(w, {})
                    \/ /\ restored = DOMAIN TreeOf(Store)
                       /\ Goes(w, AfterCheckout(work[w])) /\ UNCHANGED <<mutex, promised, amiss>>
    /\ disturbed' = (disturbed \/ (~Writing(w) /\ \E u \in Workers : Writing(u)))
    /\ UNCHANGED <<flavour, called>>

\* Mutant of Found: an Activate does not look.
FoundUnlessActivate(k) == k.op = "activate" \/ k.ver \in DOMAIN files

\* A file that is there is taken for a version that is committed.
Found(k) == k.ver \in DOMAIN files

\* Create has nothing to do when the version is there, Activate when it is not.
Stat(w) ==
    /\ work[w].pc = "stat"
    /\ CASE work[w].op = "create" /\ Found(work[w]) ->
                Succeeds(w, Store, Set(Promised(Store), work[w].ver, <<work[w].name, work[w].ver>>), {})
         [] work[w].op = "activate" /\ ~Found(work[w]) -> Fails(w, {})
         [] OTHER -> /\ Goes(w, IF flavour = "workflow" THEN "truncate" ELSE "checkout")
                     /\ UNCHANGED <<mutex, promised, amiss>>
    /\ UNCHANGED <<flavour, refs, head, index, files, called, disturbed>>

\* The file a call changes and what it writes: the spec, or the version _active points to.
Path(k) == IF flavour = "agent" THEN Spec_yaml ELSE IF k.op = "create" THEN k.ver ELSE Active
Content(k) == <<k.name, k.ver>>

\* What a call that fails leaves for a later one to find: the file of the version it did not commit.
Leftover(k) == IF flavour # "agent" /\ k.op = "create" THEN {k.ver} ELSE {}

\* Filesystem.Create makes an empty file of it, Write fills it.
Truncate(w) ==
    /\ work[w].pc = "truncate"
    /\ \/ /\ files' = Set(files, Path(work[w]), <<>>)
          /\ Goes(w, "write") /\ UNCHANGED <<mutex, promised, amiss>>
       \/ Fails(w, {}) /\ files' = files
    /\ UNCHANGED <<flavour, refs, head, index, called, disturbed>>

\* When a checkout has removed the file meanwhile, the write goes to a file without a name.  One that
\* fails leaves the file empty or cut off, which the model does not tell apart.
Write(w) ==
    /\ work[w].pc = "write"
    /\ \/ /\ files' = IF Path(work[w]) \in DOMAIN files THEN Set(files, Path(work[w]), Content(work[w])) ELSE files
          /\ Goes(w, "add") /\ UNCHANGED <<mutex, promised, amiss>>
       \/ Fails(w, Leftover(work[w])) /\ files' = files
    /\ UNCHANGED <<flavour, refs, head, index, called, disturbed>>

\* One that fails leaves the file written and not staged.
Add(w) ==
    /\ work[w].pc = "add"
    /\ \/ /\ Path(work[w]) \in DOMAIN files
          /\ index' = Set(index, Path(work[w]), files[Path(work[w])])
          /\ Goes(w, "commit") /\ UNCHANGED <<mutex, promised, amiss>>
       \/ Fails(w, Leftover(work[w])) /\ index' = index
    /\ UNCHANGED <<flavour, refs, head, files, called, disturbed>>

Staged(F) == Without(index, F)

\* Delete: the workflow store removes what is tracked in the directory, the skill store the pointer,
\* and then takes it out of the index.  One that fails leaves the index, and some of the files.
Remove(w) ==
    /\ work[w].pc = "remove"
    /\ LET there == IF flavour = "workflow" THEN DOMAIN files ELSE DOMAIN files \intersect {Active}
           gone == there \intersect DOMAIN index
       IN \/ /\ gone # {}
             /\ files' = Without(files, gone) /\ index' = Staged(gone)
             /\ Goes(w, "commit") /\ UNCHANGED <<mutex, promised, amiss>>
          \/ /\ Fails(w, {}) /\ index' = index
             /\ \E F \in SUBSET (IF flavour = "workflow" THEN gone ELSE there) : files' = Without(files, F)
    /\ UNCHANGED <<flavour, refs, head, called, disturbed>>

\* What a successful call says of its branch.
Said(k) ==
    CASE k.op = "create" -> Set(Promised(Store), k.ver, Content(k))
      [] k.op = "activate" -> Set(Promised(Store), Active, Content(k))
      [] k.op = "delete" -> IF flavour = "workflow" THEN NoTree ELSE Without(Promised(Store), {Active})

HeadTree == TreeOf(head)

\* One that fails leaves the index and the files; the skill store's updateRef fails after the commit,
\* which has moved the branch, for HEAD names it.
Commit(w) ==
    /\ work[w].pc = "commit"
    /\ \/ /\ index # HeadTree
          /\ refs' = Set(refs, head, index)
          /\ \/ flavour # "agent" /\ Succeeds(w, Store, Said(work[w]), {Path(work[w])})
             \/ flavour = "skill" /\ Fails(w, {Path(work[w])})
             \/ /\ flavour = "agent"
                /\ Becomes(w, [work[w] EXCEPT !.pc = "setref", !.tree = index])
                /\ UNCHANGED <<mutex, promised, amiss>>
       \/ Fails(w, Leftover(work[w])) /\ refs' = refs
    /\ UNCHANGED <<flavour, head, index, files, called, disturbed>>

-----------------------------------------------------------------------------
(* The agent store.                                                        *)

\* Activate needs a draft, and of this version; a get reads the main branch.
ReadDraft(w) ==
    /\ work[w].pc = "draft"
    /\ \/ /\ work[w].op = "activate" /\ Spec_yaml \in DOMAIN TreeOf(Draft(work[w].name))
          /\ TreeOf(Draft(work[w].name))[Spec_yaml] = Content(work[w])
          /\ Goes(w, "truncate") /\ UNCHANGED <<mutex, promised, amiss>>
       \/ Fails(w, {})
    /\ UNCHANGED <<flavour, refs, head, index, files, called, disturbed>>

\* Mutant of BranchOf: an Activate writes the draft.
BranchOfDraft(k) == Draft(k.name)

BranchOf(k) == IF k.op = "create" THEN Draft(k.name) ELSE Main(k.name)

\* The commit is on HEAD's branch by now; one that fails leaves it there.
SetReference(w) ==
    /\ work[w].pc = "setref"
    /\ LET b == IF work[w].op = "create" THEN Draft(work[w].name) ELSE Main(work[w].name)
       IN \/ /\ refs' = Set(refs, BranchOf(work[w]), work[w].tree)
             /\ Succeeds(w, b, Set(NoTree, Spec_yaml, Content(work[w])), {b})
          \/ Fails(w, {}) /\ refs' = refs
    /\ UNCHANGED <<flavour, head, index, files, called, disturbed>>

\* Delete removes the draft's reference, then the other one; that one of them could not be removed is
\* not an error.
RemoveDraft(w) ==
    /\ work[w].pc = "unref"
    /\ \/ /\ refs' = Without(refs, {Draft(work[w].name)}) /\ promised' = Without(promised, {Draft(work[w].name)})
          /\ Goes(w, "draft_gone")
       \/ Goes(w, "draft_kept") /\ UNCHANGED <<refs, promised>>
    /\ UNCHANGED <<flavour, head, index, files, mutex, called, amiss, disturbed>>

RemoveMain(w) ==
    /\ work[w].pc \in {"draft_gone", "draft_kept"}
    /\ \E gone \in {{}, {Main(work[w].name)}} :
         /\ refs' = Without(refs, gone)
         /\ IF gone = {} /\ work[w].pc = "draft_kept" THEN Fails(w, {})
            ELSE LET both == {Draft(work[w].name), Main(work[w].name)}
                 IN Returns(w) /\ promised' = Without(promised, both)
                    /\ amiss' = amiss \union (both \intersect (DOMAIN refs \ gone))
    /\ UNCHANGED <<flavour, head, index, files, called, disturbed>>

-----------------------------------------------------------------------------
(* Get of the workflow and the skill store: the pointer, then the spec.    *)

ReadPointer(w) ==
    /\ work[w].pc = "pointer"
    /\ \/ /\ Active \in DOMAIN files /\ files[Active] # <<>>
          /\ Becomes(w, [work[w] EXCEPT !.pc = "spec", !.ver = files[Active][2]])
          /\ UNCHANGED <<mutex, promised, amiss>>
       \/ Fails(w, {})
    /\ UNCHANGED <<flavour, refs, head, index, files, called, disturbed>>

ReadSpec(w) ==
    /\ work[w].pc = "spec"
    /\ Returns(w)
    /\ UNCHANGED <<flavour, refs, head, index, files, called, promised, amiss, disturbed>>

Next ==
    \E w \in Workers :
        \/ Call(w) \/ Checkout(w) \/ Stat(w) \/ Truncate(w) \/ Write(w) \/ Add(w) \/ Remove(w) \/ Commit(w)
        \/ ReadDraft(w) \/ SetReference(w) \/ RemoveDraft(w) \/ RemoveMain(w) \/ ReadPointer(w) \/ ReadSpec(w)

Spec == Init /\ [][Next]_gitVars

-----------------------------------------------------------------------------
Quiet == \A w \in Workers : work[w].pc = "idle"

\* Whatever failed in between: a commit holds no file that was not written to its end, and when it has a
\* pointer it has the version the pointer names, unless a Create of that version failed and left its file
\* behind; an agent's branches hold a spec of that agent.  For the workflow store as long as no read came
\* between the steps of a write, for the agent store as long as writers take turns.
CommitsAreWhole ==
    ~disturbed =>
        /\ Store \in DOMAIN refs =>
               /\ \A f \in DOMAIN refs[Store] : refs[Store][f] # <<>>
               /\ Active \in DOMAIN refs[Store] => refs[Store][Active][2] \in DOMAIN refs[Store] \union amiss
        /\ \A a \in Agents : \A b \in {Draft(a), Main(a)} \intersect DOMAIN refs : refs[b][Spec_yaml][1] = a

\* Between calls the branches are what the successful calls amount to: a call that failed before its
\* commit changed nothing, whatever it left elsewhere, and one that succeeded is committed.  Left out are
\* the files of which a Create failed after making them, or a call failed after its commit, until the
\* file is committed again; and the branches that a Delete could not remove and did not complain of.
BranchesAreAsPromised ==
    (Quiet /\ ~disturbed) =>
        /\ \A f \in (DOMAIN TreeOf(Store) \union DOMAIN Promised(Store)) \ amiss :
               /\ f \in DOMAIN TreeOf(Store) \intersect DOMAIN Promised(Store)
               /\ TreeOf(Store)[f] = Promised(Store)[f]
        /\ \A b \in (DOMAIN promised \union DOMAIN refs) \ (amiss \union {Master, Store}) :
               /\ b \in DOMAIN refs \intersect DOMAIN promised
               /\ refs[b] = promised[b]

\* What Create's "Already committed" says of the file it finds: a version whose Create succeeded is on
\* the branch.
CreatedIsCommitted ==
    (Quiet /\ ~disturbed) => DOMAIN Promised(Store) \subseteq DOMAIN TreeOf(Store)

\* Whatever failed: once the calls are over no tracked file is changed, so that the next checkout does
\* not fail.
QuietIsClean == (Quiet /\ ~disturbed) => ~Unstaged
=============================================================================
