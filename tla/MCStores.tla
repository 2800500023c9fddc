------------------------------ MODULE MCStores ------------------------------
(***************************************************************************)
(* Stores on files, objects and rows, one per behaviour: the agent stores  *)
(* (AgentStores), the message stores, the git stores, or the file store of *)
(* prompts.  The others stay in one of their initial states.               *)
(***************************************************************************)
EXTENDS AgentStores, SequencesExt

CONSTANTS
    Families,                                        \* which of the four
    MessageKinds, Processes, Requests, MaxRequests, MaxFaults, Parts, Budgets, TakeTurns,
    GitKinds, Agents, Workers, MaxCalls,
    Slugs, MaxEdits, Watchers, Capacity, Composers, Templates

VARIABLES
    family,
    kind, rows, objs, seq, requests, begun, faults, acked, current, careless,
    flavour, refs, head, index, files, mutex, work, called, promised, amiss, disturbed,
    disk, edits, watched, events, mem, loader, watchers, renders

Messages == INSTANCE MessageStores WITH Kinds <- MessageKinds
Git == INSTANCE GitStores WITH Kinds <- GitKinds

\* A budget is a number of tokens, 0 for none.
ASSUME BudgetsAre == Budgets \subseteq Nat

\* The stores that the two modules know.
ASSUME MessageKindsAre == MessageKinds \subseteq {"memory", "list", "hybrid", "minio"}
ASSUME GitKindsAre == GitKinds \subseteq {"workflow", "skill", "agent"}

\* The file of a version ends in .json: it is not the pointer's, _active.
ASSUME ActiveIsNoVersion == Git!Active \notin Versions

\* A template is a list of slugs.
ASSUME TemplatesAre == Templates \subseteq Seq(Slugs)

\* One of every slug, in some order.
WholeTemplates == {SetToSeq(Slugs)}

Prompts == INSTANCE PromptFiles

storeVars == <<kind, rows, objs, seq, requests, begun, faults, acked, current, careless>>
gitVars == <<flavour, refs, head, index, files, mutex, work, called, promised, amiss, disturbed>>
promptVars == <<disk, edits, watched, events, mem, loader, watchers, renders>>
vars == <<family, agentVars, storeVars, gitVars, promptVars>>

StoresInit ==
    /\ family \in Families
    /\ Init /\ Messages!Init /\ Git!Init /\ Prompts!Init
    /\ family # "agents" => backend = "memory"
    /\ family # "messages" => kind = CHOOSE k \in MessageKinds : TRUE
    /\ family # "git" => flavour = CHOOSE k \in GitKinds : TRUE
    /\ family # "prompts" => \A s \in Slugs : disk[s].n = 0

StoresNext ==
    \/ family = "agents" /\ Next /\ UNCHANGED <<family, storeVars, gitVars, promptVars>>
    \/ family = "messages" /\ Messages!Next /\ UNCHANGED <<family, agentVars, gitVars, promptVars>>
    \/ family = "git" /\ Git!Next /\ UNCHANGED <<family, agentVars, storeVars, promptVars>>
    \/ family = "prompts" /\ Prompts!Next /\ UNCHANGED <<family, agentVars, storeVars, gitVars>>

StoresSpec == StoresInit /\ [][StoresNext]_vars

\* MessageStores: no acknowledged message is lost.
AcknowledgedAreKept == family = "messages" => Messages!AcknowledgedAreKept

\* MessageStores: a window is the longest end of the history that fits.
WindowIsLongestEnd == family = "messages" => Messages!WindowIsLongestEnd

\* MessageStores: an acknowledged Append has added a message.
AppendAdds == family = "messages" => Messages!AppendAdds

\* GitStores: a commit holds what its writer wrote, whole.
CommitsAreWhole == family = "git" => Git!CommitsAreWhole

\* GitStores: the branches are what the calls that succeeded amount to.
BranchesAreAsPromised == family = "git" => Git!BranchesAreAsPromised

\* GitStores: a version whose Create succeeded is committed.
CreatedIsCommitted == family = "git" => Git!CreatedIsCommitted

\* PromptFiles: changes of files reach the store and its subscribers.
ChangesArrive == family = "prompts" => Prompts!ChangesArrive

\* PromptFiles: a template is rendered in its own order.
RendersAreOrdered == family = "prompts" => Prompts!RendersAreOrdered
=============================================================================
