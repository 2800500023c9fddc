# bunshin-go: a TLA+ development

TLA+ models of the parts of bunshin-go whose correctness depends on order:
stores that are written in several steps, caches that are filled while they are
written, optimistic locks, agents that run inside one another, graphs whose
routers keep positions in a shared state, and model calls that are pinged,
retried, budgeted and streamed. Each module
follows the Go source definition by definition (`PROJECT.json`, `map`). TLC
checks the modules on small instances; TLAPS proves the theorems of the
`*Proofs` modules for every value of the constants.

    tlc -config WorkflowState.cfg MCWorkflowState
    tlapm WorkflowMemoryStoreProofs.tla

## 1. Inventory

bunshin-go is a Go framework for LLM workflows: graphs of nodes and routers,
agents compiled from declarative specs, versioned prompt, agent, skill and
workflow stores, checkpoints, and an HTTP server in front of them.

| component | state | operations | hard behaviour | correct when |
|---|---|---|---|---|
| spec stores: `pkg/workflow/store/*`, `pkg/skill/store/*`, `pkg/agent/store` | per (tenant, name): immutable versions, an active mark, a deleted mark; in memory, PostgreSQL rows, blob objects or git files | Create, Get, GetVersion, List, ListVersions, Activate, Delete | several statements or objects per call; two records of the same fact; revival after delete; crashes between writes; an operation that fails and leaves what came before it | at most one version active, the one Get returns; nothing lost or listed twice; every call ends |
| checkpointer: `pkg/checkpoint` | one row per thread, with a version | Save, Load, Delete | several nodes on one thread; lost answers; repeated saves | no lost update, conflicts are real, the thread makes progress |
| prompt cache: `pkg/prompt/cache.go`, prompt handlers of `pkg/api` | rows in PostgreSQL, keys in Redis, a snapshot and a refresh token per node | upsert, rename, activate, delete, refresh, poll | the snapshot is filled key by key while requests write; tokens are dropped; partial failure | no refresh lost, snapshots converge, deleted prompts go away |
| agent loop: `pkg/agent`, `pkg/graph` | per invocation: messages, depth, current node; per compiled agent: the router's counter | Invoke, LLM turn, tool call, delegation, cancellation | a counter shared between invocations, nesting, cancellation inside a nested run | depth is bounded, a cancelled run stops, every run ends, the cap is per invocation |
| compilers: `pkg/agent/compiler.go`, `pkg/workflow/compiler.go` | dependency graph | resolve, sort, cycle search, instantiate routers | graph algorithms | cycles refused, order topological, allowlists respected |
| graphs, chains, EIP routers: `pkg/graph`, `pkg/chain` | `State.Data`, `State.Meta` with positions and accumulators | one router step per node | positions never reset, aggregation in a sequential graph | each item visited once, the aggregate complete |
| prompt files: `pkg/prompt/fs_store.go`, `composer.go` | files, the backend's fragments, a channel per subscriber | open, reload, Watch, Render | files change while they are loaded; concurrent fetches; full channels | changes arrive, a template keeps its order |
| message stores: `pkg/memory` | an ordered thread of messages; object keys from counters | Append, Window, Restore | counters restart, several processes, two appends per exchange | no message overwritten, order kept |
| LLM registry and fallback: `pkg/llm` | providers, availability, latency | Register, Select, pingAll, Complete | ping loop against registration | an available provider is found |
| vendor clients: `pkg/llm/{openai,azure_openai,anthropic,google}.go` | a request's body, the goroutine of a stream, its channel | Complete, StreamComplete | four dialects; streams that break off or stall; consumers that leave | nothing lost or invented in translation, an end is an end |
| middleware: `pkg/middleware`; streams: `pkg/transport`, `internal/transport` | attempts, deadlines, budgets, channels | Invoke, Stream | deadline against a busy consumer, shared budget and counter | an error is never taken for the end, charges add up |
| vector search, eval, MCP, sandbox, telemetry, CLI | - | I/O and translation | - | not modelled |

How they interact: the HTTP handlers call a `workflow.Handler`, whose workflows
are graphs compiled from specs of a store; graph nodes invoke agents, tools and
LLM providers through middleware; agents resolve prompts through the prompt
cache, and other agents through the agent store, when they are compiled; the
handlers append to message stores after an invocation. The prompt cache of each
server process talks to the others through Redis only, and its poll goroutine is
woken through a one-slot channel.

## 2. Modules

| module | models | how |
|---|---|---|
| `SpecStore` | the contract of `workflow.Store` | abstract: a set of live names, versions per name, an active mark, the answer of the last call |
| `WorkflowMemoryStore` | `pkg/workflow/store/memory` | one action per method, because each holds `Store.mu` for its whole body; `status`, `versionList`, `active`, `deleted` are the fields of `entry` |
| `WorkflowPostgresStore` | `pkg/workflow/store/postgres` | rows of one (tenant, name); each caller has a `call` record with the statement it is at; an UPDATE takes its snapshot, locks row by row and re-checks its clause, as PostgreSQL does at READ COMMITTED; `staged` holds what an open transaction has written |
| `BlobStores` | the blob stores of workflows, skills and agents | the objects of one (tenant, name) in a bucket; a call is a sequence of requests, one action each, that other callers' requests come between; `store` says whose code runs; a failing `Exists` is taken for "no", as the code does, and a call may be given up before any request |
| `GitStores` | the git stores of workflows, skills and agents | one working tree, one index, one HEAD; a call is its sequence of file and go-git operations; `flavour` says whose code runs, with its mutex or without; every operation may fail, and leaves what the call has done in the tree, in the index or on the branch; `promised` is what the calls that succeeded amount to, `amiss` the files and branches of which a call failed halfway |
| `AgentStores` | `pkg/agent/store`: memory and PostgreSQL | `entry` is the memory store, a method an action; `table` the rows, a call a sequence of statements outside a transaction, each with its snapshot; a caller that gives up may leave the statement it has sent (`lost`), which takes effect at any later time or never; `allowed` is what the calls so far allow Get to answer |
| `MessageStores` | `pkg/memory` and the invoke and thread handlers | `rows` of Redis and PostgreSQL, `objs` of the bucket, the counters that name objects; requests with their appends and reads, object by object; restarts, lost answers |
| `PromptFiles` | `pkg/prompt/fs_store.go`, `composer.go` | files that editors write, replace and remove, the queue of their events, the constructor and `watchLoop` step by step, subscribers' channels, concurrent fetches of a Render |
| `PromptCache` | `pkg/prompt/cache.go`, the prompt handlers, `pkg/prompt/postgres_store.go` | requests as sequences of database and Redis commands, the poll goroutine as KEYS, one GET per key, install |
| `PostgresCheckpointer` | `pkg/checkpoint/postgres.go` | the row of one thread, with the node that wrote it; nodes that load, execute and save; crashes; lost answers; Delete |
| `AgentLoop` | `pkg/agent` and `Graph.Invoke` | a run is a stack of frames, one per nested invocation; `step[a]` is the router's counter, read and written in separate steps since `step++` is not atomic |
| `AgentCompiler` | `pkg/agent/compiler.go`: Compile | breadth-first resolution, Kahn's sort and the cycle search, an action per loop iteration; `registry` is what earlier compilations registered |
| `WorkflowGraph` | `pkg/workflow` Parse and Compile, the routers of `pkg/graph`, `Graph.Invoke`, sub-agents, chains | a state is an object that runs share, as copies of `core.State` share its maps; a router is an operator from the state to the next node and the state it leaves; open `Invoke` calls are a stack |
| `ModelWire` | the four vendor clients | one call: construction, translation, status and body, or the goroutine of `readSSEStream`, its channel and its consumer, for any script of lines |
| `ProviderCalls` | `pkg/llm/registry.go`, `fallback.go` | the ping goroutine, provider by provider; registrations, selections and fallback calls meanwhile; availability by ID, as in the code |
| `CallGuards` | `pkg/middleware` around a call | a chain of guards, each once at most, that a call enters and leaves one by one; the shared counter and the budget with its load and compare-and-swap |
| `Streams` | the goroutines of `pkg/middleware`, `pkg/core` and the two HTTP handlers of streams | stage 0 produces, each relay holds a chunk or waits for one, the handler receives and writes; a send on an unbuffered channel is one step of both sides; the `default` of a `select` can be taken also when the receiver is about to receive; `ContextDone` follows the nesting of contexts |

The `*Proofs` modules hold the theorems (section 4). The `MC*` modules give the
constants values for TLC. Four of them put modules side by side, each behaviour
being one of the parts, so that one run asks one question of a layer of the
system: `MCWorkflowState` (`WorkflowPostgresStore`, `WorkflowMemoryStore`,
`PostgresCheckpointer`), `MCCompilers` (`AgentCompiler`, `WorkflowGraph`,
`AgentLoop`), `MCModelCalls`
(`ModelWire`, `ProviderCalls`, `CallGuards`, `Streams`; the run `streams` takes
the last, `model_calls` the others) and `MCStores` (`AgentStores`,
`MessageStores`, `GitStores`, `PromptFiles`). In the modules, a definition whose
comment starts with `Mutant` is not part of the specification: it is the
definition after it with a plausible bug, kept to show that a property notices.

**External behaviour.** PostgreSQL (snapshots, row locks, deadlock detection,
unique indexes), Redis (atomic commands), the bucket (atomic requests, listed in
the order of the keys; a listing of less than a page is one request), go-git (a
commit of nothing is an error, a checkout fails on changed tracked files and
resets the index; what becomes of untracked files is left open; any operation
may fail), a statement that was sent on a connection whose caller has left
(executed later or never), the kernel's
file events (in order, none lost), the LLM services and the tools (which answer,
fail, break off or stall) are modelled from how the code uses them. Nothing in
the repository calls a `Checkpointer`, so the nodes of `PostgresCheckpointer`
follow the comments of `pkg/checkpoint`: load, execute the next step, save with
the version read, reload after a conflict.

**Data.** Names, versions, slugs and nodes are model values. A spec or prompt is
identified with its version, a file with the number of the edit that wrote it, a
checkpoint with the step it is at and the number of the write that made it, a
message with its number, role and kind of content. History variables
(`everDeleted`, `overlapped`, `lifetime`, `requested`, `sets`, `late`, `turns`,
`during`, `contended`, `interrupted`, `missed`, `allowed`, `promised`,
`amiss`, `disturbed`, `acked`, `careless`, `steady`, `paid`, `reached`, of the states
of `WorkflowGraph` the fields `start`, `walk` and `clean`, of a checkpoint's row
`node` and of a node's checkpoint `own`) exist for the properties; no action's
guard reads one of them except as the bound it is named for, and `turns` counts
up to `MaxIterations` only, so that a run that went on for ever would be a cycle
that TLC finds.

## 3. Runs

| run | instance | shows |
|---|---|---|
| `workflow_state` | rows: 2 versions, 2 callers; memory: 2 names, 2 versions, unbounded; checkpoints: 2 nodes, 3 steps, 2 deletes, 2 crashes | interleaved statements, rollback at any point, deadlock; every call sequence in memory, the contract refined; optimistic lock and progress |
| `checkpoint_conflicts` | 1 node, 1 step, 1 lost answer | violation: a node is told of a conflict with its own write |
| `prompt_cache` | 1 node, 2 requests, 2 slugs, 2 versions, 2 upserts, 1 failure, a table that is empty or has one active row | refreshes and convergence |
| `prompt_delete` | 1 of each | violation: a deleted prompt is served for ever |
| `blob_stores` | 2 versions, 2 callers, 2 faults, each of the three stores | interleaved requests, crashes, answers lost |
| `streams` | 11 pipelines of up to 3 relays, 2 chunks, both kinds of source, both handlers | errors, deadlines, no goroutine left |
| `compilers` | 3 names, lists of up to 2, 4 compilations; definitions of 1 to 3 nodes with every pair of routers, 3 runs on a state; 3 agents in a chain, 2 runs, cap 2, depth 1, 2 starts | what is resolved, which cycles are caught; each item once; depth, cancellation; runs return and end |
| `model_calls` | 4 vendors, scripts of up to 3 lines; 3 providers of 2 IDs, 2 outages; 2 callers of 2 chains, budget 2, cap 2, 2 attempts | translation and streams; availability and selection; charges, counter, retries |
| `stores` | 2 versions and 2 callers (agents); 3 requests, 2 faults, 5 backends (messages; Redis and PostgreSQL are one, `list`); 2 workers, 4 calls, 3 stores (git); 2 files, 3 edits, a channel of 1 (prompt files) | what Get serves after any interleaving; no acknowledged message lost; commits whole and as promised; changes arrive |
| `message_stores_turns` | 2 requests to one thread | violation: two Appends write one object |
| `agents_served` | 2 versions, 1 caller | violation: Activate takes an agent out of service in a statement of its own |
| `git_committed` | skill store, 1 version, 1 worker, 2 calls | violation: a repeated Create succeeds with nothing committed |

What the properties mean is said where they are defined; in the four MC modules
that put parts side by side each is that of its part.

**Why the bounds suffice.** Two callers, requests, nodes or runs are what it
takes for one to overtake another between two of its steps, and each property
relates at most two of them. Two versions are what it takes to have one demoted
and one promoted; two rows are what it takes for row locks to deadlock. Two
deletes let a version come back twice, and two crashes allow a crash after a lost
answer. `MaxAgentDepth = 1` with a chain of three agents makes the depth guard
refuse; `MaxIterations = 2` lets the cap and the ordinary end both happen. A
second server process acts on a node of `PromptCache` only through Redis and the
rows, as the second request does. The `violation` runs use the smallest instance
that has the case: a single caller or node that is lost once, or fails once and
tries again. A pipeline of three has a relay that has neighbours on both
sides, and a deadline inside, outside and between. Three agents make a cycle that
does not pass through the one being compiled; four compilations allow an agent to
be compiled again after others came to depend on it. Two runs after a failed one
meet the positions it left. Three lines are a text, its usage and an end in any
order. Two outages take a provider away and bring it back, or take two. A budget
of 2 with answers of 1 or 2 is met, missed and exceeded by two callers. Four git
calls are a Create and an Activate of each of two names, or calls that fail, one
after the other, and the ones that find what they have left. Three edits are an
initial change, one while it is loaded, and one after; a channel of 1 is full
after one.

Deadlock is checked in the first six runs of the table.
In the others the system stops once the bounded number of invocations,
compilations or calls has been made and ended.

**Fairness.** `WorkflowPostgresStore`: weak fairness of each caller's statements
(the server executes what it was sent) and strong fairness of taking a row lock,
since PostgreSQL queues waiting transactions; beginning a call and losing the
connection have none. `PostgresCheckpointer`: a node that is up goes on with
load, execute and save; crashes and deletes are bounded. `PromptCache`: the poll
goroutine runs while its node does, and a request that began is served; which
ready case its `select` picks is not assumed. `AgentLoop`: a goroutine that can
go on does, that is, the LLM and the tools answer or fail. `Streams`: goroutines
that can go on do and deadlines pass; the source may hang. `WorkflowGraph`: the
loop of `Graph.Invoke` goes on. `ModelWire`: the goroutine and the HTTP client go
on and the client's timeout fires; the server may stall, the consumer may leave.
`ProviderCalls`: the ticker fires and a round of pings goes on; `AvailabilityConverges`
is about providers that stop changing, whose number of changes is bounded.
`CallGuards`: a call goes on, each caller's compare-and-swap is retried; that it
succeeds at last is shown, not assumed, the number of calls being bounded.
Cancellation, failure and new invocations are never assumed.

## 4. What is proved

* `WorkflowMemoryStoreProofs`, about the part of `MCWorkflowState` in memory.
  `Invariance`: the type invariant,
  `ActiveIsServed`, `StatusAgreesUntilDelete`, `ListIsExact` and `AbsentIsEmpty`
  are together inductive. `AbsentIsEmpty` (a name without an entry has nothing
  stored) is the strengthening: without it Create could append to a list left
  over from nowhere. `GetIsSound`, `ListVersionsIsExact` and
  `StatusSoundUntilDelete` follow. `Refinement`: each call is the `SpecStore`
  action of the same name, with the same answer; it needs `ActiveIsServed`, or
  Get could answer a mark of a deleted name. Assumption: `None` is no version.
* `PostgresCheckpointerProofs`, about the checkpoints of `MCWorkflowState`. The
  inductive invariant says that what a node
  holds is no newer than the row of the same lifetime, that it has the row's
  version exactly when it was loaded from that row (`HoldsNoNewer`), that such a
  node is about to save the row's next step (`OnNextStep`), that a row the node
  wrote itself is the one it loaded or comes from a save that was not answered
  (`KnowsItsWrites`), and that a row has
  been written by a Save and has a version of at least 1 (`RowWritten`). The
  property alone is not inductive: nothing in it keeps a node's version ahead of
  the row from being caught up with by another node's write.
  `ConflictsAreReal`, `LocksLoseNothing` and `StepsAreConsecutive` follow, for
  any number of nodes, steps, deletes and crashes. The first says that a conflict
  means a row that is not the one loaded, and which another node wrote unless a
  save of the same checkpoint was applied and not answered; that it is always
  another node, as the comments have it, is refuted (section 5).
* `CompilersProofs`, about the composition `MCCompilers`.
  - Agent loop. `DepthIsBounded`: every stack is well nested, the depth
    carried in `Meta` being the frame's position, because only `Delegate` pushes a
    frame, below the limit and with the depth of the top frame plus one.
    `CancelStopsTheLoop`: a run has had no late turn, or it has had one, its
    context is done, and no turn is in flight (`InFlight`): only the check at the
    head of `Graph.Invoke`'s loop puts a turn in flight, and a frame that returns
    puts its caller back at that head. Assumptions: the limits are naturals, the
    agents an agent may call are agents.
  - Agent compiler. `ReferencesResolve` and `CompiledIsAcyclic`, for any finite
    set of names, any lists and any order of compiling and compiling again. Both
    say what a loop has done once it has ended; so `CompilerInv` says at each `pc`
    how far it is. While names are resolved, what is resolved or queued cannot be
    avoided from the definition's list, and only what is queued may lack the list
    of its own (`Reaches`); when the queue is empty this is `ResolutionIsExact`.
    Kahn's sort: a degree is the number of edges from the places of nodes not yet
    taken, and what has been taken is `Loose`, any part of it having a member that
    no member of the part refers to (`Sorting`); a sort that took every node leaves
    the graph loose. The search: a name that is finished refers to finished names
    only, so the finished names are loose too, and the path follows the edges
    (`Searching`); a search that ends without a cycle has finished every name. The
    edges are lists with repetitions, so the counting lemmas (`PlacesCount`,
    `IntoWithout`, `UnseenIs`) count places and not names. Assumption: the names
    are finitely many and a definition names names.
  - Workflow graph. `EntriesOnce`, for any definitions, graphs, states and answers
    of custom routers. The property speaks of the end of a run; a run may be
    repeated on the state it left, fail in between and open runs of inner graphs,
    so `GraphInv` speaks of every state and of every open call of `Graph.Invoke`.
    Of a state: its count of a key is past every position handed out under the key
    (`Forward`; this alone is the first half of the property, for it needs nothing
    of the graph); and if it has counted from 0, under one key, over lists nothing
    writes, the positions are 0, 1, ... up to the count and no more than the list
    has (`Steady`). Of a call: only the last position may be under way, and for the
    node the call is at (`Busy`); a call that a position router sent to the end
    has a list with no entry left (`EndsRight`); no two open calls work on one
    state. When nobody works on a state, all that was handed out is done (`Idle`),
    which is what lets the next run start from it. `Busy` and `Idle` are about
    states no run has failed on: a failed run leaves a position it has advanced past
    and not processed. `RouterKeeps` says it of each router, `AlikeKeeps` that nothing
    else a step writes matters. Assumptions: the values in the states a caller
    makes are of their types, what is built in Go has a main graph, an inner one if a
    node runs one, and routers of the types there are, a recipient list being a
    list; for what Compile builds the last is proved (`CompiledFits`).
* `WorkflowPostgresStoreProofs`. `LocksAreExclusive`, `OneVersionActive` and
  `ActivationsAreAtomic`. The invariant says at which statements a method can be
  (`Shape`), how what a call has written relates to the committed rows
  (`Sound`: a Create keeps the status of a row, a Delete writes drafts, a call
  that commits an activation has promoted its version), that no two calls have
  written to one row, and, as long as Activate calls have not overlapped, what
  the one under way knows (`Turn`): all active rows are in what it demotes, none
  it sees is active before it promotes, and only its version is afterwards.
  `ActivationsAreAtomic` needs no such condition: `Sound` says that the commit
  of an Activate brings an active row. Assumption: `None` is no row.
* `PromptCacheProofs`. `RefreshesArrive` and `OneVersionServes`. For the first,
  the invariant says that Redis holds the last write of every key and no node
  has asked for a later one (`RedisIsCurrent`), and that a pull during which no
  token has arrived holds, of the keys it is done with, what was asked for
  (`PullKeepsUp`). The property alone is not inductive, for it says nothing of
  what the pull under way has read. A key that KEYS does not list was never
  written. `OneVersionServes` follows from the clauses of the statements that
  rename and promote rows, and from what a request carries from one statement to
  the next (`CallsKnow`). Assumptions: `None` is no fragment, the bounds are
  naturals.
* `BlobStoresProofs`. `PointerNeverDangles`, `GetReturnsTheServed` and
  `DeletesAreComplete`, for the three stores at once. The invariant is what a
  call relies on from one request to the next. `WriterKnows`: the version an
  Activate is about to point to is stored (no store but the agents' deletes
  one), the keys a Delete has listed are all there are, a name found undeleted
  still is. `ReaderKnows`: the pointer a Get is about to read, and the version
  it has read, were served during the call, and if that version is gone by now
  there was a moment when nothing was served, because a Delete removes the
  pointer first. `TakeTurns` bounds the last two to writers that do not
  overlap. Assumption: `None` is no version.
* `StoresProofs` is about the composition `MCStores`, whose four families keep to
  themselves: a behaviour of it is one of each (`FamiliesBehave`).
  - Agent stores. `ServesThePromised`: what Get serves is what the calls promised,
    in memory and in PostgreSQL. The property says nothing while a writer is
    between its statements, so the invariant says what the writer knows there
    (`Knows`): before it demotes, what is served is still allowed; a demotion that
    was sent has all of it in its snapshot; once it is done nothing is served and
    the version to promote has a row; a deletion that was sent has all that is
    served in its snapshot. Create's statements, which come between, move no row
    into or out of service. A caller that is lost leaves the statement it has sent,
    which takes effect at any later time or never; the invariant says of it what it
    says of a writer under way, and `allowed` has by then each set that the
    statement can lead to: nothing, after a demotion, or the version promoted.
    Writers that overlap, or begin while such a statement is left (`Unsettled`), are
    excluded (`contended`): the statements of Activate are no transaction, which is
    not what a document says of it (section 5). Assumption: `None` is no version.
  - Git stores. `CommitsAreKeptWhole` and `BranchesAreKept`. Both speak of
    branches, which change in a commit, from what is in the index by then; and
    every operation may fail, and undoes nothing. So the invariant says at each
    file operation how far the working tree and the index have come from the last
    commit (`StoreAt`, with `After` for the tree that the commit will make;
    `AgentAt` for the one file of the agents), and what is known of a tree that
    failed calls have used: a file that is there is committed, or the pointer, or
    the file a Create makes just now, or was left by a Create that failed (`Known`,
    `amiss`); the branch has no file that is not written to its end and points
    to a version it has or whose Create went amiss (`StoreTree`); and outside of
    `amiss` it is what was promised (`AgreeOutside`). The index is the last commit
    at each step from the checkout to the `Add`, whatever was staged before, because
    a checkout resets it. What the properties except is what the code gets wrong:
    a version whose Create failed after making its file (section 5), a commit
    whose call failed only afterwards, and a branch that a Delete could not remove
    and did not complain of. `MutexHeld` says who has the lock, and
    that the writers of one store therefore take turns. A reader that checks out
    between the steps of a writer, and writers of two agents, which share a file
    and hold no common lock, are excluded as in the properties (`disturbed`).
    Assumption: the pointer's file has the name of no version.
  - Message stores. `MessagesAreKept` and `WindowsAreLongestEnds`. For the first,
    the invariant says that a message still to be appended is nowhere in the history
    (`MessagesAreNew`), and that the key an Append is about to write is above those
    of all objects and no other's (`KeysAreNew`), which is what keeps an
    acknowledged message from being overwritten or overtaken; `InOrder` is the
    property before positions are counted. That the history, the objects in the
    order of their keys, has a greatest key is a well-founded argument on finite
    sets; that its order is the order of the keys follows from the number of keys
    below each (`Rank`). Excluded (`careless`): two requests of the MinIO store
    naming an object at once, and counters that were not restored. Assumption: the
    kinds of stores.
    The second has two halves. `ReadersInv` is about the reads: a reader of the
    MinIO store lists the keys, then fetches the objects one at a time while
    others append, and what it has fetched together with what is still behind the
    keys it has listed (`Listed`) is the history as it was at the listing, for an
    object once written keeps its message. `WindowIs` is about `applyWindow`, for
    any history: the walk from the last message back stops at the longest end that
    fits. The walk and the costs are recursive functions; a fact about every step
    of one is proved of the highest place where it would fail (`AHighestIs`), which
    takes the well-foundedness of finite sets in place of induction. Assumption: a
    budget is a natural number.
  - Prompt files. `ChangesReachTheStore`: the property speaks of the moment when
    nothing is under way, so the invariant says where a change is until then.
    `FileArrives`: a file that is written out is served, or in the scan, or in the
    queue of events, or read and about to be put; and what is about to be put is
    not older unless the file will be read again. `SubscriberIsTold` is its
    counterpart for the channels. `RendersKeepTheOrder`: that a fragment is not
    older than the call needs the store never to go back, which holds because
    `watchLoop` never puts what is older than the file or older than what is served
    (`NoneNewer`), also for a file that was removed and written again. Assumption: a
    template is a list of slugs.
* `ModelCallsProofs` is about the composition `MCModelCalls`, which moves one layer
  at a time (`StreamsBehave`, `CallsBehave`, `GuardsBehave`, `WireBehaves`).
  - Streams. `ErrorsEndAResponse` and `DoneMeansWhole`, for any pipeline. Both
    speak of what was written; so the invariant speaks of every position a chunk
    can be at, from the source to the handler. Behind an error nothing but errors
    can come, because a goroutine between it and the source has ended and those
    in between hold no value (`Dry`); the error alone would not be inductive, as
    an outer deadline reports one while values are still on their way further in.
    The values on their way continue those written, in order and without a gap,
    where no goroutine further out has ended (`NoGaps`, `InTurn`, `SourceGoesOn`);
    and as long as no deadline has passed and nobody has cancelled, goroutines end
    from the inside and nothing is lost (`NothingIsLost`), so that the handler
    sees the end after the whole. Assumptions: a stream has a chunk, relays are of
    the three kinds, errors and events are no numbers.
  - Registry and fallback. `SteadyProviderIsUsed`. The invariant says where a
    provider that stayed up and was held available is at each step of a call: in
    the candidates once the scan has passed it, with nothing behind it before it
    (`Scanning`), then among the candidates still to be tried (`Trying`), so that
    the call can neither end without an answer nor take one from further behind.
    Assumptions: there is a provider to fall back on, what is monitored or
    registered is a provider.
  - Middleware. `BudgetAlwaysAddsUp` and `IterationsAreCapped`, for any chain in
    any order. A call that has been charged and has not told its caller stands for
    its tokens (`Charge`), a call that has passed the counter for the times it can
    still reach the runnable (`Credit`: one, or the attempts left if the retry is
    inside the counter). The invariant counts both as sets of units, one pair for
    each, since a sum over the callers would need induction over them; a step of
    one caller then moves units of its own only (`UnitsChange`). The second
    property alone is not inductive: nothing in it keeps calls that are on their
    way in from reaching the runnable. Assumptions: the limits are naturals, there
    is one attempt at least, the callers are finitely many, and a chain has each
    guard once.
  - Streamed answers. `StreamsEndWhole`, for any script of lines, channel and
    timing. The property speaks of what was received, and a chunk is received
    long after its line was read; so the invariant takes what was received, what is
    in the channel and what the reader holds as one list of pieces. `Conveys` maps
    those with a text to the lines they were made of, strictly increasing and onto
    the lines read so far that belong to the answer; `EndsRight` says that only the
    last piece is done, that one without an error leaves no line behind that
    belongs to the answer, and that a closed reader has sent one. The property is
    stated by positions, since what a filter makes of a list would need induction
    over it. Assumptions: the vendors are the four, a script is a list of lines.
  - Requests. `RequestsAreFaithful`. `SentInv` says that what was sent is the body
    made from the request; that such a body is faithful is a fact about
    `buildWireRequest`, proved for every conversation (`BodiesAreFaithful`).
    `Parted`, its loop, is a recursive function: at each message the two parts so
    far match the system messages and the turns so far, place by place and in their
    order (`PartedIs`, by the lowest place where that would fail). What is read of
    matching lists, the texts or the voices, then matches too (`ReadingsMatch`), and
    Google's renaming of the roles keeps who speaks for the model. Assumptions: the
    vendors are the four, messages have the canonical roles, a limit is a natural
    number.

Only model-checked: the liveness properties (`CallsEnd`, `ThreadCompletes`,
`Converges`, `RunsEnd`, `RunsReturn`, `HandlerReturns`, `GoroutinesEnd`,
`ReadersEnd`, `AvailabilityConverges`, `CallsReturn`), which need fairness.
Every invariant and action property of the runs is a theorem.
Stated and true under TLC without a run of their own, because a run's property says
more: the `TypeOK` of each module, `ListIsExact`, `ActiveIsServed`,
`StepsFollow`, `VersionNamesWrite`, `CreateKeepsStatus`, `DeleteDemotes`,
`CachedWasStored`, `ListedAreStored`, `ListMatchesObjects`, `ValuesInOrder`,
`OnlyRoutersMissNodes`, `CompileEnds`.

## 5. Promises the code breaks

Five are runs that TLC must find violated:

1. `prompt_delete`, `pkg/prompt/cache.go`: Delete does not remove the Redis key,
   so the refresh it asks for puts the deleted fragment back.
2. `message_stores_turns`, `pkg/memory/minio.go`: Append increments `seq` without
   a lock, so two Appends write the same object and one message is gone, though
   all methods are said to be safe for concurrent use.
3. `checkpoint_conflicts`, `pkg/checkpoint/postgres.go:70`: a save is applied and
   its answer lost, the node saves again and is answered `ErrVersionConflict`,
   though nobody else has written. The comment at lines 13-14 says that another
   node has already written a newer version. The node recovers by reloading
   (`ThreadCompletes`), but a caller that believes the comment looks for a rival.
4. `agents_served`, `pkg/agent/store/postgres.go:208-248`: Activate sends its
   check, its demotion and its promotion one by one. `docs/reviews/0006` says that
   both packages use a proper transaction (line 110, and line 62). Between the two
   UPDATEs Get finds no active version, and if the caller is lost there it stays
   so. `GetServesThePromised` therefore allows, after an Activate that was lost,
   that nothing is served.
5. `git_committed`, `pkg/skill/store/git/git.go:107-109`: Create takes a file for a
   committed version. A Create that failed at its Write, its Add or its Commit has
   left one, so the Create that is repeated returns nil and nothing is committed;
   the workflow store's Create does the same where its checkout leaves the file. By
   the same file Activate (the `Stat` of line 270) commits a pointer to a version
   that the branch does not have.

The modules state others, each of which TLC refutes when it is added to a cfg:

* `PostgresCheckpointer!NoLostUpdateEver`: the version is unique within a lifetime
  of the row only; a Delete lets a late Save match a different checkpoint, or
  insert one when there is none.
* `AgentLoop!TruncatedAtCap`: the iteration counter belongs to the compiled agent,
  so a long-lived agent ends up truncating every invocation after its first turn.
* `BlobStores!CreatedIsListed`: a Create given up between its two writes is not
  made good by repeating it, because the version is found and both are skipped.
* `Streams!TimeoutIsReported`: a deadline whose error nobody is waiting for is
  dropped, and the cut stream ends like a whole one.
* `WorkflowGraph!OneRunCollects`: the aggregator ends the run until it has the
  expected number, so it collects one item per run (`CONTEXT.md` says it collects
  N outputs).
* `AgentCompiler!SelfReferenceIsCaught`: an agent that names itself is not refused.
* `ProviderCalls!SelectedIsMonitored`: providers that share an ID share one
  availability, and only the first of them is pinged.
* `CallGuards!ExceededStopsCalls`: after `ErrTokenBudgetExceeded` what is left of
  the budget lets further calls through.
* `CallGuards!PanicsAreConverted`: a panic while a stream is being opened is not
  recovered.
* `GitStores!QuietIsClean`: a call that fails leaves tracked files changed, emptied
  or cut off, so that every later checkout of the store fails until somebody
  cleans the tree.

Also seen:

* in `pkg/workflow/store/memory` Delete forgets the active version but leaves its
  status, so a revived name has a version with status `active` that Get does not
  return (`StatusAgreesUntilDelete` holds until the first Delete only);
* on PostgreSQL overlapping Activate calls can leave two active rows, of
  workflows (`SerialActivatesKeepOneActive` needs `~overlapped`) and of agents
  (`GetServesThePromised` needs `~contended`); the agent store activates deleted
  rows there and refuses to in memory;
* on a bucket, overlapping creates can lose a line of `_versions`, and an
  Activate of an agent that overlaps its Delete can leave a pointer to nothing;
  a revived workflow serves the version that was active when it was deleted, and
  its `ListVersions` is oldest first where the interface says newest first;
* in git, a second Activate of the active version is an error of go-git (nothing
  to commit), as is the agent store's Activate right after Create and a repeated
  Create; the workflow store's readers check out without the mutex; concurrent
  writers of two agents share `spec.yaml`; the skill store's Create and Activate can
  return an error after their commit, and the agent store's Delete nil though one
  of the two branches is still there;
* an Activate of an agent whose caller has left can take a version out of service,
  or put one in, after a later call has begun, for nothing ties the statement it
  left to the call (`GetServesThePromised` needs `~contended`);
* the hybrid message store's key counter restarts at 0 with its process, the
  MinIO store's with every store that is not restored, and `Restore` ignores the
  errors of the listing; the invoke handler ignores the errors of Append;
* an upsert of a stored prompt version caches a fresh id that names no row; a
  promotion is refused while a version is active;
* removed prompt files stay served; a subscriber whose channel is full misses the
  newest change, the ones it holds being older;
* a node that returns a state without Meta makes a splitter or a recipient list
  repeat its first item for ever; a run that is repeated after a failure goes on
  at the positions the failed one had advanced;
* vendor clients neither send tools nor decode tool calls; the OpenAI and Azure
  clients end a stream without usage, and take the end of the body for the end of
  the answer; the client's timeout covers the streamed body; a reader whose
  consumer left with the channel full stays for ever;
* two errors can reach the client of `pkg/api`, one of them from an outer
  deadline, and `done` follows them.

## 6. Not modelled

* Vector stores: floating point. Evaluation: a sequential loop over independent
  rows. Command line, examples, MCP, sandbox, telemetry, probes, credentials,
  fault injection, authentication: I/O and glue without protocol state.
* The in-memory checkpointer and the journals replace or append under a mutex and
  have nothing that can interleave.
* Reads that change nothing (List, ListVersions, GetVersion of the stores, Len of
  a thread) are left out unless a property is about their answer. The workflow
  CRUD handlers pass through to a store.
* The history of an agent's messages: `AgentLoop` keeps the number of tool calls
  of a turn, not what they say.
* UUIDs of prompt fragments are numbers, drawn in the order of the upserts.
