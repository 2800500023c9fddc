---------------------------- MODULE PromptCache ----------------------------
(***************************************************************************)
(* The prompt path of one tenant: the handlers of pkg/api, the PromptCache *)
(* of each node with its poll goroutine, the Redis the nodes share, and    *)
(* prompt.PostgresStore as the backend behind them.                        *)
(*                                                                         *)
(* A request runs on a node as a sequence of backend and Redis calls that  *)
(* other requests, other nodes and the poll goroutines interleave with.    *)
(* Redis and PostgreSQL execute one command or statement atomically.       *)
(***************************************************************************)
EXTENDS Naturals, Sequences

CONSTANTS
    Nodes,
    Requests,     \* requests under way at once, each on one of the nodes
    Slugs,
    Versions,     \* version labels
    StoredBefore, \* what the table may hold when the cache is put in front of it
    MaxPuts,      \* bound on upserts
    MaxFailures,  \* bound on failed Redis commands and node restarts
    None

VARIABLES
    rows,       \* bunshin_fragments in the order of created_at
    redis,      \* redis[s]: the fragment under the key of slug s, or None
    snapshot,   \* snapshot[n][s]: n's in-process copy of it, or None
    pending,    \* pending[n]: refreshCh holds a token
    poll,       \* poll[n]: the poll goroutine: what it has read of Redis so far
    call,       \* call[r]: what request r is about to do, and on which node
    puts,       \* upserts so far; numbers the UUIDs that Put generates
    sets,       \* history: sets[s] counts the writes of key s; a fragment keeps
                \* the number of the write that stored it
    requested,  \* history: requested[n][s]: sets[s] when n last asked for a refresh
    failures    \* Redis failures and restarts so far

vars == <<rows, redis, snapshot, pending, poll, call, puts, sets, requested, failures>>

Row == [id : Nat \ {0}, slug : Slugs, version : Versions,
        status : {"draft", "active", "deleted"}]

\* UUIDs are distinct, and the table has kept its unique indexes.
ASSUME StoredBeforeAssumption ==
    \A stored \in StoredBefore :
        /\ stored \in Seq(Row)
        /\ \A k \in DOMAIN stored : stored[k].id > MaxPuts
        /\ \A j, k \in DOMAIN stored : j # k =>
               /\ stored[j].id # stored[k].id
               /\ stored[j].slug = stored[k].slug =>
                      /\ stored[j].version # stored[k].version
                      /\ {stored[j].status, stored[k].status} # {"active"}

Fragment == [id : Nat \ {0}, version : Versions, write : Nat]
Cached == Fragment \union {None}

ASSUME BoundsAssumption == MaxPuts \in Nat /\ MaxFailures \in Nat
ASSUME NoneAssumption == None \notin Fragment

Nothing == [s \in Slugs |-> None]
NoCall == [op |-> "none", node |-> None, slug |-> None, version |-> None, id |-> 0, old |-> 0]
Waiting == [at |-> "wait", todo |-> {}, read |-> Nothing]

Init ==
    /\ rows \in StoredBefore
    /\ redis = Nothing
    /\ snapshot = [n \in Nodes |-> Nothing]
    /\ pending = [n \in Nodes |-> FALSE]
    /\ poll = [n \in Nodes |-> Waiting]
    /\ call = [r \in Requests |-> NoCall]
    /\ puts = 0
    /\ sets = [s \in Slugs |-> 0]
    /\ requested = [n \in Nodes |-> [s \in Slugs |-> 0]]
    /\ failures = 0

localState == <<snapshot, poll, requested>>

RowsOf(s) == {k \in DOMAIN rows : rows[k].slug = s}
Active(s) == {k \in RowsOf(s) : rows[k].status = "active"}
Drafts(s) == {k \in RowsOf(s) : rows[k].status = "draft"}

\* PromptCache.Get on n: the id of the fragment found in the snapshot, else in
\* Redis, else as the active row of the store; 0 when there is none.
Get(n, s) ==
    CASE snapshot[n][s] # None -> snapshot[n][s].id
      [] snapshot[n][s] = None /\ redis[s] # None -> redis[s].id
      [] OTHER -> IF Active(s) = {} THEN 0
                  ELSE LET k == CHOOSE k \in Active(s) : TRUE IN rows[k].id

-----------------------------------------------------------------------------
\* handlePromptUpsert: a body slug t other than the URL's s renames first, when
\* Get finds the fragment.
Upsert(r, n, s, t, v) ==
    /\ call[r] = NoCall
    /\ puts < MaxPuts
    /\ puts' = puts + 1
    /\ call' = [call EXCEPT ![r] =
           [op |-> IF t # s /\ Get(n, s) # 0 THEN "rename" ELSE "put",
            node |-> n, slug |-> t, version |-> v, id |-> puts + 1, old |-> Get(n, s)]]
    /\ UNCHANGED <<rows, redis, pending, sets, failures, localState>>

\* Mutant: no unique index on active rows.
RenameableUnlessSameVersion(k, t) ==
    \A j \in RowsOf(t) \ {k} : rows[j].version # rows[k].version

\* UPDATE ... SET slug WHERE id; the two unique indexes may refuse it.
Renameable(k, t) ==
    /\ \A j \in RowsOf(t) \ {k} : rows[j].version # rows[k].version
    /\ rows[k].status = "active" => Active(t) \ {k} = {}

\* The request goes on to Put, or ends with an error.
Rename(r) ==
    /\ call[r].op = "rename"
    /\ \/ \E k \in DOMAIN rows :
              /\ rows[k].id = call[r].old
              /\ Renameable(k, call[r].slug)
              /\ rows' = [rows EXCEPT ![k].slug = call[r].slug]
              /\ call' = [call EXCEPT ![r].op = "put"]
       \/ /\ \A k \in DOMAIN rows : rows[k].id = call[r].old => ~Renameable(k, call[r].slug)
          /\ call' = [call EXCEPT ![r] = NoCall]
          /\ UNCHANGED rows
    /\ UNCHANGED <<redis, pending, puts, sets, failures, localState>>

\* PostgresStore.Put: INSERT ... ON CONFLICT (tenant_id, slug, version) DO NOTHING.
PutRow(r) ==
    /\ call[r].op = "put"
    /\ rows' = IF \E k \in RowsOf(call[r].slug) : rows[k].version = call[r].version
               THEN rows
               ELSE Append(rows, [id |-> call[r].id, slug |-> call[r].slug,
                                  version |-> call[r].version, status |-> "draft"])
    /\ call' = [call EXCEPT ![r].op = "set"]
    /\ UNCHANGED <<redis, pending, puts, sets, failures, localState>>

\* writeToRedis, whether the row was inserted or not.
SetKey(r) ==
    /\ call[r].op = "set"
    /\ LET s == call[r].slug IN
           /\ redis' = [redis EXCEPT ![s] =
                  [id |-> call[r].id, version |-> call[r].version, write |-> sets[s] + 1]]
           /\ sets' = [sets EXCEPT ![s] = @ + 1]
    /\ call' = [call EXCEPT ![r] = NoCall]
    /\ UNCHANGED <<rows, pending, puts, failures, localState>>

\* The Redis write fails: an error is answered, the row stays.
SetKeyFails(r) ==
    /\ call[r].op = "set"
    /\ failures < MaxFailures
    /\ failures' = failures + 1
    /\ call' = [call EXCEPT ![r] = NoCall]
    /\ UNCHANGED <<rows, redis, pending, puts, sets, localState>>

\* handlePromptActivate: Promote sets the newest draft active; the unique index
\* on active rows refuses it while another version is active.
Promote(s) ==
    /\ Drafts(s) # {}
    /\ Active(s) = {}
    /\ \E k \in Drafts(s) :
           /\ \A j \in Drafts(s) : j <= k
           /\ rows' = [rows EXCEPT ![k].status = "active"]
    /\ UNCHANGED <<redis, pending, call, puts, sets, failures, localState>>

\* handlePromptDelete: every version is tombstoned; then the cache is refreshed.
Delete(r, n, s) ==
    /\ call[r] = NoCall
    /\ RowsOf(s) # {}
    /\ rows' = [k \in DOMAIN rows |->
                   IF k \in RowsOf(s) THEN [rows[k] EXCEPT !.status = "deleted"] ELSE rows[k]]
    /\ call' = [call EXCEPT ![r] = [NoCall EXCEPT !.op = "refresh", !.node = n]]
    /\ UNCHANGED <<redis, pending, puts, sets, failures, localState>>

\* Mutant: refreshCh has no buffer.
RefreshUnbuffered(n) ==
    /\ pending' = [pending EXCEPT ![n] = poll[n].at = "wait"]
    /\ requested' = [requested EXCEPT ![n] = sets]

\* Refresh: the token is dropped when one is already in the channel.
Refresh(n) ==
    /\ pending' = [pending EXCEPT ![n] = TRUE]
    /\ requested' = [requested EXCEPT ![n] = sets]

DeleteRefresh(r) ==
    /\ call[r].op = "refresh"
    /\ Refresh(call[r].node)
    /\ call' = [call EXCEPT ![r] = NoCall]
    /\ UNCHANGED <<rows, redis, puts, sets, failures, snapshot, poll>>

\* handlePromptRefresh.
RequestRefresh(n) ==
    /\ Refresh(n)
    /\ UNCHANGED <<rows, redis, call, puts, sets, failures, snapshot, poll>>

-----------------------------------------------------------------------------
GoPoll(n, next) ==
    /\ poll' = [poll EXCEPT ![n] = next]
    /\ UNCHANGED <<rows, redis, call, puts, sets>>

\* The select of the poll goroutine: the ticker, or the token.
Tick(n) ==
    /\ poll[n].at = "wait"
    /\ GoPoll(n, [Waiting EXCEPT !.at = "keys"])
    /\ UNCHANGED <<snapshot, pending, requested, failures>>

TakeToken(n) ==
    /\ poll[n].at = "wait"
    /\ pending[n]
    /\ pending' = [pending EXCEPT ![n] = FALSE]
    /\ GoPoll(n, [Waiting EXCEPT !.at = "keys"])
    /\ UNCHANGED <<snapshot, requested, failures>>

\* Mutant: only the keys that are not in the snapshot are read.
ReadNewKeys(n) ==
    /\ poll[n].at = "keys"
    /\ GoPoll(n, [at |-> "get",
                  todo |-> {s \in Slugs : redis[s] # None /\ snapshot[n][s] = None},
                  read |-> snapshot[n]])
    /\ UNCHANGED <<snapshot, pending, requested, failures>>

\* doRefresh: KEYS, a GET per key, then the new snapshot is swapped in.
ReadKeys(n) ==
    /\ poll[n].at = "keys"
    /\ GoPoll(n, [at |-> "get", todo |-> {s \in Slugs : redis[s] # None}, read |-> Nothing])
    /\ UNCHANGED <<snapshot, pending, requested, failures>>

ReadKey(n, s) ==
    /\ s \in poll[n].todo
    /\ GoPoll(n, [poll[n] EXCEPT !.todo = @ \ {s}, !.read[s] = redis[s]])
    /\ UNCHANGED <<snapshot, pending, requested, failures>>

Install(n) ==
    /\ poll[n].at = "get"
    /\ poll[n].todo = {}
    /\ snapshot' = [snapshot EXCEPT ![n] = poll[n].read]
    /\ GoPoll(n, Waiting)
    /\ UNCHANGED <<pending, requested, failures>>

\* KEYS fails: doRefresh gives up; what was asked for is not fetched.
ReadKeysFails(n) ==
    /\ poll[n].at = "keys"
    /\ failures < MaxFailures
    /\ failures' = failures + 1
    /\ requested' = [requested EXCEPT ![n] = [s \in Slugs |-> 0]]
    /\ GoPoll(n, Waiting)
    /\ UNCHANGED <<snapshot, pending>>

\* A GET fails: the key is left out of the new snapshot.
ReadKeyFails(n, s) ==
    /\ s \in poll[n].todo
    /\ failures < MaxFailures
    /\ failures' = failures + 1
    /\ requested' = [requested EXCEPT ![n][s] = 0]
    /\ GoPoll(n, [poll[n] EXCEPT !.todo = @ \ {s}])
    /\ UNCHANGED <<snapshot, pending>>

\* A node restarts: NewPromptCache begins with an empty snapshot.
Restart(n) ==
    /\ failures < MaxFailures
    /\ failures' = failures + 1
    /\ snapshot' = [snapshot EXCEPT ![n] = Nothing]
    /\ pending' = [pending EXCEPT ![n] = FALSE]
    /\ poll' = [poll EXCEPT ![n] = Waiting]
    /\ call' = [r \in Requests |-> IF call[r].node = n THEN NoCall ELSE call[r]]
    /\ requested' = [requested EXCEPT ![n] = [s \in Slugs |-> 0]]
    /\ UNCHANGED <<rows, redis, puts, sets>>

Poll(n) ==
    \/ Tick(n) \/ TakeToken(n) \/ ReadKeys(n) \/ Install(n)
    \/ \E s \in Slugs : ReadKey(n, s)

Serve(r) == Rename(r) \/ PutRow(r) \/ SetKey(r) \/ DeleteRefresh(r)

Next ==
    \/ \E r \in Requests :
           \/ \E n \in Nodes, s \in Slugs :
                  \/ Delete(r, n, s)
                  \/ \E t \in Slugs, v \in Versions : Upsert(r, n, s, t, v)
           \/ Serve(r) \/ SetKeyFails(r)
    \/ \E n \in Nodes :
           \/ RequestRefresh(n) \/ Restart(n)
           \/ Poll(n) \/ ReadKeysFails(n) \/ (\E s \in Slugs : ReadKeyFails(n, s))
    \/ \E s \in Slugs : Promote(s)

\* The poll goroutine runs as long as its node does, and requests are served.
\* The select picks either of its ready cases: only the refresh that follows,
\* not which case began it, is certain.
Spec ==
    /\ Init /\ [][Next]_vars
    /\ \A n \in Nodes : WF_vars(Poll(n))
    /\ \A r \in Requests : WF_vars(Serve(r))
-----------------------------------------------------------------------------
TypeOK ==
    /\ rows \in Seq(Row)
    /\ redis \in [Slugs -> Cached]
    /\ snapshot \in [Nodes -> [Slugs -> Cached]]
    /\ pending \in [Nodes -> BOOLEAN]
    /\ poll \in [Nodes -> [at : {"wait", "keys", "get"}, todo : SUBSET Slugs,
                           read : [Slugs -> Cached]]]
    /\ call \in [Requests -> [op : {"none", "rename", "put", "set", "refresh"},
                              node : Nodes \union {None},
                              slug : Slugs \union {None}, version : Versions \union {None},
                              id : Nat, old : Nat]]
    /\ puts \in 0 .. MaxPuts
    /\ sets \in [Slugs -> Nat]
    /\ requested \in [Nodes -> [Slugs -> Nat]]
    /\ failures \in 0 .. MaxFailures

WriteOf(f) == IF f = None THEN 0 ELSE f.write

\* No refresh is lost: when a node's poll goroutine is back at its select with
\* no token in the channel, its snapshot holds every Redis write made before the
\* last Refresh that Redis did not fail, although Refresh drops its token when
\* one is pending and may be called in the middle of a pull.
NoRefreshLost ==
    \A n \in Nodes : poll[n].at = "wait" /\ ~pending[n] =>
        \A s \in Slugs : WriteOf(snapshot[n][s]) >= requested[n][s]

\* The unique index is never in the way of a row already there: one version at
\* most of a slug is active, renames onto a slug in use included.
OneActiveVersion == \A s \in Slugs : \A j, k \in Active(s) : j = k

\* The backend is written before Redis: a version any node has cached has been
\* stored, and stays stored (a row is tombstoned or renamed, never removed).
CachedWasStored ==
    \A n \in Nodes, s \in Slugs : \A f \in {redis[s], snapshot[n][s]} \ {None} :
        \E k \in DOMAIN rows : rows[k].version = f.version

\* The cluster converges: once the upserts have stopped (they are bounded), the
\* snapshot of every node is what is in Redis, and stays so.
Converges == \A n \in Nodes : <>[](snapshot[n] = redis)

Tombstoned(s) == RowsOf(s) # {} /\ \A k \in RowsOf(s) : rows[k].status = "deleted"

\* A deleted fragment stops being served: ADR 0005 has workflows that refer to
\* the slug fail from the next cache reload on.
DeletedIsGone ==
    \A n \in Nodes, s \in Slugs : Tombstoned(s) ~> (Get(n, s) = 0 \/ ~Tombstoned(s))
=============================================================================
