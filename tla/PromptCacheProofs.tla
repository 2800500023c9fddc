------------------------- MODULE PromptCacheProofs -------------------------
(***************************************************************************)
(* For any nodes, requests, slugs and versions: no refresh is lost, and    *)
(* one version of a slug at most is active.                                *)
(***************************************************************************)
EXTENDS PromptCache, SequenceTheorems, TLAPS

\* A request that will write a row or a key knows what; one that will refresh, where.
CallsKnow ==
    \A r \in Requests :
        /\ call[r].op \in {"rename", "put", "set"} =>
               call[r].slug \in Slugs /\ call[r].version \in Versions /\ call[r].id \in Nat \ {0}
        /\ call[r].op = "refresh" => call[r].node \in Nodes

\* Redis has the last write of every key, and no node asked for a later one.
RedisIsCurrent ==
    /\ \A s \in Slugs : WriteOf(redis[s]) = sets[s]
    /\ \A n \in Nodes, s \in Slugs : requested[n][s] <= sets[s]

\* A pull during which no token arrived has, of the keys it is done with, what was asked for.
PullKeepsUp ==
    \A n \in Nodes :
        /\ poll[n].at # "get" => poll[n].todo = {}
        /\ poll[n].at = "get" /\ ~pending[n] =>
               \A s \in Slugs \ poll[n].todo : WriteOf(poll[n].read[s]) >= requested[n][s]

RefreshInv == RedisIsCurrent /\ PullKeepsUp /\ NoRefreshLost

IInv == TypeOK /\ CallsKnow /\ RefreshInv /\ OneActiveVersion

-----------------------------------------------------------------------------
Request == [op : {"none", "rename", "put", "set", "refresh"},
            node : Nodes \union {None},
            slug : Slugs \union {None}, version : Versions \union {None},
            id : Nat, old : Nat]
Pull == [at : {"wait", "keys", "get"}, todo : SUBSET Slugs, read : [Slugs -> Cached]]

LEMMA NothingCached ==
    /\ Nothing \in [Slugs -> Cached] /\ Waiting \in Pull /\ NoCall \in Request
    /\ \A s \in Slugs : WriteOf(Nothing[s]) = 0
    /\ NoCall.op = "none" /\ Waiting.at = "wait" /\ Waiting.todo = {} /\ Waiting.read = Nothing
  BY DEF Nothing, Waiting, NoCall, Cached, WriteOf, Pull, Request

LEMMA WriteOfNat == ASSUME NEW f \in Cached PROVE WriteOf(f) \in Nat
  BY NoneAssumption DEF Cached, Fragment, WriteOf

\* No rows, and rows that the table may have held before.
LEMMA InitInv == Init => IInv
<1> SUFFICES ASSUME Init PROVE IInv
  OBVIOUS
<1>1. rows \in Seq(Row) /\ OneActiveVersion
  BY StoredBeforeAssumption DEF Init, OneActiveVersion, Active, RowsOf
<1>2. TypeOK
  BY <1>1, NothingCached, BoundsAssumption DEF Init, TypeOK, Pull, Request
<1>3. CallsKnow
  BY NothingCached DEF Init, CallsKnow
<1>4. RedisIsCurrent
  BY NothingCached DEF Init, RedisIsCurrent
<1>5. PullKeepsUp
  BY NothingCached DEF Init, PullKeepsUp
<1>6. NoRefreshLost
  BY NothingCached DEF Init, NoRefreshLost
<1> QED BY <1>1, <1>2, <1>3, <1>4, <1>5, <1>6 DEF IInv, RefreshInv

-----------------------------------------------------------------------------
(* The rows.                                                               *)

\* A table in which every row is of a slug, a version and a status as before,
\* or is no longer active, has no more active versions of a slug.
LEMMA NoMoreActive ==
    ASSUME rows \in Seq(Row), OneActiveVersion, rows' \in Seq(Row),
           \A k \in DOMAIN rows' : rows'[k].status = "active" =>
               k \in DOMAIN rows /\ rows'[k].slug = rows[k].slug /\ rows[k].status = "active"
    PROVE  OneActiveVersion'
  BY DEF OneActiveVersion, Active, RowsOf

LEMMA RowOf == ASSUME rows \in Seq(Row), NEW k \in DOMAIN rows
               PROVE  rows[k] \in Row /\ k \in 1..Len(rows)
  OBVIOUS

LEMMA RenameRows ==
    ASSUME TypeOK, CallsKnow, OneActiveVersion, NEW r \in Requests, Rename(r)
    PROVE  rows' \in Seq(Row) /\ OneActiveVersion'
<1>1. rows \in Seq(Row)
  BY DEF TypeOK
<1>2. CASE UNCHANGED rows
  BY <1>1, <1>2, NoMoreActive
<1>3. ASSUME NEW k \in DOMAIN rows, Renameable(k, call[r].slug),
             rows' = [rows EXCEPT ![k].slug = call[r].slug]
      PROVE  rows' \in Seq(Row) /\ OneActiveVersion'
  <2>1. PICK t \in Slugs : t = call[r].slug
    BY DEF Rename, CallsKnow
  <2>2. PICK row : row = [rows[k] EXCEPT !.slug = t]
    OBVIOUS
  <2>3. row \in Row /\ row.slug = t /\ row.status = rows[k].status
    BY <1>1, <2>2, RowOf DEF Row
  <2>4. rows' = [rows EXCEPT ![k] = row]
    BY <1>3, <2>1, <2>2
  <2>5. /\ rows' \in Seq(Row) /\ DOMAIN rows' = DOMAIN rows
        /\ rows'[k] = row /\ \A j \in DOMAIN rows : j # k => rows'[j] = rows[j]
    BY <1>1, <2>3, <2>4
  <2>6. \A j \in DOMAIN rows : j # k /\ rows[j].slug = t /\ rows[j].status = "active" => row.status # "active"
    BY <1>3, <2>1, <2>3 DEF Renameable, Active, RowsOf
  <2>7. \A i, j \in DOMAIN rows' : rows'[i].slug = rows'[j].slug /\ rows'[i].status = "active" /\ rows'[j].status = "active" => i = j
    <3> SUFFICES ASSUME NEW i \in DOMAIN rows', NEW j \in DOMAIN rows', i # j,
                        rows'[i].slug = rows'[j].slug, rows'[i].status = "active", rows'[j].status = "active"
                 PROVE FALSE
      OBVIOUS
    <3>1. CASE i = k
      BY <3>1, <2>3, <2>5, <2>6
    <3>2. CASE j = k
      BY <3>2, <2>3, <2>5, <2>6
    <3>3. CASE i # k /\ j # k
      <4>1. \A m, l \in DOMAIN rows : rows[m].slug = rows[l].slug /\ rows[m].status = "active" /\ rows[l].status = "active"
                /\ rows[m].slug \in Slugs => m = l
        BY DEF OneActiveVersion, Active, RowsOf
      <4>2. rows[i] \in Row
        BY <1>1, <2>5, RowOf
      <4> QED BY <3>3, <4>1, <4>2, <2>5 DEF Row
    <3> QED BY <3>1, <3>2, <3>3
  <2> QED BY <2>5, <2>7 DEF OneActiveVersion, Active, RowsOf
<1> QED BY <1>2, <1>3, <1>1 DEF Rename

LEMMA PutRows ==
    ASSUME TypeOK, CallsKnow, OneActiveVersion, NEW r \in Requests, PutRow(r)
    PROVE  rows' \in Seq(Row) /\ OneActiveVersion'
<1>1. rows \in Seq(Row)
  BY DEF TypeOK
<1>2. CASE rows' = rows
  BY <1>1, <1>2, NoMoreActive
<1>3. CASE rows' # rows
  <2>1. PICK row : row = [id |-> call[r].id, slug |-> call[r].slug, version |-> call[r].version, status |-> "draft"]
    OBVIOUS
  <2>2. row \in Row /\ row.status = "draft"
    BY <2>1 DEF PutRow, CallsKnow, Row
  <2>3. rows' = Append(rows, row)
    BY <1>3, <2>1 DEF PutRow
  <2>4. rows' \in Seq(Row)
    BY <1>1, <2>2, <2>3
  <2>5. \A k \in DOMAIN rows' : rows'[k].status = "active" =>
            k \in DOMAIN rows /\ rows'[k].slug = rows[k].slug /\ rows[k].status = "active"
    BY <1>1, <2>2, <2>3, AppendProperties
  <2> QED BY <1>1, <2>4, <2>5, NoMoreActive
<1> QED BY <1>2, <1>3

LEMMA PromoteRows ==
    ASSUME TypeOK, OneActiveVersion, NEW s \in Slugs, Promote(s)
    PROVE  rows' \in Seq(Row) /\ OneActiveVersion'
<1>1. rows \in Seq(Row)
  BY DEF TypeOK
<1>2. PICK k \in Drafts(s) : rows' = [rows EXCEPT ![k].status = "active"]
  BY DEF Promote
<1>3. k \in DOMAIN rows /\ rows[k].slug = s
  BY DEF Drafts, RowsOf
<1>4. PICK row : row = [rows[k] EXCEPT !.status = "active"]
  OBVIOUS
<1>5. row \in Row /\ row.slug = s
  BY <1>1, <1>3, <1>4, RowOf DEF Row
<1>6. rows' = [rows EXCEPT ![k] = row]
  BY <1>2, <1>4
<1>7. /\ rows' \in Seq(Row) /\ DOMAIN rows' = DOMAIN rows
      /\ rows'[k] = row /\ \A j \in DOMAIN rows : j # k => rows'[j] = rows[j]
  BY <1>1, <1>3, <1>5, <1>6
<1>8. \A j \in DOMAIN rows : rows[j].slug = s => rows[j].status # "active"
  BY DEF Promote, Active, RowsOf
<1> SUFFICES ASSUME NEW t \in Slugs, NEW i \in DOMAIN rows', NEW j \in DOMAIN rows',
                    rows'[i].slug = t, rows'[j].slug = t,
                    rows'[i].status = "active", rows'[j].status = "active"
             PROVE  i = j
  BY <1>7 DEF OneActiveVersion, Active, RowsOf
<1>9. CASE i # k /\ j # k
  BY <1>7, <1>9 DEF OneActiveVersion, Active, RowsOf
<1>10. CASE i = k \/ j = k
  BY <1>5, <1>7, <1>8, <1>10
<1> QED BY <1>9, <1>10

LEMMA DeleteRows ==
    ASSUME TypeOK, OneActiveVersion, NEW r \in Requests, NEW n \in Nodes, NEW s \in Slugs, Delete(r, n, s)
    PROVE  rows' \in Seq(Row) /\ OneActiveVersion'
<1>1. rows \in Seq(Row)
  BY DEF TypeOK
<1>2. /\ DOMAIN rows' = DOMAIN rows
      /\ \A k \in DOMAIN rows :
             rows'[k] = IF k \in RowsOf(s) THEN [rows[k] EXCEPT !.status = "deleted"] ELSE rows[k]
  BY DEF Delete
<1>3. \A k \in DOMAIN rows : rows'[k] \in Row /\ rows'[k].slug = rows[k].slug
                             /\ (rows'[k].status = "active" => rows[k].status = "active")
  <2> TAKE k \in DOMAIN rows
  <2>1. rows[k] \in Row
    BY <1>1, RowOf
  <2>2. [rows[k] EXCEPT !.status = "deleted"] \in Row /\ [rows[k] EXCEPT !.status = "deleted"].slug = rows[k].slug
        /\ [rows[k] EXCEPT !.status = "deleted"].status = "deleted"
    BY <2>1 DEF Row
  <2> QED BY <1>2, <2>1, <2>2
<1>4. rows' \in [1..Len(rows) -> Row] /\ Len(rows) \in Nat
  BY <1>1, <1>2, <1>3 DEF Delete
<1>5. rows' \in Seq(Row)
  BY <1>4
<1> QED BY <1>1, <1>2, <1>3, <1>5, NoMoreActive

-----------------------------------------------------------------------------
(* What a step does to the record of a request, a pull or a key.           *)

Knows(c) ==
    /\ c.op \in {"rename", "put", "set"} => c.slug \in Slugs /\ c.version \in Versions /\ c.id \in Nat \ {0}
    /\ c.op = "refresh" => c.node \in Nodes

LEMMA CallsKnowAll == CallsKnow <=> \A r \in Requests : Knows(call[r])
  BY DEF CallsKnow, Knows

LEMMA CallChanges ==
    ASSUME TypeOK, CallsKnow, NEW r \in Requests, NEW c \in Request, Knows(c), call' = [call EXCEPT ![r] = c]
    PROVE  call' \in [Requests -> Request] /\ CallsKnow'
<1>1. call \in [Requests -> Request]
  BY DEF TypeOK, Request
<1>2. call' \in [Requests -> Request] /\ \A q \in Requests : call'[q] = IF q = r THEN c ELSE call[q]
  BY <1>1
<1> QED BY <1>2 DEF CallsKnow, Knows

LEMMA NoCallKnows == NoCall \in Request /\ Knows(NoCall)
  BY NothingCached DEF Knows

LEMMA GetIsId == ASSUME TypeOK, NEW n \in Nodes, NEW s \in Slugs PROVE Get(n, s) \in Nat
<1>1. snapshot[n][s] \in Cached /\ redis[s] \in Cached /\ rows \in Seq(Row)
  BY DEF TypeOK
<1>2. \A f \in Cached : f # None => f.id \in Nat
  BY DEF Cached, Fragment
<1>3. \A k \in Active(s) : rows[k].id \in Nat
  BY <1>1, RowOf DEF Active, RowsOf, Row
<1>4. Active(s) # {} => (CHOOSE k \in Active(s) : TRUE) \in Active(s)
  OBVIOUS
<1> DEFINE chosen == CHOOSE k \in Active(s) : TRUE
<1>5. Active(s) # {} => rows[chosen].id \in Nat
  BY <1>3, <1>4
<1> HIDE DEF chosen
<1>6. Get(n, s) = IF snapshot[n][s] # None THEN snapshot[n][s].id
                  ELSE IF redis[s] # None THEN redis[s].id
                  ELSE IF Active(s) = {} THEN 0 ELSE rows[chosen].id
  BY DEF Get, chosen
<1> QED BY <1>1, <1>2, <1>5, <1>6

\* The requests: each step of one keeps what it knows.
LEMMA CallStep ==
    ASSUME TypeOK, CallsKnow, NEW r \in Requests, NEW c,
           \/ c = NoCall
           \/ call[r].op = "rename" /\ c = [call[r] EXCEPT !.op = "put"]
           \/ call[r].op = "put" /\ c = [call[r] EXCEPT !.op = "set"],
           call' = [call EXCEPT ![r] = c]
    PROVE  call' \in [Requests -> Request] /\ CallsKnow'
<1>1. call[r] \in Request /\ Knows(call[r])
  BY CallsKnowAll DEF TypeOK, Request
<1>2. CASE c = NoCall
  BY <1>2, NoCallKnows, CallChanges
<1>3. CASE \E op \in {"put", "set"} : call[r].op \in {"rename", "put"} /\ c = [call[r] EXCEPT !.op = op]
  <2>1. PICK op \in {"put", "set"} : call[r].op \in {"rename", "put"} /\ c = [call[r] EXCEPT !.op = op]
    BY <1>3
  <2>2. c \in Request /\ c.op = op /\ c.slug = call[r].slug /\ c.version = call[r].version /\ c.id = call[r].id
    BY <1>1, <2>1 DEF Request
  <2>3. Knows(c)
    BY <1>1, <2>1, <2>2 DEF Knows
  <2> QED BY <2>2, <2>3, CallChanges
<1> QED BY <1>2, <1>3

LEMMA UpsertCall ==
    ASSUME TypeOK, CallsKnow, NEW r \in Requests, NEW n \in Nodes, NEW s \in Slugs, NEW t \in Slugs,
           NEW v \in Versions, Upsert(r, n, s, t, v)
    PROVE  call' \in [Requests -> Request] /\ CallsKnow' /\ puts' \in 0 .. MaxPuts
<1>1. PICK op \in {"rename", "put"} : op = IF t # s /\ Get(n, s) # 0 THEN "rename" ELSE "put"
  OBVIOUS
<1>2. PICK c : c = [op |-> op, node |-> n, slug |-> t, version |-> v, id |-> puts + 1, old |-> Get(n, s)]
  OBVIOUS
<1>3. puts + 1 \in Nat \ {0} /\ puts' \in 0 .. MaxPuts
  BY BoundsAssumption DEF TypeOK, Upsert
<1>4. c \in Request
  BY <1>2, <1>3, GetIsId DEF Request
<1>5. Knows(c)
  BY <1>2, <1>3 DEF Knows
<1>6. call' = [call EXCEPT ![r] = c]
  BY <1>1, <1>2 DEF Upsert
<1> QED BY <1>3, <1>4, <1>5, <1>6, CallChanges

LEMMA DeleteCall ==
    ASSUME TypeOK, CallsKnow, NEW r \in Requests, NEW n \in Nodes, NEW s \in Slugs, Delete(r, n, s)
    PROVE  call' \in [Requests -> Request] /\ CallsKnow'
<1>1. PICK c : c = [NoCall EXCEPT !.op = "refresh", !.node = n]
  OBVIOUS
<1>2. c \in Request /\ c.op = "refresh" /\ c.node = n
  BY <1>1, NoCallKnows DEF Request
<1>3. Knows(c)
  BY <1>2 DEF Knows
<1>4. call' = [call EXCEPT ![r] = c]
  BY <1>1 DEF Delete
<1> QED BY <1>2, <1>3, <1>4, CallChanges

LEMMA SetKeyEffect ==
    ASSUME TypeOK, CallsKnow, NEW r \in Requests, SetKey(r)
    PROVE  /\ redis' \in [Slugs -> Cached] /\ sets' \in [Slugs -> Nat]
           /\ \A s \in Slugs : sets'[s] >= sets[s]
           /\ (\A s \in Slugs : WriteOf(redis[s]) = sets[s]) => \A s \in Slugs : WriteOf(redis'[s]) = sets'[s]
<1>1. PICK s \in Slugs : s = call[r].slug
  BY DEF SetKey, CallsKnow
<1>2. sets[s] \in Nat
  BY DEF TypeOK
<1>3. PICK f : f = [id |-> call[r].id, version |-> call[r].version, write |-> sets[s] + 1]
  OBVIOUS
<1>4. f \in Fragment /\ f.write = sets[s] + 1
  BY <1>2, <1>3 DEF SetKey, CallsKnow, Fragment
<1>5. f \in Cached /\ WriteOf(f) = sets[s] + 1
  BY <1>4, NoneAssumption DEF Cached, WriteOf
<1>6. redis' = [redis EXCEPT ![s] = f] /\ sets' = [sets EXCEPT ![s] = sets[s] + 1]
  BY <1>1, <1>3 DEF SetKey
<1>7. /\ redis' \in [Slugs -> Cached] /\ sets' \in [Slugs -> Nat]
      /\ \A t \in Slugs : redis'[t] = (IF t = s THEN f ELSE redis[t])
                          /\ sets'[t] = (IF t = s THEN sets[s] + 1 ELSE sets[t])
  BY <1>2, <1>5, <1>6 DEF TypeOK
<1>8. \A t \in Slugs : sets'[t] >= sets[t]
  <2> TAKE t \in Slugs
  <2>1. sets[t] \in Nat
    BY DEF TypeOK
  <2> QED BY <2>1, <1>2, <1>7
<1> QED BY <1>5, <1>7, <1>8

\* What follows when a step leaves the one part or the other alone.
LEMMA RefreshAlone ==
    ASSUME RefreshInv, UNCHANGED <<redis, snapshot, pending, poll, sets, requested>>
    PROVE  RefreshInv'
  BY DEF RefreshInv, RedisIsCurrent, PullKeepsUp, NoRefreshLost

LEMMA RequestsAlone ==
    ASSUME TypeOK, CallsKnow, OneActiveVersion, UNCHANGED <<rows, call, puts>>
    PROVE  /\ rows' \in Seq(Row) /\ call' \in [Requests -> Request] /\ puts' \in 0 .. MaxPuts
           /\ CallsKnow' /\ OneActiveVersion'
  BY DEF TypeOK, Request, CallsKnow, OneActiveVersion, Active, RowsOf

LEMMA FailuresStep ==
    ASSUME TypeOK, failures' = failures \/ (failures < MaxFailures /\ failures' = failures + 1)
    PROVE  failures' \in 0 .. MaxFailures
  BY BoundsAssumption DEF TypeOK

LEMMA ServeStep ==
    ASSUME IInv, UNCHANGED localState, UNCHANGED <<redis, pending, sets>>,
           rows' \in Seq(Row), OneActiveVersion', call' \in [Requests -> Request], CallsKnow',
           puts' \in 0 .. MaxPuts, failures' \in 0 .. MaxFailures
    PROVE  IInv'
<1>1. TypeOK'
  BY DEF IInv, TypeOK, Request, localState
<1>2. RefreshInv'
  BY RefreshAlone DEF IInv, localState
<1> QED BY <1>1, <1>2 DEF IInv

-----------------------------------------------------------------------------
(* The refresh protocol.                                                   *)

\* The number of a write in the snapshot or in a pull of a node.
LEMMA WritesAreNumbers ==
    ASSUME TypeOK
    PROVE  \A n \in Nodes, s \in Slugs :
               /\ WriteOf(snapshot[n][s]) \in Nat /\ WriteOf(poll[n].read[s]) \in Nat
               /\ WriteOf(redis[s]) \in Nat /\ sets[s] \in Nat /\ requested[n][s] \in Nat
<1> TAKE n \in Nodes, s \in Slugs
<1>1. snapshot[n][s] \in Cached /\ poll[n].read[s] \in Cached /\ redis[s] \in Cached
  BY DEF TypeOK
<1>2. sets[s] \in Nat /\ requested[n][s] \in Nat
  BY DEF TypeOK
<1> QED BY <1>1, <1>2, WriteOfNat

LEMMA PollChanges ==
    ASSUME TypeOK, NEW n \in Nodes, NEW next \in Pull, poll' = [poll EXCEPT ![n] = next]
    PROVE  poll' \in [Nodes -> Pull] /\ \A m \in Nodes : poll'[m] = IF m = n THEN next ELSE poll[m]
<1>1. poll \in [Nodes -> Pull]
  BY DEF TypeOK, Pull
<1> QED BY <1>1

\* A Refresh puts a token into the channel, whatever else is under way.
LEMMA RefreshEffect ==
    ASSUME TypeOK, RefreshInv, NEW n \in Nodes, Refresh(n), UNCHANGED <<redis, snapshot, poll, sets>>
    PROVE  /\ pending' \in [Nodes -> BOOLEAN] /\ requested' \in [Nodes -> [Slugs -> Nat]]
           /\ RefreshInv'
<1>1. /\ pending' \in [Nodes -> BOOLEAN] /\ requested' \in [Nodes -> [Slugs -> Nat]]
      /\ pending'[n] = TRUE /\ requested'[n] = sets
      /\ \A m \in Nodes : m # n => pending'[m] = pending[m] /\ requested'[m] = requested[m]
  BY DEF Refresh, TypeOK
<1>2. RedisIsCurrent'
  BY <1>1, WritesAreNumbers DEF RefreshInv, RedisIsCurrent
<1>3. PullKeepsUp'
  BY <1>1 DEF RefreshInv, PullKeepsUp
<1>4. NoRefreshLost'
  BY <1>1 DEF RefreshInv, NoRefreshLost
<1> QED BY <1>1, <1>2, <1>3, <1>4 DEF RefreshInv

\* A step of a pull that is at "keys" or "get" afterwards: the node is not back at its select.
LEMMA PullStep ==
    ASSUME TypeOK, RefreshInv, NEW n \in Nodes, NEW next \in Pull, poll' = [poll EXCEPT ![n] = next],
           UNCHANGED <<redis, snapshot, sets, requested>>,
           pending' \in [Nodes -> BOOLEAN], \A m \in Nodes : m # n => pending'[m] = pending[m],
           next.at # "wait",
           next.at # "get" => next.todo = {},
           next.at = "get" /\ ~pending'[n] =>
               \A s \in Slugs \ next.todo : WriteOf(next.read[s]) >= requested[n][s]
    PROVE  poll' \in [Nodes -> Pull] /\ RefreshInv'
<1>1. poll' \in [Nodes -> Pull] /\ \A m \in Nodes : poll'[m] = IF m = n THEN next ELSE poll[m]
  BY PollChanges
<1>2. RedisIsCurrent'
  BY DEF RefreshInv, RedisIsCurrent
<1>3. PullKeepsUp'
  BY <1>1 DEF RefreshInv, PullKeepsUp
<1>4. NoRefreshLost'
  BY <1>1 DEF RefreshInv, NoRefreshLost
<1> QED BY <1>1, <1>2, <1>3, <1>4 DEF RefreshInv

\* The pull of a node, at whose end its snapshot is replaced.
LEMMA BeginPull ==
    ASSUME TypeOK, RefreshInv, NEW n \in Nodes, Tick(n) \/ TakeToken(n)
    PROVE  poll' \in [Nodes -> Pull] /\ pending' \in [Nodes -> BOOLEAN] /\ RefreshInv'
<1>1. PICK next : next = [Waiting EXCEPT !.at = "keys"]
  OBVIOUS
<1>2. next \in Pull /\ next.at = "keys" /\ next.todo = {}
  BY <1>1, NothingCached DEF Pull
<1>3. poll' = [poll EXCEPT ![n] = next]
  BY <1>1 DEF Tick, TakeToken, GoPoll
<1>4. pending' \in [Nodes -> BOOLEAN] /\ \A m \in Nodes : m # n => pending'[m] = pending[m]
  BY DEF Tick, TakeToken, TypeOK
<1>5. UNCHANGED <<redis, snapshot, sets, requested>>
  BY DEF Tick, TakeToken, GoPoll
<1> QED BY <1>2, <1>3, <1>4, <1>5, PullStep

\* A key that KEYS does not list has never been written, and none has asked for it.
LEMMA ReadKeysStep ==
    ASSUME TypeOK, RefreshInv, NEW n \in Nodes, ReadKeys(n)
    PROVE  poll' \in [Nodes -> Pull] /\ RefreshInv'
<1> DEFINE listed == {s \in Slugs : redis[s] # None}
<1>1. PICK next : next = [at |-> "get", todo |-> listed, read |-> Nothing]
  OBVIOUS
<1>2. next \in Pull /\ next.at = "get" /\ next.todo = listed /\ next.read = Nothing
  BY <1>1, NothingCached DEF Pull
<1>3. \A s \in Slugs \ listed : WriteOf(Nothing[s]) >= requested[n][s]
  <2> TAKE s \in Slugs \ listed
  <2>1. WriteOf(redis[s]) = 0
    BY DEF WriteOf
  <2>2. requested[n][s] <= 0 /\ requested[n][s] \in Nat
    BY <2>1, WritesAreNumbers DEF RefreshInv, RedisIsCurrent
  <2> QED BY <2>2, NothingCached
<1> HIDE DEF listed
<1>4. poll' = [poll EXCEPT ![n] = next]
  BY <1>1 DEF ReadKeys, GoPoll, listed
<1>5. UNCHANGED <<redis, snapshot, sets, requested, pending>> /\ pending' \in [Nodes -> BOOLEAN]
  BY DEF ReadKeys, GoPoll, TypeOK
<1> QED BY <1>2, <1>3, <1>4, <1>5, PullStep

\* What is read is the last write.
LEMMA ReadKeyStep ==
    ASSUME TypeOK, RefreshInv, NEW n \in Nodes, NEW s \in Slugs, ReadKey(n, s)
    PROVE  poll' \in [Nodes -> Pull] /\ RefreshInv'
<1>1. poll[n] \in Pull /\ redis[s] \in Cached /\ s \in poll[n].todo
  BY DEF TypeOK, Pull, ReadKey
<1>2. PICK next : next = [poll[n] EXCEPT !.todo = @ \ {s}, !.read[s] = redis[s]]
  OBVIOUS
<1>3. PICK read : read = [poll[n].read EXCEPT ![s] = redis[s]]
  OBVIOUS
<1>4. read \in [Slugs -> Cached] /\ \A t \in Slugs : read[t] = IF t = s THEN redis[s] ELSE poll[n].read[t]
  BY <1>1, <1>3 DEF Pull
<1>5. next = [poll[n] EXCEPT !.todo = poll[n].todo \ {s}, !.read = read]
  BY <1>1, <1>2, <1>3 DEF Pull
<1>6. next \in Pull /\ next.at = poll[n].at /\ next.todo = poll[n].todo \ {s} /\ next.read = read
  BY <1>1, <1>4, <1>5 DEF Pull
<1>7. poll[n].at = "get"
  BY <1>1 DEF RefreshInv, PullKeepsUp
<1>8. ASSUME ~pending[n], NEW t \in Slugs \ next.todo
      PROVE  WriteOf(read[t]) >= requested[n][t]
  <2>1. CASE t = s
    BY <2>1, <1>4, WritesAreNumbers DEF RefreshInv, RedisIsCurrent
  <2>2. CASE t # s
    BY <2>2, <1>4, <1>6, <1>7, <1>8 DEF RefreshInv, PullKeepsUp
  <2> QED BY <2>1, <2>2
<1>9. poll' = [poll EXCEPT ![n] = next]
  BY <1>2 DEF ReadKey, GoPoll
<1>10. UNCHANGED <<redis, snapshot, sets, requested, pending>> /\ pending' \in [Nodes -> BOOLEAN]
  BY DEF ReadKey, GoPoll, TypeOK
<1> QED BY <1>6, <1>7, <1>8, <1>9, <1>10, PullStep

LEMMA InstallStep ==
    ASSUME TypeOK, RefreshInv, NEW n \in Nodes, Install(n)
    PROVE  poll' \in [Nodes -> Pull] /\ snapshot' \in [Nodes -> [Slugs -> Cached]] /\ RefreshInv'
<1>1. poll[n] \in Pull /\ poll[n].at = "get" /\ poll[n].todo = {}
  BY DEF TypeOK, Pull, Install
<1>2. poll' \in [Nodes -> Pull] /\ \A m \in Nodes : poll'[m] = IF m = n THEN Waiting ELSE poll[m]
  BY NothingCached, PollChanges DEF Install, GoPoll
<1>3. /\ snapshot' \in [Nodes -> [Slugs -> Cached]]
      /\ \A m \in Nodes : snapshot'[m] = IF m = n THEN poll[n].read ELSE snapshot[m]
  BY <1>1 DEF Install, TypeOK, Pull
<1>4. UNCHANGED <<redis, sets, requested, pending>>
  BY DEF Install, GoPoll
<1>5. RedisIsCurrent'
  BY <1>4 DEF RefreshInv, RedisIsCurrent
<1>6. PullKeepsUp'
  BY <1>2, <1>4, NothingCached DEF RefreshInv, PullKeepsUp
<1>7. ~pending[n] => \A s \in Slugs : WriteOf(poll[n].read[s]) >= requested[n][s]
  BY <1>1 DEF RefreshInv, PullKeepsUp
<1>8. NoRefreshLost'
  BY <1>2, <1>3, <1>4, <1>7 DEF RefreshInv, NoRefreshLost
<1> QED BY <1>2, <1>3, <1>5, <1>6, <1>8 DEF RefreshInv

\* After a failed KEYS or GET nothing is owed of what was not read.
LEMMA ReadKeysFailsStep ==
    ASSUME TypeOK, RefreshInv, NEW n \in Nodes, ReadKeysFails(n)
    PROVE  poll' \in [Nodes -> Pull] /\ requested' \in [Nodes -> [Slugs -> Nat]] /\ RefreshInv'
<1>1. poll' \in [Nodes -> Pull] /\ \A m \in Nodes : poll'[m] = IF m = n THEN Waiting ELSE poll[m]
  BY NothingCached, PollChanges DEF ReadKeysFails, GoPoll
<1>2. /\ requested' \in [Nodes -> [Slugs -> Nat]]
      /\ \A m \in Nodes : m # n => requested'[m] = requested[m]
      /\ \A s \in Slugs : requested'[n][s] = 0
  BY DEF ReadKeysFails, TypeOK
<1>3. UNCHANGED <<redis, sets, snapshot, pending>>
  BY DEF ReadKeysFails, GoPoll
<1>4. RedisIsCurrent'
  BY <1>2, <1>3, WritesAreNumbers DEF RefreshInv, RedisIsCurrent
<1>5. PullKeepsUp'
  BY <1>1, <1>2, <1>3, NothingCached DEF RefreshInv, PullKeepsUp
<1>6. NoRefreshLost'
  BY <1>1, <1>2, <1>3, WritesAreNumbers DEF RefreshInv, NoRefreshLost
<1> QED BY <1>1, <1>2, <1>4, <1>5, <1>6 DEF RefreshInv

LEMMA ReadKeyFailsStep ==
    ASSUME TypeOK, RefreshInv, NEW n \in Nodes, NEW s \in Slugs, ReadKeyFails(n, s)
    PROVE  poll' \in [Nodes -> Pull] /\ requested' \in [Nodes -> [Slugs -> Nat]] /\ RefreshInv'
<1>1. poll[n] \in Pull /\ s \in poll[n].todo
  BY DEF TypeOK, Pull, ReadKeyFails
<1>2. PICK next : next = [poll[n] EXCEPT !.todo = @ \ {s}]
  OBVIOUS
<1>3. next \in Pull /\ next.at = poll[n].at /\ next.todo = poll[n].todo \ {s} /\ next.read = poll[n].read
  BY <1>1, <1>2 DEF Pull
<1>4. poll[n].at = "get"
  BY <1>1 DEF RefreshInv, PullKeepsUp
<1>5. poll' \in [Nodes -> Pull] /\ \A m \in Nodes : poll'[m] = IF m = n THEN next ELSE poll[m]
  BY <1>2, <1>3, PollChanges DEF ReadKeyFails, GoPoll
<1>6. PICK asked : asked = [requested[n] EXCEPT ![s] = 0]
  OBVIOUS
<1>7. asked \in [Slugs -> Nat] /\ \A t \in Slugs : asked[t] = IF t = s THEN 0 ELSE requested[n][t]
  BY <1>6 DEF TypeOK
<1>8. requested' = [requested EXCEPT ![n] = asked]
  BY <1>6 DEF ReadKeyFails, TypeOK
<1>9. /\ requested' \in [Nodes -> [Slugs -> Nat]]
      /\ \A m \in Nodes : requested'[m] = IF m = n THEN asked ELSE requested[m]
  BY <1>7, <1>8 DEF TypeOK
<1>10. UNCHANGED <<redis, sets, snapshot, pending>>
  BY DEF ReadKeyFails, GoPoll
<1>11. RedisIsCurrent'
  BY <1>7, <1>9, <1>10, WritesAreNumbers DEF RefreshInv, RedisIsCurrent
<1>12. ASSUME ~pending[n], NEW t \in Slugs \ next.todo PROVE WriteOf(next.read[t]) >= asked[t]
  <2>1. CASE t = s
    BY <2>1, <1>3, <1>7, WritesAreNumbers
  <2>2. CASE t # s
    BY <2>2, <1>3, <1>4, <1>7, <1>12 DEF RefreshInv, PullKeepsUp
  <2> QED BY <2>1, <2>2
<1>13. PullKeepsUp'
  BY <1>3, <1>4, <1>5, <1>9, <1>10, <1>12 DEF RefreshInv, PullKeepsUp
<1>14. NoRefreshLost'
  BY <1>3, <1>4, <1>5, <1>9, <1>10 DEF RefreshInv, NoRefreshLost
<1> QED BY <1>5, <1>9, <1>11, <1>13, <1>14 DEF RefreshInv

LEMMA RestartStep ==
    ASSUME TypeOK, RefreshInv, CallsKnow, NEW n \in Nodes, Restart(n)
    PROVE  /\ poll' \in [Nodes -> Pull] /\ requested' \in [Nodes -> [Slugs -> Nat]]
           /\ snapshot' \in [Nodes -> [Slugs -> Cached]] /\ pending' \in [Nodes -> BOOLEAN]
           /\ call' \in [Requests -> Request] /\ RefreshInv' /\ CallsKnow'
<1>1. poll' \in [Nodes -> Pull] /\ \A m \in Nodes : poll'[m] = IF m = n THEN Waiting ELSE poll[m]
  BY NothingCached, PollChanges DEF Restart
<1>2. /\ requested' \in [Nodes -> [Slugs -> Nat]]
      /\ \A m \in Nodes : m # n => requested'[m] = requested[m]
      /\ \A s \in Slugs : requested'[n][s] = 0
  BY DEF Restart, TypeOK
<1>3. /\ snapshot' \in [Nodes -> [Slugs -> Cached]] /\ pending' \in [Nodes -> BOOLEAN]
      /\ \A m \in Nodes : m # n => snapshot'[m] = snapshot[m] /\ pending'[m] = pending[m]
      /\ snapshot'[n] = Nothing
  BY NothingCached DEF Restart, TypeOK
<1>4. call' \in [Requests -> Request] /\ CallsKnow'
  <2>1. \A r \in Requests : call'[r] = NoCall \/ call'[r] = call[r]
    BY DEF Restart
  <2>2. call' \in [Requests -> Request]
    BY NothingCached DEF Restart, TypeOK, Request
  <2> QED BY <2>1, <2>2, NothingCached DEF CallsKnow
<1>5. UNCHANGED <<redis, sets>>
  BY DEF Restart
<1>6. RedisIsCurrent'
  BY <1>2, <1>5, WritesAreNumbers DEF RefreshInv, RedisIsCurrent
<1>7. PullKeepsUp'
  BY <1>1, <1>2, <1>3, NothingCached DEF RefreshInv, PullKeepsUp
<1>8. NoRefreshLost'
  BY <1>1, <1>2, <1>3, NothingCached DEF RefreshInv, NoRefreshLost
<1> QED BY <1>1, <1>2, <1>3, <1>4, <1>6, <1>7, <1>8 DEF RefreshInv

-----------------------------------------------------------------------------
LEMMA RequestStep ==
    ASSUME IInv, NEW r \in Requests,
           \/ \E n \in Nodes, s \in Slugs :
                  Delete(r, n, s) \/ \E t \in Slugs, v \in Versions : Upsert(r, n, s, t, v)
           \/ Serve(r) \/ SetKeyFails(r)
    PROVE  IInv'
<1> USE DEF IInv
<1>1. ASSUME NEW n \in Nodes, NEW s \in Slugs, Delete(r, n, s) PROVE IInv'
  <2>1. failures' \in 0 .. MaxFailures /\ puts' \in 0 .. MaxPuts
    BY <1>1 DEF Delete, TypeOK
  <2>2. UNCHANGED localState /\ UNCHANGED <<redis, pending, sets>>
    BY <1>1 DEF Delete
  <2> QED BY <1>1, <2>1, <2>2, DeleteRows, DeleteCall, ServeStep
<1>2. ASSUME NEW n \in Nodes, NEW s \in Slugs, NEW t \in Slugs, NEW v \in Versions, Upsert(r, n, s, t, v)
      PROVE  IInv'
  <2>1. failures' \in 0 .. MaxFailures /\ rows' = rows /\ rows' \in Seq(Row)
    BY <1>2 DEF Upsert, TypeOK
  <2>2. UNCHANGED localState /\ UNCHANGED <<redis, pending, sets>>
    BY <1>2 DEF Upsert
  <2>3. OneActiveVersion'
    BY <2>1 DEF OneActiveVersion, Active, RowsOf
  <2> QED BY <1>2, <2>1, <2>2, <2>3, UpsertCall, ServeStep
<1>3. CASE Rename(r)
  <2>1. failures' \in 0 .. MaxFailures /\ puts' \in 0 .. MaxPuts
    BY <1>3 DEF Rename, TypeOK
  <2>2. UNCHANGED localState /\ UNCHANGED <<redis, pending, sets>>
    BY <1>3 DEF Rename
  <2>3. PICK c : /\ call' = [call EXCEPT ![r] = c]
                 /\ c = NoCall \/ (call[r].op = "rename" /\ c = [call[r] EXCEPT !.op = "put"])
    BY <1>3 DEF Rename, TypeOK
  <2> QED BY <1>3, <2>1, <2>2, <2>3, RenameRows, CallStep, ServeStep
<1>4. CASE PutRow(r)
  <2>1. failures' \in 0 .. MaxFailures /\ puts' \in 0 .. MaxPuts
    BY <1>4 DEF PutRow, TypeOK
  <2>2. UNCHANGED localState /\ UNCHANGED <<redis, pending, sets>>
    BY <1>4 DEF PutRow
  <2>3. PICK c : call' = [call EXCEPT ![r] = c] /\ call[r].op = "put" /\ c = [call[r] EXCEPT !.op = "set"]
    BY <1>4 DEF PutRow, TypeOK
  <2> QED BY <1>4, <2>1, <2>2, <2>3, PutRows, CallStep, ServeStep
<1>5. CASE SetKey(r)
  <2>1. call' \in [Requests -> Request] /\ CallsKnow'
    BY <1>5, CallStep DEF SetKey
  <2>2. redis' \in [Slugs -> Cached] /\ sets' \in [Slugs -> Nat]
    BY <1>5, SetKeyEffect
  <2>3. UNCHANGED <<rows, pending, puts, failures, snapshot, poll, requested>>
    BY <1>5 DEF SetKey, localState
  <2>4. TypeOK'
    BY <2>1, <2>2, <2>3 DEF TypeOK, Request
  <2>5. RedisIsCurrent'
    <3>1. \A s \in Slugs : WriteOf(redis'[s]) = sets'[s] /\ sets'[s] >= sets[s] /\ sets'[s] \in Nat
      BY <1>5, <2>2, SetKeyEffect DEF RefreshInv, RedisIsCurrent
    <3>2. \A n \in Nodes, s \in Slugs : requested[n][s] <= sets'[s]
      BY <3>1, WritesAreNumbers DEF RefreshInv, RedisIsCurrent
    <3> QED BY <2>3, <3>1, <3>2 DEF RedisIsCurrent, WriteOf
  <2>6. PullKeepsUp' /\ NoRefreshLost' /\ OneActiveVersion'
    BY <2>3 DEF RefreshInv, PullKeepsUp, NoRefreshLost, OneActiveVersion, Active, RowsOf
  <2> QED BY <2>1, <2>4, <2>5, <2>6 DEF RefreshInv
<1>6. CASE DeleteRefresh(r)
  <2>1. call[r].node \in Nodes
    BY <1>6 DEF DeleteRefresh, CallsKnow
  <2>2. call' \in [Requests -> Request] /\ CallsKnow'
    BY <1>6, CallStep DEF DeleteRefresh
  <2>3. UNCHANGED <<rows, redis, puts, sets, failures, snapshot, poll>>
    BY <1>6 DEF DeleteRefresh
  <2>4. /\ pending' \in [Nodes -> BOOLEAN] /\ requested' \in [Nodes -> [Slugs -> Nat]] /\ RefreshInv'
    BY <1>6, <2>1, <2>3, RefreshEffect DEF DeleteRefresh
  <2>5. TypeOK'
    BY <2>2, <2>3, <2>4 DEF TypeOK, Request
  <2>6. OneActiveVersion'
    BY <2>3 DEF OneActiveVersion, Active, RowsOf
  <2> QED BY <2>2, <2>4, <2>5, <2>6
<1>7. CASE SetKeyFails(r)
  <2>1. failures' \in 0 .. MaxFailures /\ puts' \in 0 .. MaxPuts
    BY <1>7, FailuresStep DEF SetKeyFails, TypeOK
  <2>2. UNCHANGED localState /\ UNCHANGED <<redis, pending, sets>> /\ rows' = rows /\ rows' \in Seq(Row)
    BY <1>7 DEF SetKeyFails, TypeOK
  <2>3. OneActiveVersion'
    BY <2>2 DEF OneActiveVersion, Active, RowsOf
  <2>4. call' \in [Requests -> Request] /\ CallsKnow'
    BY <1>7, CallStep DEF SetKeyFails
  <2> QED BY <2>1, <2>2, <2>3, <2>4, ServeStep
<1> QED BY <1>1, <1>2, <1>3, <1>4, <1>5, <1>6, <1>7 DEF Serve

LEMMA NodeStep ==
    ASSUME IInv, NEW n \in Nodes,
           \/ RequestRefresh(n) \/ Restart(n) \/ Poll(n) \/ ReadKeysFails(n)
           \/ \E s \in Slugs : ReadKeyFails(n, s)
    PROVE  IInv'
<1> USE DEF IInv
<1>1. UNCHANGED <<rows, redis, puts, sets>>
  BY DEF RequestRefresh, Restart, Poll, Tick, TakeToken, ReadKeys, ReadKey, Install, ReadKeysFails,
         ReadKeyFails, GoPoll
<1>2. failures' \in 0 .. MaxFailures
  BY FailuresStep DEF RequestRefresh, Restart, Poll, Tick, TakeToken, ReadKeys, ReadKey, Install,
         ReadKeysFails, ReadKeyFails, GoPoll
<1>3. call' \in [Requests -> Request] /\ CallsKnow'
  <2>1. CASE Restart(n)
    BY <2>1, RestartStep
  <2>2. CASE ~Restart(n)
    <3>1. call' = call
      BY <2>2 DEF RequestRefresh, Poll, Tick, TakeToken, ReadKeys, ReadKey, Install, ReadKeysFails,
             ReadKeyFails, GoPoll
    <3> QED BY <3>1 DEF TypeOK, Request, CallsKnow
  <2> QED BY <2>1, <2>2
<1>4. OneActiveVersion'
  BY <1>1 DEF OneActiveVersion, Active, RowsOf
<1>5. /\ poll' \in [Nodes -> Pull] /\ requested' \in [Nodes -> [Slugs -> Nat]]
      /\ snapshot' \in [Nodes -> [Slugs -> Cached]] /\ pending' \in [Nodes -> BOOLEAN]
      /\ RefreshInv'
  <2>1. /\ poll \in [Nodes -> Pull] /\ requested \in [Nodes -> [Slugs -> Nat]]
        /\ snapshot \in [Nodes -> [Slugs -> Cached]] /\ pending \in [Nodes -> BOOLEAN]
    BY DEF TypeOK, Pull
  <2>2. CASE RequestRefresh(n)
    BY <2>1, <2>2, RefreshEffect DEF RequestRefresh
  <2>3. CASE Restart(n)
    BY <2>3, RestartStep
  <2>4. CASE Tick(n) \/ TakeToken(n)
    BY <2>1, <2>4, BeginPull DEF Tick, TakeToken
  <2>5. CASE ReadKeys(n)
    BY <2>1, <2>5, ReadKeysStep DEF ReadKeys
  <2>6. CASE \E s \in Slugs : ReadKey(n, s)
    BY <2>1, <2>6, ReadKeyStep DEF ReadKey
  <2>7. CASE Install(n)
    BY <2>1, <2>7, InstallStep DEF Install
  <2>8. CASE ReadKeysFails(n)
    BY <2>1, <2>8, ReadKeysFailsStep DEF ReadKeysFails
  <2>9. CASE \E s \in Slugs : ReadKeyFails(n, s)
    BY <2>1, <2>9, ReadKeyFailsStep DEF ReadKeyFails
  <2> QED BY <2>2, <2>3, <2>4, <2>5, <2>6, <2>7, <2>8, <2>9 DEF Poll
<1>6. TypeOK'
  BY <1>1, <1>2, <1>3, <1>5 DEF TypeOK, Request, Pull
<1> QED BY <1>3, <1>4, <1>5, <1>6

LEMMA PromoteStep == ASSUME IInv, NEW s \in Slugs, Promote(s) PROVE IInv'
<1>1. failures' \in 0 .. MaxFailures /\ puts' \in 0 .. MaxPuts /\ call' \in [Requests -> Request]
  BY DEF Promote, TypeOK, IInv, Request
<1>2. UNCHANGED localState /\ UNCHANGED <<redis, pending, sets>>
  BY DEF Promote
<1>3. CallsKnow'
  BY DEF Promote, CallsKnow, IInv
<1>4. rows' \in Seq(Row) /\ OneActiveVersion'
  BY PromoteRows DEF IInv
<1> QED BY <1>1, <1>2, <1>3, <1>4, ServeStep

\* The inductive invariant of PromptCache: Redis holds the last write of every key, and a pull
\* during which no token arrived has what its node asked for, of the keys it is done with.
THEOREM Invariance == Spec => []IInv
<1>1. IInv /\ [Next]_vars => IInv'
  <2> SUFFICES ASSUME IInv, [Next]_vars PROVE IInv'
    OBVIOUS
  <2>1. CASE Next
    BY <2>1, RequestStep, NodeStep, PromoteStep DEF Next
  <2>2. CASE UNCHANGED vars
    BY <2>2 DEF vars, IInv, TypeOK, CallsKnow, RefreshInv, RedisIsCurrent, PullKeepsUp, NoRefreshLost,
                OneActiveVersion, Active, RowsOf, WriteOf
  <2> QED BY <2>1, <2>2
<1> QED BY <1>1, InitInv, PTL DEF Spec

\* The variables have their types, whatever the number of nodes and requests.
THEOREM TypeCorrect == Spec => []TypeOK
<1>1. IInv => TypeOK
  BY DEF IInv
<1> QED BY <1>1, Invariance, PTL

\* PromptCache.Refresh may drop its token, and be called in the middle of doRefresh: a node whose
\* poll goroutine waits without a token has every write made before it was last asked to refresh.
THEOREM RefreshesArrive == Spec => []NoRefreshLost
<1>1. IInv => NoRefreshLost
  BY DEF IInv, RefreshInv
<1> QED BY <1>1, Invariance, PTL

\* Whatever handlers rename, put, promote and delete at once, PostgresStore never has two active
\* versions of a slug.
THEOREM OneVersionServes == Spec => []OneActiveVersion
<1>1. IInv => OneActiveVersion
  BY DEF IInv
<1> QED BY <1>1, Invariance, PTL
=============================================================================
