--------------------------- MODULE MessageStores ---------------------------
(***************************************************************************)
(* The message history of one thread in each of the five message stores,   *)
(* with the requests that use it: the invoke handler, which appends a      *)
(* question and its answer, callers that append a message with media, and  *)
(* readers of a window.  Processes share the database, bucket or Redis and *)
(* restart; the store a process holds is new then.                         *)
(*                                                                         *)
(* MemoryStore keeps the messages in its process (Home).  Redis and        *)
(* PostgreSQL append atomically.  The hybrid store puts a message with     *)
(* media in an object, named by a counter of the process, and a pointer to *)
(* it in the row.  The MinIO store puts every message in an object, named  *)
(* by a counter of the store, and has no rows.                             *)
(***************************************************************************)
EXTENDS Naturals, FiniteSets, Sequences, FiniteSetsExt

CONSTANTS Kinds,        \* the stores to consider: memory, list (Redis, PostgreSQL), hybrid, minio
          Processes, Requests, MaxRequests, MaxFaults,
          Parts,        \* what the messages with media hold: media, or hollow (nothing)
          Budgets,      \* maxTokens of the readers
          TakeTurns     \* whether appends that name objects take turns, after the Restore of a new store

VARIABLES kind,
          rows,         \* sequence of [msg, key]; a row with a key points to an object
          objs,         \* key -> message, for the keys in use
          seq,          \* process -> s.seq (MinIO), globalSeq (hybrid)
          requests,     \* request -> [pc, process, todo, msg, key, loaded, before, snapshot, at, got, budget]
          begun, faults,
          acked,        \* the appends that returned nil: [msg, before]
          current,      \* processes whose counter accounts for every object
          careless      \* objects were named concurrently, or by a counter that did not account for all

storeVars == <<kind, rows, objs, seq, requests, begun, faults, acked, current, careless>>

-----------------------------------------------------------------------------
NoRequest == [pc |-> "idle", process |-> {}, todo |-> <<>>, msg |-> <<>>, key |-> 0, loaded |-> 0,
              before |-> {}, snapshot |-> <<>>, at |-> 1, got |-> <<>>, budget |-> 0]

Init ==
    /\ kind \in Kinds /\ rows = <<>> /\ objs = <<>>
    /\ seq = [p \in Processes |-> 0]
    /\ requests = [r \in Requests |-> NoRequest]
    /\ begun = 0 /\ faults = 0 /\ acked = {}
    /\ current = Processes /\ careless = FALSE

Home == CHOOSE p \in Processes : TRUE

Message(n, role, part) == [n |-> n, role |-> role, part |-> part]

\* The estimate of a token counter: answers are longer than questions.
Cost(m) == IF m.role = "assistant" THEN 2 ELSE 1
HasMedia(m) == m.part # "text"

\* marshal and unmarshal: media without a URL and without a byte is not media any more when read.
Unmarshalled(m) == IF m.part = "hollow" THEN [m EXCEPT !.part = "none"] ELSE m

Keys == DOMAIN objs
SortedKeys == [i \in 1..Cardinality(Keys) |-> CHOOSE k \in Keys : Cardinality({j \in Keys : j <= k}) = i]
Fetched(row) == IF row.key = 0 THEN row.msg ELSE objs[row.key]

\* What an undisturbed read of everything returns now.
History ==
    IF kind = "minio" THEN [i \in DOMAIN SortedKeys |-> objs[SortedKeys[i]]]
    ELSE [i \in DOMAIN rows |-> Fetched(rows[i])]

\* Failed and unanswered requests and restarts are bounded together.
Faulty(b) == IF b THEN faults < MaxFaults /\ faults' = faults + 1 ELSE faults' = faults

Becomes(r, q) == requests' = [requests EXCEPT ![r] = q]
Appending(r) == requests[r].pc \in {"bump", "bumped", "name", "put", "insert"}

-----------------------------------------------------------------------------
(* Requests.                                                               *)

\* Which goroutine serves a request does not matter, nor which process serves a read.
Start(r, q) ==
    /\ requests[r].pc = "idle"
    /\ begun < MaxRequests /\ begun' = begun + 1
    /\ r = CHOOSE s \in Requests : requests[s].pc = "idle"
    /\ \E p \in IF kind = "memory" \/ q.pc = "list" THEN {Home} ELSE Processes :
         Becomes(r, [q EXCEPT !.process = {p}])
    /\ UNCHANGED <<kind, rows, objs, seq, faults, acked, current, careless>>

\* handleWorkflowInvoke after a successful run; another caller's message with media.
Invoke(r) ==
    Start(r, [NoRequest EXCEPT !.pc = "append", !.todo = <<Message(begun, "user", "text"), Message(begun, "assistant", "text")>>])
AppendMedia(r) ==
    \E part \in Parts :
        Start(r, [NoRequest EXCEPT !.pc = "append", !.todo = <<Message(begun, "user", part)>>])

\* handleGetThreadMessages has no budget, WindowFor has one.
Read(r) == \E b \in Budgets : Start(r, [NoRequest EXCEPT !.pc = "list", !.budget = b])

\* Append begins: which messages it must come after, and where it goes.
BeginAppend(r) ==
    /\ requests[r].pc = "append"
    /\ LET m == Head(requests[r].todo)
       IN Becomes(r, [requests[r] EXCEPT !.msg = m, !.todo = Tail(@),
                        !.before = {a.msg : a \in acked},
                        !.pc = IF kind = "minio" THEN "bump"
                               ELSE IF kind = "hybrid" /\ HasMedia(m) THEN "name" ELSE "insert"])
    /\ UNCHANGED <<kind, rows, objs, seq, begun, faults, acked, current, careless>>

\* A reader has its answer.
EndRequest(r) ==
    /\ requests[r].pc = "answered"
    /\ Becomes(r, NoRequest)
    /\ UNCHANGED <<kind, rows, objs, seq, begun, faults, acked, current, careless>>

\* After an Append, successful or not: the handler ignores its error.
Continued(q) == IF q.todo = <<>> THEN NoRequest 
                ELSE [NoRequest EXCEPT !.pc = "append", !.process = q.process, !.todo = q.todo]

Process(r) == CHOOSE p \in requests[r].process : TRUE

\* Who may name an object without clobbering another's: nobody else is about to name or to put one
\* (in another process, for the hybrid store, whose counter is atomic), and the counter is current.
Alone(r) ==
    \A s \in Requests \ {r} :
        requests[s].pc \in {"bumped", "name", "put"} =>
            kind = "hybrid" /\ (requests[s].pc = "name" \/ Process(s) = Process(r))
Careful(r) == Alone(r) /\ Process(r) \in current

\* s.seq++ of the MinIO store is a read and a write without a lock.
LoadSeq(r) ==
    /\ requests[r].pc = "bump"
    /\ Becomes(r, [requests[r] EXCEPT !.pc = "bumped", !.loaded = seq[Process(r)]])
    /\ TakeTurns => Careful(r)
    /\ careless' = (careless \/ ~Careful(r))
    /\ UNCHANGED <<kind, rows, objs, seq, begun, faults, acked, current>>

StoreSeq(r) ==
    /\ requests[r].pc = "bumped"
    /\ seq' = [seq EXCEPT ![Process(r)] = requests[r].loaded + 1]
    /\ Becomes(r, [requests[r] EXCEPT !.pc = "name"])
    /\ UNCHANGED <<kind, rows, objs, begun, faults, acked, current, careless>>

\* The key: of the counter as it is by now (MinIO), of globalSeq.Add(1) (hybrid).
Name(r) ==
    /\ requests[r].pc = "name"
    /\ seq' = IF kind = "hybrid" THEN [seq EXCEPT ![Process(r)] = @ + 1] ELSE seq
    /\ Becomes(r, [requests[r] EXCEPT !.pc = "put",
                     !.key = IF kind = "hybrid" THEN seq'[Process(r)] ELSE seq[Process(r)]])
    /\ TakeTurns /\ kind = "hybrid" => Careful(r)
    /\ careless' = (careless \/ (kind = "hybrid" /\ ~Careful(r)))
    /\ UNCHANGED <<kind, rows, objs, begun, faults, acked, current>>

Acknowledge(r) == acked' = acked \union {[msg |-> requests[r].msg, before |-> requests[r].before]}

\* PutObject replaces what is there.  Its answer may be lost; it may fail.
Put(r) ==
    /\ requests[r].pc = "put"
    /\ \E stored, answered \in BOOLEAN :
         /\ answered => stored
         /\ Faulty(~answered)
         /\ objs' = IF stored THEN [k \in Keys \union {requests[r].key} |->
                                      IF k = requests[r].key THEN requests[r].msg ELSE objs[k]]
                    ELSE objs
         /\ current' = IF stored THEN current \intersect {Process(r)} ELSE current
         /\ IF kind = "minio" /\ answered THEN Acknowledge(r) ELSE acked' = acked
         /\ Becomes(r, IF kind = "hybrid" /\ answered THEN [requests[r] EXCEPT !.pc = "insert"] ELSE Continued(requests[r]))
    /\ UNCHANGED <<kind, rows, seq, begun, careless>>

\* The row of INSERT, RPUSH or append; the errors of the handler's appends are ignored.
Insert(r) ==
    /\ requests[r].pc = "insert"
    /\ \E stored, answered \in BOOLEAN :
         /\ answered => stored
         /\ kind = "memory" => answered
         /\ Faulty(~answered)
         /\ rows' = IF stored THEN Append(rows, [msg |-> requests[r].msg, key |-> requests[r].key]) ELSE rows
         /\ IF answered THEN Acknowledge(r) ELSE acked' = acked
    /\ Becomes(r, Continued(requests[r]))
    /\ UNCHANGED <<kind, objs, seq, begun, current, careless>>

-----------------------------------------------------------------------------
(* Reading a window.                                                       *)

\* applyWindow: backwards, until a message does not fit.
\* Its mutant goes on to the next message.
Walk(msgs, max, stops) ==
    LET n == Len(msgs)
        walk[i \in 1..(n + 1)] ==
            IF i = n + 1 THEN [budget |-> max, start |-> n + 1, going |-> TRUE]
            ELSE LET w == walk[i + 1]
                 IN IF w.going /\ w.budget >= Cost(msgs[i])
                    THEN [w EXCEPT !.budget = @ - Cost(msgs[i]), !.start = i]
                    ELSE [w EXCEPT !.going = ~stops]
    IN SubSeq(msgs, walk[1].start, n)

ApplyWindowSkipping(msgs, max) == IF max = 0 THEN msgs ELSE Walk(msgs, max, FALSE)

ApplyWindow(msgs, max) == IF max = 0 THEN msgs ELSE Walk(msgs, max, TRUE)

\* The listing of the bucket, the query, LRANGE, or the copy under the store's lock.
ListMessages(r) ==
    /\ requests[r].pc = "list"
    /\ Becomes(r, [requests[r] EXCEPT !.pc = "get", !.snapshot = History,
                     !.got = IF kind = "minio" THEN [i \in DOMAIN SortedKeys |-> [msg |-> <<>>, key |-> SortedKeys[i]]]
                             ELSE rows])
    /\ UNCHANGED <<kind, rows, objs, seq, begun, faults, acked, current, careless>>

\* Objects are fetched one by one.
Get(r) ==
    /\ requests[r].pc = "get" /\ requests[r].at <= Len(requests[r].got)
    /\ Becomes(r, [requests[r] EXCEPT !.at = @ + 1, !.got[requests[r].at].msg = Fetched(requests[r].got[requests[r].at])])
    /\ UNCHANGED <<kind, rows, objs, seq, begun, faults, acked, current, careless>>

\* MemoryStore hands out the messages themselves, the others what they unmarshal.
Decoded(m) == IF kind = "memory" THEN m ELSE Unmarshalled(m)

Cut(r) ==
    /\ requests[r].pc = "get" /\ requests[r].at > Len(requests[r].got)
    /\ Becomes(r, [requests[r] EXCEPT !.pc = "answered",
                     !.got = ApplyWindow([i \in DOMAIN @ |-> Decoded(@[i].msg)], requests[r].budget)])
    /\ UNCHANGED <<kind, rows, objs, seq, begun, faults, acked, current, careless>>

\* A read fails.
FailRead(r) ==
    /\ requests[r].pc \in {"list", "get"} /\ kind # "memory"
    /\ Faulty(TRUE)
    /\ Becomes(r, NoRequest)
    /\ UNCHANGED <<kind, rows, objs, seq, begun, acked, current, careless>>

-----------------------------------------------------------------------------
\* A process ends with all its requests, and a new one takes its place.
Restart(p) ==
    /\ Faulty(TRUE)
    /\ kind = "memory" => p = Home
    /\ seq' = [seq EXCEPT ![p] = 0]
    /\ requests' = [r \in Requests |-> IF p \in requests[r].process THEN NoRequest ELSE requests[r]]
    /\ IF kind = "memory" THEN rows' = <<>> /\ acked' = {} ELSE UNCHANGED <<rows, acked>>
    /\ current' = IF objs = <<>> THEN current ELSE current \ {p}
    /\ UNCHANGED <<kind, objs, begun, careless>>

\* Mutant of HighestKey: the number of objects.
CountOfKeys(keys) == Cardinality(keys)

HighestKey(keys) == Max(keys \union {0})

\* Restore of the MinIO store, the only one that does something, before a new store appends: it
\* goes over the keys and takes a listing that fails half way for a complete one.
Restore(p) ==
    /\ kind = "minio" /\ seq[p] = 0 /\ \A r \in Requests : p \notin requests[r].process
    /\ \E listed \in {{k \in Keys : k <= n} : n \in Keys \union {0}} :
         /\ Faulty(listed # Keys)
         /\ seq' = [seq EXCEPT ![p] = HighestKey(listed)]
         /\ current' = IF listed = Keys /\ \A r \in Requests : ~Appending(r) THEN current \union {p} ELSE current \ {p}
    /\ UNCHANGED <<kind, rows, objs, requests, begun, acked, careless>>

Next ==
    \/ \E r \in Requests :
        \/ Invoke(r) \/ AppendMedia(r) \/ Read(r) \/ BeginAppend(r) \/ EndRequest(r)
        \/ LoadSeq(r) \/ StoreSeq(r) \/ Name(r) \/ Put(r) \/ Insert(r)
        \/ ListMessages(r) \/ Get(r) \/ Cut(r) \/ FailRead(r)
    \/ \E p \in Processes : Restart(p) \/ Restore(p)

Spec == Init /\ [][Next]_storeVars

-----------------------------------------------------------------------------
PlaceOf(m) == CHOOSE i \in DOMAIN History : History[i] = m

\* An acknowledged message is in the history, once and unchanged, behind all the messages that were
\* acknowledged before its Append began: a question comes before its answer.  For the stores that
\* name objects this holds as long as nobody names one concurrently or with a counter of which
\* objects are unknown.
AcknowledgedAreKept ==
    ~careless =>
        \A a \in acked :
            /\ Cardinality({i \in DOMAIN History : History[i] = a.msg}) = 1
            /\ \A m \in a.before : PlaceOf(m) < PlaceOf(a.msg)

\* What the messages from the i-th on cost together.
CostFrom(msgs) ==
    LET n == Len(msgs)
        cost[i \in 1..(n + 1)] == IF i = n + 1 THEN 0 ELSE Cost(msgs[i]) + cost[i + 1]
    IN cost

IsLongestEnd(window, msgs, max) ==
    \E from \in 1..(Len(msgs) + 1) :
        /\ window = SubSeq(msgs, from, Len(msgs))
        /\ CostFrom(msgs)[from] <= max
        /\ \A i \in 1..(from - 1) : CostFrom(msgs)[i] > max

\* A window is the longest end of one state of the history that fits the budget, though its objects
\* are fetched one at a time while others append.
WindowIsLongestEnd ==
    \A r \in Requests :
        (requests[r].pc = "answered" /\ ~careless) =>
            LET all == [i \in DOMAIN requests[r].snapshot |-> Decoded(requests[r].snapshot[i])]
            IN IF requests[r].budget = 0 THEN requests[r].got = all
               ELSE IsLongestEnd(requests[r].got, all, requests[r].budget)

\* What the interface says of every store: its methods are safe for concurrent use and Append adds
\* to the end of the history, as long as no process has restarted.
AppendAdds ==
    (faults = 0 /\ \A r \in Requests : requests[r].process \subseteq {Home}) =>
        \A a \in acked : \E i \in DOMAIN History : History[i] = a.msg
=============================================================================
