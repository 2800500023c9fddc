--------------------------- MODULE ProviderCalls ---------------------------
(***************************************************************************)
(* The registry of LLM providers, whose goroutine pings them, and the      *)
(* calls that depend on it: a FallbackProvider tries its providers in      *)
(* order, skipping those the registry holds unavailable; a compiled        *)
(* workflow or agent calls the provider Select gave it.                    *)
(*                                                                         *)
(* Availability and latency are kept under a provider's own ID, which is   *)
(* its vendor's; two instances of a vendor share it.  Whether a provider   *)
(* answers is the environment's choice and changes at most MaxFlips times. *)
(***************************************************************************)
EXTENDS Naturals, FiniteSets, Sequences, SequencesExt

CONSTANTS Providers,   \* instances
          Pingers,     \* those that implement Ping
          ID,          \* instance -> what its ID() returns
          Tags,        \* instance -> the tags it is registered with
          Order,       \* the fallback's providers, in priority order
          Filter,      \* the tags a selecting caller asks for
          Monitored,   \* sequences given to NewProviderRegistry
          Registered,  \* instances that may be given to Register
          Callers, MaxCalls, MaxFlips

Vendors == {ID[p] : p \in Providers}
Never == 3             \* a latency above those of answered pings, 1 and 2

VARIABLES up,          \* the providers that answer now
          flips,
          pool,        \* registry.providers, those that are pinged
          entries,     \* registry.entries: the instances registered with tags
          available, latency,   \* by ID
          pinger,      \* the goroutine of Start: [pc, list, at, answered], and whether its context is done
          calls,       \* caller -> [pc, made, linked, scan, candidates, next, result]
          steady       \* caller -> providers up and held available ever since its call began

callVars == <<up, flips, pool, entries, available, latency, pinger, calls, steady>>

-----------------------------------------------------------------------------
Idle == [pc |-> "idle", made |-> 0, linked |-> FALSE, candidates |-> <<>>, next |-> 1, result |-> <<>>]

Init ==
    /\ up \in SUBSET Providers /\ flips = 0
    /\ pool \in Monitored /\ entries = {}
    /\ available = [v \in Vendors |-> FALSE] /\ latency = [v \in Vendors |-> Never]
    /\ pinger = [pc |-> "off", list |-> <<>>, at |-> 1, answered |-> FALSE, cancelled |-> FALSE]
    /\ calls = [c \in Callers |-> Idle]
    /\ steady = [c \in Callers |-> {}]

\* A provider begins or ceases to answer.
Flip(p) ==
    /\ flips < MaxFlips /\ flips' = flips + 1
    /\ up' = IF p \in up THEN up \ {p} ELSE up \union {p}
    /\ steady' = [c \in Callers |-> steady[c] \ {p}]
    /\ UNCHANGED <<pool, entries, available, latency, pinger, calls>>

Pooled(p) == \E i \in DOMAIN pool : ID[pool[i]] = ID[p]

\* An instance of an ID that is monitored already is not added to the pool.
Register(p) ==
    /\ p \in Registered \ entries
    /\ entries' = entries \union {p}
    /\ IF Pooled(p) THEN UNCHANGED <<pool, latency>>
       ELSE pool' = Append(pool, p) /\ latency' = [latency EXCEPT ![ID[p]] = Never]
    /\ UNCHANGED <<up, flips, available, pinger, calls, steady>>

\* Start: the first round runs before Start returns, the others at the ticks.  A round goes over
\* the slice it found when it began, which it reads without the lock.
Start ==
    /\ pinger.pc = "off"
    /\ pinger' = [pinger EXCEPT !.pc = "pinging", !.list = pool, !.at = 1]
    /\ UNCHANGED <<up, flips, pool, entries, available, latency, calls, steady>>

Tick ==
    /\ pinger.pc = "waiting"
    /\ pinger' = [pinger EXCEPT !.pc = "pinging", !.list = pool, !.at = 1]
    /\ UNCHANGED <<up, flips, pool, entries, available, latency, calls, steady>>

\* The answer of a ping, or its timeout; with the context done every ping fails.
Ping ==
    /\ pinger.pc = "pinging" /\ pinger.at <= Len(pinger.list)
    /\ LET p == pinger.list[pinger.at]
       IN pinger' = [pinger EXCEPT !.pc = "recording",
                                   !.answered = p \notin Pingers \/ (p \in up /\ ~pinger.cancelled)]
    /\ UNCHANGED <<up, flips, pool, entries, available, latency, calls, steady>>

\* Mutant of Marked: an availability is never taken back.
MarkedForGood(answered, before) == answered \/ before

\* The availability as a ping's outcome leaves it.
Marked(answered, before) == answered

\* The outcome is recorded under the lock, some time after the answer.  The pings of a provider
\* that implements none leave its latency alone.
Record ==
    /\ pinger.pc = "recording"
    /\ LET p == pinger.list[pinger.at]
       IN /\ available' = [available EXCEPT ![ID[p]] = Marked(pinger.answered, @)]
          /\ IF pinger.answered /\ p \in Pingers
             THEN \E rtt \in 1..2 : latency' = [latency EXCEPT ![ID[p]] = rtt]
             ELSE latency' = latency
          /\ steady' = IF available'[ID[p]] THEN steady
                       ELSE [c \in Callers |-> IF calls[c].linked
                                               THEN {q \in steady[c] : ID[q] # ID[p]} ELSE steady[c]]
    /\ pinger' = [pinger EXCEPT !.pc = "pinging", !.at = @ + 1]
    /\ UNCHANGED <<up, flips, pool, entries, calls>>

EndRound ==
    /\ pinger.pc = "pinging" /\ pinger.at > Len(pinger.list)
    /\ pinger' = [pinger EXCEPT !.pc = "waiting"]
    /\ UNCHANGED <<up, flips, pool, entries, available, latency, calls, steady>>

\* The context of Start is cancelled, at any time; the goroutine leaves when it next waits.
Cancel ==
    /\ pinger.pc # "off" /\ ~pinger.cancelled
    /\ pinger' = [pinger EXCEPT !.cancelled = TRUE]
    /\ UNCHANGED <<up, flips, pool, entries, available, latency, calls, steady>>

Exit ==
    /\ pinger.pc = "waiting" /\ pinger.cancelled
    /\ pinger' = [pinger EXCEPT !.pc = "exited"]
    /\ UNCHANGED <<up, flips, pool, entries, available, latency, calls, steady>>

-----------------------------------------------------------------------------
(* Calls.  linked: the fallback has been given the registry.               *)

Fallbacks == Range(Order)

Begin(c) ==
    /\ calls[c].pc = "idle" /\ calls[c].made < MaxCalls
    /\ \E linked \in BOOLEAN :
         /\ calls' = [calls EXCEPT ![c] = [Idle EXCEPT !.pc = IF linked THEN "scanning" ELSE "trying",
                                                       !.made = calls[c].made + 1, !.linked = linked,
                                                       !.candidates = IF linked THEN <<>> ELSE Order]]
         /\ steady' = [steady EXCEPT ![c] =
                          {p \in Fallbacks \intersect up : linked => available[ID[p]]}]
    /\ UNCHANGED <<up, flips, pool, entries, available, latency, pinger>>

IsAvailable(p) == available[ID[p]]

\* When the registry holds none available, all are tried.
Candidates(found) == IF found = <<>> THEN Order ELSE found

\* candidates() asks for one provider after the other, releasing the lock in between.
Scan(c) ==
    /\ calls[c].pc = "scanning"
    /\ LET call == calls[c]
           p == Order[call.next]
           found == IF IsAvailable(p) THEN Append(call.candidates, p) ELSE call.candidates
       IN calls' = [calls EXCEPT ![c] =
            IF call.next < Len(Order) THEN [call EXCEPT !.next = call.next + 1, !.candidates = found]
            ELSE [call EXCEPT !.pc = "trying", !.next = 1, !.candidates = Candidates(found)]]
    /\ UNCHANGED <<up, flips, pool, entries, available, latency, pinger, steady>>

\* Mutant of After: the list is abandoned at its first failure.
AfterGivingUp(call) == [call EXCEPT !.pc = "failed"]
After(call) ==
    IF call.next < Len(call.candidates) THEN [call EXCEPT !.next = @ + 1] ELSE [call EXCEPT !.pc = "failed"]

\* Complete, or the opening of StreamComplete, on the next candidate.
Try(c) ==
    /\ calls[c].pc = "trying" /\ calls[c].next <= Len(calls[c].candidates)
    /\ LET p == calls[c].candidates[calls[c].next]
       IN calls' = [calls EXCEPT ![c] =
            IF p \in up THEN [@ EXCEPT !.pc = "answered", !.result = <<p>>] ELSE After(@)]
    /\ UNCHANGED <<up, flips, pool, entries, available, latency, pinger, steady>>

Finish(c) ==
    /\ calls[c].pc \in {"answered", "failed"}
    /\ calls' = [calls EXCEPT ![c] = [Idle EXCEPT !.made = calls[c].made]]
    /\ steady' = [steady EXCEPT ![c] = {}]
    /\ UNCHANGED <<up, flips, pool, entries, available, latency, pinger>>

\* tagsMatch, Select and Available, with what they sort by.
TagsMatch(p) == Filter \subseteq Tags[p]
Fastest(S) == {p \in S : \A q \in S : latency[ID[p]] <= latency[ID[q]]}
Selected == {p \in entries : IsAvailable(p) /\ TagsMatch(p)}

\* Available returns the pool as it is when none of it is available.
Available ==
    LET live == {p \in Range(pool) : IsAvailable(p)}
    IN IF live # {} \/ pool = <<>> THEN Fastest(live) ELSE {pool[1]}

\* A caller that was compiled with the first provider of Select, or uses the first of Available.
Select(c) ==
    /\ calls[c].pc = "idle" /\ calls[c].made < MaxCalls
    /\ \E p \in Fastest(Selected) \union Available :
         calls' = [calls EXCEPT ![c] = [Idle EXCEPT !.pc = "trying", !.made = calls[c].made + 1,
                                                    !.candidates = <<p>>]]
    /\ UNCHANGED <<up, flips, pool, entries, available, latency, pinger, steady>>

Round == Tick \/ Ping \/ Record \/ EndRound \/ Exit

Next ==
    \/ \E p \in Providers : Flip(p) \/ Register(p)
    \/ Start \/ Round \/ Cancel
    \/ \E c \in Callers : Begin(c) \/ Scan(c) \/ Try(c) \/ Finish(c) \/ Select(c)

\* Only the goroutine of Start has to go on: its ticker ticks and a ping times out.
Fairness == WF_callVars(Tick) /\ WF_callVars(Ping \/ Record \/ EndRound)
Spec == Init /\ [][Next]_callVars
FairSpec == Spec /\ Fairness

-----------------------------------------------------------------------------
\* A call through the fallback is answered, and by no provider behind it in the order, when some
\* provider has been up and held available ever since the call began: pings that come between the
\* questions to the registry, providers that fail meanwhile, registrations change nothing in that.
NotBehind(q, j) == \E i \in 1 .. j : Order[i] = q
SteadyProviderAnswers ==
    \A c \in Callers :
        (calls[c].pc \in {"answered", "failed"} /\ steady[c] # {}) =>
            /\ calls[c].pc = "answered"
            /\ \A p \in steady[c] : \A j \in DOMAIN Order : Order[j] = p => NotBehind(calls[c].result[1], j)

\* While the registry runs, its view of a monitored provider whose ID no other one shares becomes
\* and stays what the provider's last change made true.
AvailabilityConverges ==
    \A p \in Pingers :
        <>[](/\ pinger.pc # "off" /\ ~pinger.cancelled
             /\ p \in Range(pool) /\ \A q \in Range(pool) \ {p} : ID[q] # ID[p])
        => <>[](available[ID[p]] = (p \in up))

\* What Select promises by its name and ProviderID by its comment: an instance is selected for
\* its own pings.
SelectedIsMonitored == Selected \subseteq Range(pool)
=============================================================================
