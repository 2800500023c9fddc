----------------------------- MODULE CallGuards -----------------------------
(***************************************************************************)
(* A runnable behind a chain of middlewares, as Chain builds it: the first *)
(* of the chain is the outermost.  A call goes inwards guard by guard to   *)
(* the runnable and comes back through the same guards with its result.    *)
(* The token budget and the iteration counter belong to the wrapped        *)
(* runnable and are shared by all its callers; everything else belongs to  *)
(* one call.  Of a stream only its opening is in this module.              *)
(***************************************************************************)
EXTENDS Naturals, FiniteSets, Sequences, FiniteSetsExt

CONSTANTS Callers, MaxCalls,  \* MaxCalls bounds the calls of all callers together
          Chains,          \* chains of guards, outermost first, each guard at most once
          Sizes,           \* tokens an answer may cost
          Budget, MaxIterations, MaxAttempts

VARIABLES chain,
          remaining,       \* TokenBudgetTracker.remaining
          count,           \* the counter of WithMaxIterations, which saturates above the limit
          guarded,         \* caller -> its call
          reached,         \* how often the runnable was reached, over all calls
          paid,            \* tokens of the calls that returned without an error
          exceeded         \* some call has returned ErrTokenBudgetExceeded

guardVars == <<chain, remaining, count, guarded, reached, paid, exceeded>>

-----------------------------------------------------------------------------
NoCall == [pc |-> "idle", made |-> 0, kind |-> "invoke", at |-> 0, attempt |-> 1, result |-> "none",
           size |-> 0, loaded |-> <<>>, cancelled |-> FALSE, timed |-> FALSE, expired |-> FALSE, spent |-> FALSE]

Init ==
    /\ chain \in Chains /\ remaining = Budget /\ count = 0
    /\ guarded = [c \in Callers |-> NoCall]
    /\ reached = 0 /\ paid = 0 /\ exceeded = FALSE

Has(g) == \E i \in DOMAIN chain : chain[i] = g
PositionOf(g) == CHOOSE i \in DOMAIN chain : chain[i] = g
ContextDone(k) == k.cancelled \/ k.expired

Inwards(k) == [k EXCEPT !.at = @ + 1]
Outwards(k) == [k EXCEPT !.pc = "back", !.at = @ - 1]
Refused(k, error) == [Outwards(k) EXCEPT !.result = error]

\* At the guard g, on the way in and on the way back.
Entering(c, g) == guarded[c].pc = "in" /\ guarded[c].at \in DOMAIN chain /\ chain[guarded[c].at] = g
Leaving(c, g) == guarded[c].pc = "back" /\ guarded[c].at \in DOMAIN chain /\ chain[guarded[c].at] = g

Becomes(c, k) == guarded' = [guarded EXCEPT ![c] = k]

Begin(c) ==
    /\ guarded[c].pc = "idle" /\ MapThenSumSet(LAMBDA d : guarded[d].made, Callers) < MaxCalls
    /\ \E kind \in {"invoke", "stream"} :
         Becomes(c, [NoCall EXCEPT !.pc = "in", !.at = 1, !.made = guarded[c].made + 1, !.kind = kind,
                                   !.spent = exceeded])
    /\ UNCHANGED <<chain, remaining, count, reached, paid, exceeded>>

\* The caller's context is cancelled; the deadline of WithTimeout passes.
CancelCall(c) ==
    /\ guarded[c].pc # "idle" /\ ~guarded[c].cancelled
    /\ Becomes(c, [guarded[c] EXCEPT !.cancelled = TRUE])
    /\ UNCHANGED <<chain, remaining, count, reached, paid, exceeded>>

DeadlinePasses(c) ==
    /\ guarded[c].timed /\ ~guarded[c].expired
    /\ Becomes(c, [guarded[c] EXCEPT !.expired = TRUE])
    /\ UNCHANGED <<chain, remaining, count, reached, paid, exceeded>>

-----------------------------------------------------------------------------
(* Inwards.                                                                *)

EnterBudget(c) ==
    /\ Entering(c, "budget")
    /\ Becomes(c, IF remaining = 0 THEN Refused(guarded[c], "budget") ELSE Inwards(guarded[c]))
    /\ UNCHANGED <<chain, remaining, count, reached, paid, exceeded>>

\* Mutant of Counted: streams are free.
CountedInvokes(k) == IF k.kind = "invoke" THEN count + 1 ELSE count

Counted(k) == count + 1

EnterIterations(c) ==
    /\ Entering(c, "iterations")
    /\ LET n == Counted(guarded[c])
       IN /\ count' = IF n > MaxIterations THEN MaxIterations + 1 ELSE n
          /\ Becomes(c, IF n > MaxIterations THEN Refused(guarded[c], "iterations") ELSE Inwards(guarded[c]))
    /\ UNCHANGED <<chain, remaining, reached, paid, exceeded>>

\* A stream is given the deadline too; what comes of it is in module Streams.
EnterTimeout(c) ==
    /\ Entering(c, "timeout")
    /\ Becomes(c, [Inwards(guarded[c]) EXCEPT !.timed = TRUE])
    /\ UNCHANGED <<chain, remaining, count, reached, paid, exceeded>>

\* WithRetry begins its first attempt; the others have nothing to do on the way in.
EnterPassing(c) ==
    /\ \E g \in {"retry", "recover", "logging", "metadata"} : Entering(c, g)
    /\ Becomes(c, [Inwards(guarded[c]) EXCEPT !.attempt = IF chain[guarded[c].at] = "retry" THEN 1 ELSE @])
    /\ UNCHANGED <<chain, remaining, count, reached, paid, exceeded>>

Reach(c) ==
    /\ guarded[c].pc = "in" /\ guarded[c].at = Len(chain) + 1
    /\ reached' = reached + 1
    /\ Becomes(c, [guarded[c] EXCEPT !.pc = "running"])
    /\ UNCHANGED <<chain, remaining, count, paid, exceeded>>

\* The runnable answers, fails or panics; it may give up when its context is done.
Answer(c) ==
    /\ guarded[c].pc = "running"
    /\ \/ \E n \in Sizes : Becomes(c, [Refused(guarded[c], "ok") EXCEPT !.size = n])
       \/ \E error \in {"error", "panic"} : Becomes(c, Refused(guarded[c], error))
       \/ ContextDone(guarded[c]) /\ Becomes(c, Refused(guarded[c], "cancelled"))
    /\ UNCHANGED <<chain, remaining, count, reached, paid, exceeded>>

-----------------------------------------------------------------------------
(* Outwards.                                                               *)

\* Consume: the remaining budget is read, and replaced if nobody has changed it in between.  What
\* does not fit is not subtracted.
Charges(c) == Leaving(c, "budget") /\ guarded[c].kind = "invoke" /\ guarded[c].result = "ok"

LoadRemaining(c) ==
    /\ Charges(c) /\ guarded[c].loaded = <<>>
    /\ Becomes(c, IF remaining < guarded[c].size THEN Refused(guarded[c], "budget")
                  ELSE [guarded[c] EXCEPT !.loaded = <<remaining>>])
    /\ UNCHANGED <<chain, remaining, count, reached, paid, exceeded>>

\* Mutant of Swappable: the new value is stored whatever happened in between.
SwappableAlways(loaded) == TRUE

Swappable(loaded) == remaining = loaded[1]

\* Mutant of Reloading: the stale value is tried again.
ReloadingNever(k) == k

Reloading(k) == [k EXCEPT !.loaded = <<>>]

Swap(c) ==
    /\ Charges(c) /\ guarded[c].loaded # <<>>
    /\ IF Swappable(guarded[c].loaded)
       THEN /\ remaining' = guarded[c].loaded[1] - guarded[c].size
            /\ Becomes(c, [Outwards(guarded[c]) EXCEPT !.loaded = <<>>])
       ELSE remaining' = remaining /\ Becomes(c, Reloading(guarded[c]))
    /\ UNCHANGED <<chain, count, reached, paid, exceeded>>

\* WithRetry: every error is worth another attempt, RetryIf being nil.  A panic passes.
Retries(c) == Leaving(c, "retry") /\ guarded[c].kind = "invoke" /\ guarded[c].result \notin {"ok", "panic"}

LeaveRetry(c) ==
    /\ Retries(c)
    /\ Becomes(c, IF guarded[c].attempt < MaxAttempts THEN [guarded[c] EXCEPT !.pc = "waiting"]
                  ELSE Outwards(guarded[c]))
    /\ UNCHANGED <<chain, remaining, count, reached, paid, exceeded>>

NextAttempt(k) == [Inwards(k) EXCEPT !.pc = "in", !.attempt = @ + 1, !.result = "none"]

\* The wait between two attempts ends with the timer or with the context.
Waited(c) ==
    /\ guarded[c].pc = "waiting"
    /\ \/ Becomes(c, NextAttempt(guarded[c]))
       \/ ContextDone(guarded[c]) /\ Becomes(c, Refused(guarded[c], "cancelled"))
    /\ UNCHANGED <<chain, remaining, count, reached, paid, exceeded>>

LeaveTimeout(c) ==
    /\ Leaving(c, "timeout")
    /\ Becomes(c, [Outwards(guarded[c]) EXCEPT !.timed = FALSE, !.expired = FALSE])
    /\ UNCHANGED <<chain, remaining, count, reached, paid, exceeded>>

\* The recover function is deferred around Invoke, and around the relay of a stream but not around
\* its opening.
LeaveRecover(c) ==
    /\ Leaving(c, "recover")
    /\ Becomes(c, [Outwards(guarded[c]) EXCEPT !.result =
                      IF @ = "panic" /\ guarded[c].kind = "invoke" THEN "error" ELSE @])
    /\ UNCHANGED <<chain, remaining, count, reached, paid, exceeded>>

LeavePassing(c) ==
    /\ \/ \E g \in {"iterations", "logging", "metadata"} : Leaving(c, g)
       \/ Leaving(c, "budget") /\ ~Charges(c)
       \/ Leaving(c, "retry") /\ ~Retries(c)
    /\ Becomes(c, Outwards(guarded[c]))
    /\ UNCHANGED <<chain, remaining, count, reached, paid, exceeded>>

\* The caller has its result.
Paying(k) == k.kind = "invoke" /\ k.result = "ok"
Return(c) ==
    /\ guarded[c].pc = "back" /\ guarded[c].at = 0
    /\ Becomes(c, [NoCall EXCEPT !.made = guarded[c].made])
    /\ paid' = IF Paying(guarded[c]) THEN paid + guarded[c].size ELSE paid
    /\ exceeded' = (exceeded \/ guarded[c].result = "budget")
    /\ UNCHANGED <<chain, remaining, count, reached>>

Enter(c) == EnterBudget(c) \/ EnterIterations(c) \/ EnterTimeout(c) \/ EnterPassing(c) \/ Reach(c)
Leave(c) == LoadRemaining(c) \/ Swap(c) \/ LeaveRetry(c) \/ Waited(c) \/ LeaveTimeout(c) \/ LeaveRecover(c)
            \/ LeavePassing(c) \/ Return(c)

Next == \E c \in Callers : Begin(c) \/ CancelCall(c) \/ DeadlinePasses(c) \/ Enter(c) \/ Answer(c) \/ Leave(c)

\* The runnable answers, and a goroutine that can go on does.
Fairness == \A c \in Callers : WF_guardVars(Enter(c) \/ Answer(c) \/ Leave(c))
Spec == Init /\ [][Next]_guardVars
FairSpec == Spec /\ Fairness

-----------------------------------------------------------------------------
TypeOK ==
    /\ chain \in Chains /\ remaining \in 0..Budget /\ count \in 0..(MaxIterations + 1)
    /\ \A c \in Callers : guarded[c].at \in 0..(Len(chain) + 1)

\* The budget is short of exactly the tokens of the calls that were answered without an error:
\* concurrent charges lose nothing, and neither failed nor repeated attempts are charged.
Charged == {c \in Callers : /\ guarded[c].pc = "back" /\ Paying(guarded[c])
                            /\ guarded[c].at < PositionOf("budget")}
ChargedTokens == UNION {{c} \X (1 .. guarded[c].size) : c \in Charged}
BudgetIsExact == Has("budget") => remaining + paid + Cardinality(ChargedTokens) = Budget

\* However calls, retries and streams interleave, the runnable is reached MaxIterations times at
\* most, a retry inside of the counter being counted once.
RetryIsInside == Has("retry") /\ PositionOf("retry") > PositionOf("iterations")
LifetimeCap ==
    Has("iterations") => reached <= IF RetryIsInside THEN MaxIterations * MaxAttempts ELSE MaxIterations

\* Every call returns, whatever the others do to the budget meanwhile.
CallsReturn == \A c \in Callers : []<>(guarded[c].pc = "idle")

\* What the comment of WithTokenBudget says: once the budget was exceeded, the next call does not
\* reach the runnable.
ExceededStopsCalls == \A c \in Callers : ~(guarded[c].spent /\ guarded[c].pc = "running")

\* What the comment of WithPanicRecovery says: it converts the panics of the runnable to errors.
PanicsAreConverted ==
    \A c \in Callers : Has("recover") => ~(guarded[c].at = 0 /\ guarded[c].result = "panic")
=============================================================================
