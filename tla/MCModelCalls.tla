---------------------------- MODULE MCModelCalls ----------------------------
(***************************************************************************)
(* A model call, one layer per behaviour: the vendors' wire formats        *)
(* (MCModelWire), the registry and the fallback over the providers         *)
(* (MCProviderCalls), the middleware around a call (MCCallGuards), or the  *)
(* goroutines that relay its stream to the client (MCStreams).  The others *)
(* stay in one of their initial states.                                    *)
(***************************************************************************)
EXTENDS Naturals, FiniteSets, Sequences

CONSTANTS
    Parts,                                                    \* which layers
    Cases, Answers, Capacity,                                 \* ModelWire
    a, b, c, x, Providers, Pingers, ID, Tags, Order, Filter,  \* ProviderCalls
    Monitored, Registered, Selecting, MaxSelecting, MaxFlips,
    Callers, MaxCalls, Chains, Sizes, Budget, MaxIterations, MaxAttempts, \* CallGuards
    Pipelines, Length, Err, Done, Nothing                     \* Streams

\* A token budget and the limits of the middleware are numbers, an answer costs some tokens, and a
\* chain has each guard once at most: two of a kind would share what belongs to one.
ASSUME LimitsAssumption ==
    /\ Budget \in Nat /\ MaxIterations \in Nat /\ MaxAttempts \in Nat \ {0} /\ Sizes \subseteq Nat
    /\ IsFiniteSet(Callers)

Guard == {"recover", "timeout", "retry", "logging", "metadata", "budget", "iterations"}
ASSUME ChainsAssumption ==
    \A q \in Chains : q \in Seq(Guard) /\ \A i, j \in DOMAIN q : q[i] = q[j] => i = j

\* A fallback has providers, and what is registered or monitored is a provider.
ASSUME OrderAssumption == Order \in Seq(Providers) \ {<<>>} /\ Monitored \subseteq Seq(Providers) /\ Registered \subseteq Providers

\* A stream has chunks, relays are of the three kinds, and a number is no event.
ASSUME StreamsAssumption == Length \in Nat \ {0} /\ Pipelines \subseteq Seq({"adapter", "relay", "timeout"})
ASSUME EventsAssumption ==
    Err # Done /\ Err # Nothing /\ Done # Nothing /\ {Err, Done, Nothing} \intersect Nat = {}

VARIABLES
    part,
    setup, request, wire, reply, script, sse, channel, inbox, consumer,
    up, flips, pool, entries, available, latency, pinger, calls, steady,
    chain, remaining, count, guarded, reached, paid, exceeded,
    pipeline, source, sent, stage, handler, expired, cancelled, gone, written

Wire == INSTANCE MCModelWire
Calls == INSTANCE MCProviderCalls WITH Callers <- Selecting, MaxCalls <- MaxSelecting
Guards == INSTANCE MCCallGuards
Streaming == INSTANCE MCStreams

\* The vendors are those the module knows, a conversation is a list of messages in the canonical
\* roles, and a script is a list of lines.
LineKinds == {"text", "bare", "usage", "stop", "noise"}
Roles == {"system", "user", "assistant", "tool"}
ASSUME CasesAssumption ==
    \A k \in Cases : /\ k.setup.vendor \in Wire!Vendors
                     /\ k.request.messages \in Seq([role : Roles, text : STRING])
                     /\ k.request.limit \in Seq(Nat)
                     /\ k.script.lines \in Seq([kind : LineKinds, text : STRING, used : Nat])

wireVars == <<setup, request, wire, reply, script, sse, channel, inbox, consumer>>
callVars == <<up, flips, pool, entries, available, latency, pinger, calls, steady>>
guardVars == <<chain, remaining, count, guarded, reached, paid, exceeded>>
streamVars == <<pipeline, source, sent, stage, handler, expired, cancelled, gone, written>>
vars == <<part, wireVars, callVars, guardVars, streamVars>>

\* The values of the constants, from instances that do not depend on them.
WireValues == INSTANCE MCModelWire WITH Cases <- {}, Answers <- {}
CallValues == INSTANCE MCProviderCalls WITH ID <- {}, Tags <- {}, Order <- {}, Monitored <- {}
GuardValues == INSTANCE MCCallGuards WITH Chains <- {}
StreamValues == INSTANCE MCStreams WITH Pipelines <- {}

WireCases == WireValues!MCCases
WireAnswers == WireValues!MCAnswers
IDs == CallValues!MCID
TagSets == CallValues!MCTags
Priority == CallValues!MCOrder
Pools == CallValues!MCMonitored
GuardChains == GuardValues!MCChains
RelayChains == StreamValues!MCPipelines

OneCase == CHOOSE k \in Cases : Wire!Builds(k.setup)

Init ==
    /\ part \in Parts
    /\ Wire!Init /\ Calls!Init /\ Guards!Init /\ Streaming!Init
    /\ part # "wire" => setup = OneCase.setup /\ request = OneCase.request /\ script = OneCase.script
    /\ part # "calls" => up = {} /\ pool = <<>>
    /\ part # "guards" => chain = CHOOSE q \in Chains : TRUE
    /\ part # "streams" => /\ pipeline = CHOOSE q \in Pipelines : TRUE
                           /\ source = "stream" /\ handler.kind = "sse"

InWire(action) == part = "wire" /\ action /\ UNCHANGED <<part, callVars, guardVars, streamVars>>
InCalls(action) == part = "calls" /\ action /\ UNCHANGED <<part, wireVars, guardVars, streamVars>>
InGuards(action) == part = "guards" /\ action /\ UNCHANGED <<part, wireVars, callVars, streamVars>>
InStreams(action) == part = "streams" /\ action /\ UNCHANGED <<part, wireVars, callVars, guardVars>>

Next ==
    \/ InWire(Wire!Next) \/ InCalls(Calls!Next)
    \/ InGuards(Guards!Next) \/ InStreams(Streaming!Next)

Spec == Init /\ [][Next]_vars

\* The fairness of each layer, see there.
FairSpec ==
    /\ Spec
    /\ WF_vars(InWire(Wire!Send)) /\ WF_vars(InWire(Wire!Return)) /\ WF_vars(InWire(Wire!Open))
    /\ WF_vars(InWire(Wire!ReadLine \/ Wire!ReadEnd \/ Wire!SendChunk)) /\ WF_vars(InWire(Wire!Timeout))
    /\ WF_vars(InWire(Wire!Receive \/ Wire!SeeClosed))
    /\ WF_vars(InCalls(Calls!Tick)) /\ WF_vars(InCalls(Calls!Ping \/ Calls!Record \/ Calls!EndRound))
    /\ \A k \in Callers : WF_vars(InGuards(Guards!Enter(k) \/ Guards!Answer(k) \/ Guards!Leave(k)))
    /\ WF_vars(InStreams(Streaming!Pass(0))) /\ WF_vars(InStreams(Streaming!Deliver))
    /\ \A i \in UNION {DOMAIN q : q \in Pipelines} :
           /\ WF_vars(InStreams(i \in Streaming!Relays /\ Streaming!Pass(i)))
           /\ WF_vars(InStreams(i \in Streaming!Relays /\ Streaming!EndOfInput(i)))
           /\ WF_vars(InStreams(i \in Streaming!Relays /\ Streaming!Stop(i)))
           /\ WF_vars(InStreams(i \in Streaming!Relays /\ Streaming!Expire(i)))
    /\ WF_vars(InStreams(Streaming!Write \/ Streaming!WriteDone \/ Streaming!DrainEnds))

\* ModelWire: what is sent says what the caller asked, in the vendor's terms.
WireIsFaithful == part = "wire" => Wire!WireIsFaithful

\* ModelWire: a stream that ends without an error was delivered whole.
EndedIsWhole == part = "wire" => Wire!EndedIsWhole

\* ModelWire: readers end, but for those whose consumer left.
ReadersEnd == Wire!ReadersEnd

\* ProviderCalls: a call is answered, by a provider no worse than any that stayed up.
SteadyProviderAnswers == part = "calls" => Calls!SteadyProviderAnswers

\* ProviderCalls: the registry's view of a provider converges.
AvailabilityConverges == Calls!AvailabilityConverges

\* CallGuards: what is left of the budget is what has not been charged.
BudgetIsExact == part = "guards" => Guards!BudgetIsExact

\* CallGuards: the runnable is reached so often in its lifetime and no oftener.
LifetimeCap == part = "guards" => Guards!LifetimeCap

\* CallGuards: every call returns.
CallsReturn == Guards!CallsReturn

\* Streams: no value reaches the client after an error.
ErrorIsLast == part = "streams" => Streaming!ErrorIsLast

\* Streams: "done" follows the whole stream.
DoneIsComplete == part = "streams" => Streaming!DoneIsComplete

\* Streams: a deadline bounds the response.
HandlerReturns == part = "streams" => Streaming!HandlerReturns

\* Streams: no goroutine outlives the source and the response.
GoroutinesEnd == part = "streams" => Streaming!GoroutinesEnd
=============================================================================
