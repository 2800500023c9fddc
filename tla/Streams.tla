------------------------------ MODULE Streams ------------------------------
(***************************************************************************)
(* A streamed invocation: the goroutine that produces the chunks, the      *)
(* goroutines of the middleware that each relay them from one unbuffered   *)
(* channel to the next, and the HTTP handler that writes them to the       *)
(* client.                                                                 *)
(*                                                                         *)
(* Stage 0 is the source; stage i is the i-th relay from the inside:       *)
(*   "adapter"   typedAdapter.Stream (pkg/core), on a typed source;        *)
(*   "relay"     WithPanicRecovery, and the tracing middleware alike;      *)
(*   "timeout"   WithTimeout.                                              *)
(* A middleware that only passes next.Stream on (logging, retry, metadata, *)
(* budgets) has no goroutine and is no stage.  A goroutine cancels its     *)
(* context and closes its channel in one step, by ending: until the close  *)
(* is seen nothing can tell them apart.                                    *)
(***************************************************************************)
EXTENDS Naturals, Sequences

CONSTANTS
    Pipelines, \* the pipelines considered: sequences of kinds of relays
    Length,    \* chunks of a source that streams
    Err,       \* a chunk with an error
    Done,      \* the event "done" that ends a response
    Nothing

VARIABLES
    pipeline,   \* this pipeline
    source,     \* "stream" or "invoke": one result, sent to a buffer of one
    sent,       \* chunks the source has produced
    stage,      \* stage[i]: where the goroutine is and the chunk it holds
    handler,    \* the HTTP handler: which one, where it is, the chunk it holds
    expired,    \* the deadlines that have passed
    cancelled,  \* the request's context is done
    gone,       \* the client has left
    written     \* the events the client has been sent

setup == <<pipeline, source>>
vars == <<setup, sent, stage, handler, expired, cancelled, gone, written>>

Last == Len(pipeline)
Relays == 1 .. Last

\* The chunks of a whole stream.
Total == IF source = "invoke" THEN 1 ELSE Length

Init ==
    /\ pipeline \in Pipelines
    /\ source \in {"stream", "invoke"}
    /\ source = "invoke" => \A i \in Relays : pipeline[i] # "adapter"
    /\ sent = 0
    /\ stage = [i \in 0 .. Last |-> [at |-> IF i = 0 THEN "work" ELSE "recv",
                                     chunk |-> Nothing]]
    /\ handler \in {[kind |-> kind, at |-> "recv", chunk |-> Nothing] : kind \in {"sse", "api"}}
    /\ expired = {}
    /\ cancelled = FALSE
    /\ gone = FALSE
    /\ written = <<>>

\* The context stage i runs under is done: the request's, or one that a timeout
\* at i or further out has derived from it and that has expired or was cancelled
\* when that goroutine returned.
ContextDone(i) ==
    cancelled \/ \E j \in Relays : /\ j >= i /\ pipeline[j] = "timeout"
                                   /\ j \in expired \/ stage[j].at = "ended"

Holding(chunk) == [at |-> "send", chunk |-> chunk]
Receiving == [at |-> "recv", chunk |-> Nothing]
Ended == [at |-> "ended", chunk |-> Nothing]

Offers(i) == stage[i].at \in {"send", "buffered"}

-----------------------------------------------------------------------------
\* What the source can come up with next; a typed source has no errors to send.
Produced(chunk) ==
    \/ chunk = sent + 1 /\ sent < Total
    \/ chunk = Err /\ "adapter" \notin {pipeline[i] : i \in Relays}

Produce ==
    /\ stage[0].at = "work"
    /\ \E chunk \in 1 .. Total + 1 \union {Err} :
           /\ Produced(chunk)
           /\ stage' = [stage EXCEPT ![0] =
                  [at |-> IF source = "invoke" THEN "buffered" ELSE "send", chunk |-> chunk]]
    /\ sent' = sent + 1
    /\ UNCHANGED <<setup, handler, expired, cancelled, gone, written>>

\* The source closes its channel after its last chunk, or when its context is done.
SourceEnds ==
    /\ source = "stream"
    /\ \/ stage[0].at = "work" /\ sent = Total
       \/ stage[0].at \in {"work", "send"} /\ ContextDone(0)
    /\ stage' = [stage EXCEPT ![0] = Ended]
    /\ UNCHANGED <<setup, sent, handler, expired, cancelled, gone, written>>

\* Where a goroutine is when its chunk has been taken.
AfterSend(i) ==
    IF i > 0 THEN Receiving
    ELSE IF source = "invoke" \/ stage[0].chunk = Err THEN Ended
    ELSE [at |-> "work", chunk |-> Nothing]

\* One goroutine sends and the next one receives.
Pass(i) ==
    /\ i < Last
    /\ Offers(i)
    /\ stage[i + 1].at = "recv"
    /\ stage' = [stage EXCEPT ![i] = AfterSend(i), ![i + 1] = Holding(stage[i].chunk)]
    /\ UNCHANGED <<setup, sent, handler, expired, cancelled, gone, written>>

\* The handler, or the goroutine it leaves behind to drain the channel, receives.
Received(chunk) ==
    IF handler.at = "recv" THEN [handler EXCEPT !.at = "write", !.chunk = chunk] ELSE handler

Deliver ==
    /\ Offers(Last)
    /\ handler.at \in {"recv", "drain"}
    /\ stage' = [stage EXCEPT ![Last] = AfterSend(Last)]
    /\ handler' = Received(stage[Last].chunk)
    /\ UNCHANGED <<setup, sent, expired, cancelled, gone, written>>

\* A relay finds the channel it reads from closed, and closes its own.
EndOfInput(i) ==
    /\ stage[i].at = "recv"
    /\ stage[i - 1].at = "ended"
    /\ stage' = [stage EXCEPT ![i] = Ended]
    /\ UNCHANGED <<setup, sent, handler, expired, cancelled, gone, written>>

\* Mutant: the relay sends without a select.
WatchesInput(i) == pipeline[i] = "timeout" /\ stage[i].at = "recv"

\* Mutant: the deadline is looked at while sending only.
WatchesOutput(i) == stage[i].at = "send"

\* Where a relay's select has a case for the end of its context.
Watches(i) ==
    \/ stage[i].at = "send"
    \/ pipeline[i] = "timeout" /\ stage[i].at = "recv"

AfterDone(i) == Ended

\* Mutant: the timeout reports the error and goes on relaying.
ReportsAndGoesOn(i) == Receiving

AfterReport(i) == Ended

\* A relay whose context is done returns, dropping the chunk it holds.
\* An adapter and a timeout offer an error first, in a select with a default: it is
\* taken only if the receiver is blocked in its receive by then.
Stop(i) ==
    /\ Watches(i)
    /\ ContextDone(i)
    /\ \/ /\ stage' = [stage EXCEPT ![i] = AfterDone(i)]
          /\ UNCHANGED handler
       \/ /\ pipeline[i] # "relay"
          /\ IF i < Last
             THEN /\ stage[i + 1].at = "recv"
                  /\ stage' = [stage EXCEPT ![i] = AfterReport(i), ![i + 1] = Holding(Err)]
                  /\ UNCHANGED handler
             ELSE /\ handler.at \in {"recv", "drain"}
                  /\ stage' = [stage EXCEPT ![i] = AfterReport(i)]
                  /\ handler' = Received(Err)
    /\ UNCHANGED <<setup, sent, expired, cancelled, gone, written>>

Expire(i) ==
    /\ pipeline[i] = "timeout"
    /\ stage[i].at # "ended"
    /\ i \notin expired
    /\ expired' = expired \union {i}
    /\ UNCHANGED <<setup, sent, stage, handler, cancelled, gone, written>>

-----------------------------------------------------------------------------
\* A write to a client that has left fails.
WriteEvent(event) == written' = IF gone THEN written ELSE Append(written, event)

\* Mutant: an error is written like a token.
LeavesNever(event) == handler.kind = "sse" /\ gone

\* HandleSSE returns after an error, or when it cannot write; the handler of
\* pkg/api does neither.
Leaves(event) == handler.kind = "sse" /\ (event = Err \/ gone)

\* The handler writes the chunk it has received.  A value that cannot be marshalled
\* makes HandleSSE write an error.  net/http cancels the request's context when the
\* handler returns.
Write ==
    /\ handler.at = "write"
    /\ \E event \in {handler.chunk} \union (IF handler.kind = "sse" THEN {Err} ELSE {}) :
           /\ WriteEvent(event)
           /\ IF Leaves(event)
              THEN /\ handler' = [handler EXCEPT !.at = "drain", !.chunk = Nothing]
                   /\ cancelled' = TRUE
              ELSE /\ handler' = [handler EXCEPT !.at = "recv", !.chunk = Nothing]
                   /\ UNCHANGED cancelled
    /\ UNCHANGED <<setup, sent, stage, expired, gone>>

\* The channel is closed: the handler writes "done" and returns.
WriteDone ==
    /\ handler.at = "recv"
    /\ stage[Last].at = "ended"
    /\ WriteEvent(Done)
    /\ handler' = [handler EXCEPT !.at = "ended"]
    /\ cancelled' = TRUE
    /\ UNCHANGED <<setup, sent, stage, expired, gone>>

\* The draining goroutine ends with the channel or with the request.
DrainEnds ==
    /\ handler.at = "drain"
    /\ stage[Last].at = "ended" \/ cancelled
    /\ handler' = [handler EXCEPT !.at = "ended"]
    /\ UNCHANGED <<setup, sent, stage, expired, cancelled, gone, written>>

ClientLeaves ==
    /\ ~gone
    /\ handler.at \in {"recv", "write"}
    /\ gone' = TRUE
    /\ UNCHANGED <<setup, sent, stage, handler, expired, cancelled, written>>

\* The server notices that the client has left.
Cancel ==
    /\ gone /\ ~cancelled
    /\ cancelled' = TRUE
    /\ UNCHANGED <<setup, sent, stage, handler, expired, gone, written>>

\* The response is over and no goroutine is left.
Finished == handler.at = "ended" /\ \A i \in 0 .. Last : stage[i].at \in {"ended", "buffered"}

Finish == Finished /\ UNCHANGED vars

Next ==
    \/ Produce \/ SourceEnds
    \/ Pass(0) \/ Deliver
    \/ \E i \in Relays : Pass(i) \/ EndOfInput(i) \/ Stop(i) \/ Expire(i)
    \/ Write \/ WriteDone \/ DrainEnds
    \/ ClientLeaves \/ Cancel
    \/ Finish

\* Goroutines that can go on do, and deadlines pass; the source may hang, its
\* client may stay.
Fairness ==
    /\ WF_vars(Pass(0)) /\ WF_vars(Deliver)
    /\ \A i \in UNION {DOMAIN c : c \in Pipelines} :
           /\ WF_vars(i \in Relays /\ Pass(i))
           /\ WF_vars(i \in Relays /\ EndOfInput(i))
           /\ WF_vars(i \in Relays /\ Stop(i))
           /\ WF_vars(i \in Relays /\ Expire(i))
    /\ WF_vars(Write \/ WriteDone \/ DrainEnds)

Spec == Init /\ [][Next]_vars /\ Fairness
-----------------------------------------------------------------------------
TypeOK ==
    LET Chunks == 1 .. Total \union {Err, Nothing} IN
    /\ pipeline \in Pipelines
    /\ source \in {"stream", "invoke"}
    /\ sent \in 0 .. Total + 1
    /\ stage \in [0 .. Last -> [at : {"work", "buffered", "recv", "send", "ended"},
                                chunk : Chunks]]
    /\ handler \in [kind : {"sse", "api"}, at : {"recv", "write", "drain", "ended"},
                    chunk : Chunks]
    /\ expired \subseteq Relays
    /\ {cancelled, gone} \subseteq BOOLEAN
    /\ written \in Seq(1 .. Total \union {Err, Done})

Values == SelectSeq(written, LAMBDA event : event \notin {Err, Done})

\* Whatever relays give up and whenever, the client is sent the first chunks of the
\* stream in order: a goroutine that drops a chunk is the last that used its channel.
ValuesInOrder == \A i \in 1 .. Len(Values) : Values[i] = i

\* "Err is non-nil only on the final chunk" (pkg/core/types.go): no value reaches
\* the client after an error, from whichever goroutine it came, and HandleSSE writes
\* nothing at all after one.
ErrorIsLast ==
    \A i, j \in 1 .. Len(written) :
        written[i] = Err /\ i < j => handler.kind = "api" /\ written[j] \in {Err, Done}

Says(event) == \E i \in 1 .. Len(written) : written[i] = event

\* When no deadline passes, the "done" of HandleSSE says that the client has the stream, whole and
\* in order: a source that is cut off, a chunk that is dropped or a value that cannot be marshalled
\* never leads to it.
Whole == [n \in 1 .. Total + 1 |-> IF n <= Total THEN n ELSE Done]
DoneIsComplete == handler.kind = "sse" /\ expired = {} /\ Says(Done) => written = Whole

\* What the test of WithTimeout says: that a deadline that passes is reported, so
\* that a stream it has cut never looks whole.
TimeoutIsReported == handler.kind = "sse" /\ Says(Done) => Len(Values) = Total

\* A deadline bounds the whole response, also when the source never sends again and
\* wherever in the pipeline the deadline is.
HandlerReturns == (\E i \in Relays : pipeline[i] = "timeout") ~> handler.at = "ended"

\* No goroutine outlives the source and the response: none stays blocked on a send
\* that nobody receives.
GoroutinesEnd == stage[0].at \in {"ended", "buffered"} ~> Finished
=============================================================================
