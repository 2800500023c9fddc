-------------------------- MODULE ModelCallsProofs --------------------------
(***************************************************************************)
(* What the runs check of the layers around a model call, for any          *)
(* providers, selections, callers, chains of middleware, limits, scripts   *)
(* and pipelines: the goroutines that relay a stream (Streams), the        *)
(* registry and the fallback over the providers (ProviderCalls), the       *)
(* token budget, the iteration counter and the retry (CallGuards), the     *)
(* reader of a vendor's streamed answer and the body a vendor is sent      *)
(* (ModelWire).                                                            *)
(*                                                                         *)
(* Each layer has an inductive invariant of its own: StreamsInv, CallsInv, *)
(* GuardsInv, WireInv, SentInv.  The composition MCModelCalls moves one    *)
(* layer at a time.                                                        *)
(***************************************************************************)
EXTENDS MCModelCalls, FiniteSetTheorems, WellFoundedInduction, TLAPS

-----------------------------------------------------------------------------
(* Streams.  The handler is the last position a chunk gets to.             *)

Relays == Streaming!Relays
Last == Streaming!Last
Total == Streaming!Total
Handler == Last + 1

Chunks == Nat \union {Err, Nothing}
Chunk(p) == IF p = Handler THEN handler.chunk ELSE stage[p].chunk
IsEnded(p) == stage[p].at = "ended"
Carries(p) == Chunk(p) \in Nat

StreamTypes ==
    /\ pipeline \in Seq({"adapter", "relay", "timeout"}) /\ source \in {"stream", "invoke"} /\ sent \in Nat
    /\ stage \in [0 .. Last -> [at : {"work", "buffered", "recv", "send", "ended"}, chunk : Chunks]]
    /\ handler \in [kind : {"sse", "api"}, at : {"recv", "write", "drain", "ended"}, chunk : Chunks]
    /\ written \in Seq(Nat \union {Err, Done}) /\ cancelled \in BOOLEAN /\ gone \in BOOLEAN

\* Which goroutine can be where, and what it holds there.
StageShape ==
    /\ stage[0].at \in IF source = "invoke" THEN {"work", "buffered", "ended"} ELSE {"work", "send", "ended"}
    /\ \A i \in Relays : stage[i].at \in {"recv", "send", "ended"}
    /\ \A i \in 0 .. Last : stage[i].at \in {"send", "buffered"} <=> stage[i].chunk # Nothing
    /\ stage[0].chunk \in Nat => stage[0].chunk = sent /\ sent \in 1 .. Total
    /\ handler.at = "write" <=> handler.chunk # Nothing

\* Nothing but errors can reach position p any more.
Dry(p) == \E k \in 0 .. p - 1 : IsEnded(k) /\ \A j \in k + 1 .. p - 1 : ~Carries(j)

\* Behind an error, and after one that was written, comes no value.
ErrorsAreLast ==
    /\ \A p \in 1 .. Last : stage[p].chunk = Err => Dry(p)
    /\ handler.chunk = Err \/ (handler.kind = "api" /\ Streaming!Says(Err)) => Dry(Handler)
    /\ Streaming!Says(Err) =>
         IF handler.kind = "sse" THEN handler.at \in {"drain", "ended"} ELSE handler.chunk \notin Nat
    /\ Streaming!ErrorIsLast

\* What is at p can still get to the handler of HandleSSE, which has not left its loop.
Live == handler.kind = "sse" /\ handler.at \in {"recv", "write"}
Open(p) == \A j \in p + 1 .. Last : ~IsEnded(j)
Comes(n, p) == \E q \in 0 .. Handler : p < q /\ Chunk(q) = n

\* The values on their way continue those that were written, without a gap.
WrittenInOrder == Len(written) <= Total /\ \A i \in DOMAIN written : written[i] = i
NoGaps ==
    \A p \in 0 .. Handler :
        Open(p) /\ Carries(p) =>
            Len(written) < Chunk(p) /\ Chunk(p) <= Total /\ \A n \in Len(written) + 1 .. Chunk(p) - 1 : Comes(n, p)
InTurn ==
    \A p, q \in 0 .. Handler : q < p /\ Open(q) /\ Carries(p) /\ Carries(q) => Chunk(p) < Chunk(q)
SourceGoesOn ==
    stage[0].at = "work" /\ Open(0) =>
        /\ Len(written) <= sent /\ sent <= Total
        /\ \A n \in Len(written) + 1 .. sent : Comes(n, 0)
        /\ \A p \in 0 .. Handler : Carries(p) => Chunk(p) <= sent
ValuesAreInOrder == Live => WrittenInOrder /\ NoGaps /\ InTurn /\ SourceGoesOn

\* As long as nothing stops the stream, goroutines end from the inside, and what the source has
\* produced is written or on its way, or there is an error on its way.
Failing == \E p \in 0 .. Handler : Chunk(p) = Err
Calm == Live /\ expired = {} /\ ~cancelled
NothingIsLost ==
    Calm => /\ \A k \in 0 .. Last : IsEnded(k) => \A j \in 0 .. k : IsEnded(j)
            /\ Failing \/ \A n \in Len(written) + 1 .. sent : \E q \in 0 .. Handler : Chunk(q) = n
            /\ Failing \/ (IsEnded(0) => Total <= sent)

EndsWhole ==
    /\ cancelled => gone \/ handler.at \in {"drain", "ended"}
    /\ handler.kind = "sse" /\ handler.at = "drain" => ~Streaming!Says(Done)
    /\ Streaming!DoneIsComplete

StreamsInv ==
    /\ StreamTypes
    /\ StageShape
    /\ ErrorsAreLast
    /\ ValuesAreInOrder
    /\ NothingIsLost
    /\ EndsWhole
-----------------------------------------------------------------------------
\* Facts about positions.
LEMMA StreamBasics ==
    ASSUME StreamTypes
    PROVE  /\ Last \in Nat /\ Total \in Nat \ {0} /\ Handler \in Nat
           /\ Relays = 1 .. Last /\ 0 \in 0 .. Last /\ Last \in 0 .. Last
           /\ Len(written) \in Nat /\ DOMAIN written = 1 .. Len(written)
           /\ Nothing \notin Nat /\ Err \notin Nat /\ Done \notin Nat
           /\ Err # Nothing /\ Done # Nothing /\ Err # Done
<1>1. Last \in Nat /\ Handler \in Nat /\ Relays = 1 .. Last
  BY DEF StreamTypes, Last, Handler, Streaming!Last, Relays, Streaming!Relays
<1>2. Total \in Nat \ {0}
  BY StreamsAssumption DEF Total, Streaming!Total
<1>3. Len(written) \in Nat /\ DOMAIN written = 1 .. Len(written)
  BY DEF StreamTypes
<1> QED BY <1>1, <1>2, <1>3, EventsAssumption

LEMMA StagesAre ==
    ASSUME StreamTypes, NEW p \in 0 .. Last
    PROVE  /\ stage[p].at \in {"work", "buffered", "recv", "send", "ended"} /\ stage[p].chunk \in Chunks
           /\ Chunk(p) = stage[p].chunk /\ p # Handler /\ p \in Nat
           /\ stage[p] = [at |-> stage[p].at, chunk |-> stage[p].chunk]
<1>1. stage[p] \in [at : {"work", "buffered", "recv", "send", "ended"}, chunk : Chunks]
  BY DEF StreamTypes
<1>2. p # Handler /\ p \in Nat
  BY StreamBasics DEF Handler
<1> QED BY <1>1, <1>2 DEF Chunk

\* The pipeline of a response is what it was.
Same == pipeline' = pipeline /\ source' = source
LEMMA SameSetup ==
    ASSUME Same
    PROVE  Last' = Last /\ Total' = Total /\ Relays' = Relays /\ Handler' = Handler
  BY DEF Same, Last, Total, Relays, Handler, Streaming!Last, Streaming!Total, Streaming!Relays

\* Only a goroutine that sends, and the buffer of Invoke, hold a chunk.
LEMMA EndedHoldsNothing ==
    ASSUME StreamTypes, StageShape, NEW p \in 0 .. Last, stage[p].at \notin {"send", "buffered"}
    PROVE  stage[p].chunk = Nothing /\ Chunk(p) = Nothing /\ ~Carries(p)
<1>1. stage[p].chunk = Nothing
  BY DEF StageShape
<1> QED BY <1>1, StagesAre, StreamBasics DEF Carries

-----------------------------------------------------------------------------
(* The moves: what each action of a goroutine does, position by position.  *)

\* The chunk of p is handed to the next position.
Hands(p) ==
    /\ p \in 0 .. Last /\ Chunk(p) # Nothing /\ Chunk(p + 1) = Nothing /\ ~IsEnded(p)
    /\ p < Last => ~IsEnded(p + 1) /\ ~IsEnded(p + 1)'
    /\ Chunk(p + 1)' = Chunk(p) /\ Chunk(p)' = Nothing
    /\ \A r \in 0 .. Handler : r \notin {p, p + 1} => Chunk(r)' = Chunk(r)
    /\ \A r \in 0 .. Last : r # p => IsEnded(r)' = IsEnded(r)
    /\ p > 0 => ~IsEnded(p)' /\ stage'[0].at = stage[0].at
    /\ p = 0 => \/ stage'[0].at = "work" /\ Chunk(0) # Err
                \/ stage'[0].at = "ended" /\ (source = "invoke" \/ Chunk(0) = Err)

\* The goroutine at p ends, and drops what it holds; it may leave an error to the next position.
Drops(p) ==
    /\ p \in 0 .. Last /\ IsEnded(p)' /\ Chunk(p)' = Nothing
    /\ \/ Chunk(p + 1)' = Chunk(p + 1)
       \/ Chunk(p + 1) = Nothing /\ Chunk(p + 1)' = Err
    /\ \A r \in 0 .. Handler : r \notin {p, p + 1} => Chunk(r)' = Chunk(r)
    /\ \A r \in 0 .. Last : r # p => IsEnded(r)' = IsEnded(r)
    /\ p > 0 => stage'[0].at = stage[0].at

\* Nothing moves.
Rests ==
    /\ \A r \in 0 .. Handler : Chunk(r)' = Chunk(r)
    /\ \A r \in 0 .. Last : IsEnded(r)' = IsEnded(r)
    /\ stage'[0].at = stage[0].at

Quiet == sent' = sent /\ written' = written /\ handler'.kind = handler.kind

LEMMA StagesChange ==
    ASSUME StreamTypes, StageShape, Same, DOMAIN stage' = 0 .. Last, sent' = sent,
           \A p \in 0 .. Last :
               \/ stage'[p] = stage[p]
               \/ stage'[p] = Streaming!Ended
               \/ p > 0 /\ stage'[p] = Streaming!Receiving
               \/ p > 0 /\ \E e \in Nat \union {Err} : stage'[p] = Streaming!Holding(e)
               \/ p = 0 /\ stage'[p] = [at |-> "work", chunk |-> Nothing],
           stage' = [p \in 0 .. Last |-> stage'[p]],
           handler' \in [kind : {"sse", "api"}, at : {"recv", "write", "drain", "ended"}, chunk : Chunks],
           handler'.at = "write" <=> handler'.chunk # Nothing,
           written' \in Seq(Nat \union {Err, Done}), cancelled' \in BOOLEAN, gone' \in BOOLEAN
    PROVE  StreamTypes' /\ StageShape'
<1> USE StreamBasics, SameSetup
<1>1. ASSUME NEW p \in 0 .. Last
      PROVE  /\ stage'[p] \in [at : {"work", "buffered", "recv", "send", "ended"}, chunk : Chunks]
             /\ stage'[p].at \in {"send", "buffered"} <=> stage'[p].chunk # Nothing
             /\ p > 0 => stage'[p].at \in {"recv", "send", "ended"}
             /\ p = 0 => /\ stage'[p].at \in IF source = "invoke" THEN {"work", "buffered", "ended"} ELSE {"work", "send", "ended"}
                         /\ stage'[p].chunk \in Nat => stage'[p].chunk = sent /\ sent \in 1 .. Total
  <2>1. stage[p] \in [at : {"work", "buffered", "recv", "send", "ended"}, chunk : Chunks]
    BY DEF StreamTypes
  <2>2. /\ stage[p].at \in {"send", "buffered"} <=> stage[p].chunk # Nothing
        /\ p > 0 => stage[p].at \in {"recv", "send", "ended"}
        /\ p = 0 => /\ stage[p].at \in IF source = "invoke" THEN {"work", "buffered", "ended"} ELSE {"work", "send", "ended"}
                    /\ stage[p].chunk \in Nat => stage[p].chunk = sent /\ sent \in 1 .. Total
    BY DEF StageShape
  <2>3. CASE stage'[p] = stage[p]
    BY <2>1, <2>2, <2>3
  <2>4. CASE stage'[p] = Streaming!Ended
    BY <2>4 DEF Streaming!Ended, Chunks
  <2>5. CASE p > 0 /\ stage'[p] = Streaming!Receiving
    BY <2>5 DEF Streaming!Receiving, Chunks
  <2>6. CASE p > 0 /\ \E e \in Nat \union {Err} : stage'[p] = Streaming!Holding(e)
    BY <2>6 DEF Streaming!Holding, Chunks
  <2>7. CASE p = 0 /\ stage'[p] = [at |-> "work", chunk |-> Nothing]
    BY <2>7 DEF Chunks
  <2> QED BY <2>3, <2>4, <2>5, <2>6, <2>7
<1>2. StreamTypes'
  <2>1. stage' \in [0 .. Last -> [at : {"work", "buffered", "recv", "send", "ended"}, chunk : Chunks]]
    BY <1>1
  <2> QED BY <2>1 DEF StreamTypes, Same, Chunks
<1>3. StageShape'
  BY <1>1 DEF StageShape, Same
<1> QED BY <1>2, <1>3

LEMMA PassMoves ==
    ASSUME StreamTypes, StageShape, NEW p \in 0 .. Last, Streaming!Pass(p)
    PROVE  /\ Hands(p) /\ Quiet /\ Same /\ StreamTypes' /\ StageShape'
           /\ handler' = handler /\ expired' = expired /\ cancelled' = cancelled /\ gone' = gone
<1> USE StreamBasics
<1>1. /\ Same /\ p < Last /\ stage[p].at \in {"send", "buffered"} /\ stage[p + 1].at = "recv"
      /\ stage' = [stage EXCEPT ![p] = Streaming!AfterSend(p), ![p + 1] = Streaming!Holding(stage[p].chunk)]
      /\ sent' = sent /\ handler' = handler /\ expired' = expired /\ cancelled' = cancelled /\ gone' = gone
      /\ written' = written
  BY DEF Streaming!Pass, Streaming!Offers, Streaming!setup, Same, Streaming!Last, Last
<1>2. p + 1 \in 0 .. Last /\ p + 1 # p /\ p + 1 \in Relays /\ p \in Nat
  BY <1>1
<1>3. stage[p].chunk \in Nat \union {Err} /\ stage[p + 1].chunk = Nothing
  BY <1>1, <1>2, StagesAre, EndedHoldsNothing DEF StageShape, Chunks
<1>4. /\ DOMAIN stage' = 0 .. Last /\ stage' = [r \in 0 .. Last |-> stage'[r]]
      /\ stage'[p] = Streaming!AfterSend(p) /\ stage'[p + 1] = Streaming!Holding(stage[p].chunk)
      /\ \A r \in 0 .. Last : r \notin {p, p + 1} => stage'[r] = stage[r]
  BY <1>1, <1>2 DEF StreamTypes
<1>5. /\ p > 0 => stage'[p] = Streaming!Receiving
      /\ p = 0 => IF source = "invoke" \/ stage[p].chunk = Err THEN stage'[p] = Streaming!Ended
                  ELSE stage'[p] = [at |-> "work", chunk |-> Nothing]
  BY <1>2, <1>4 DEF Streaming!AfterSend
<1>6. StreamTypes' /\ StageShape'
  <2>1. \A r \in 0 .. Last :
               \/ stage'[r] = stage[r]
               \/ stage'[r] = Streaming!Ended
               \/ r > 0 /\ stage'[r] = Streaming!Receiving
               \/ r > 0 /\ \E e \in Nat \union {Err} : stage'[r] = Streaming!Holding(e)
               \/ r = 0 /\ stage'[r] = [at |-> "work", chunk |-> Nothing]
    BY <1>2, <1>3, <1>4, <1>5
  <2>2. /\ handler' \in [kind : {"sse", "api"}, at : {"recv", "write", "drain", "ended"}, chunk : Chunks]
        /\ handler'.at = "write" <=> handler'.chunk # Nothing
        /\ written' \in Seq(Nat \union {Err, Done}) /\ cancelled' \in BOOLEAN /\ gone' \in BOOLEAN
    BY <1>1 DEF StreamTypes, StageShape
  <2> QED BY <1>1, <1>4, <2>1, <2>2, StagesChange
<1>7. /\ stage'[p].chunk = Nothing /\ (p > 0 => stage'[p].at = "recv")
      /\ stage'[p + 1].at = "send" /\ stage'[p + 1].chunk = stage[p].chunk
      /\ p = 0 => stage'[0].at = IF source = "invoke" \/ stage[p].chunk = Err THEN "ended" ELSE "work"
  BY <1>4, <1>5 DEF Streaming!Receiving, Streaming!Ended, Streaming!Holding
<1>8. Hands(p)
  <2>1. /\ Handler' = Handler /\ p # Handler /\ p + 1 # Handler
        /\ \A r \in 0 .. Handler : r = Handler \/ (r \in 0 .. Last /\ r # Handler)
    BY <1>1, <1>2, SameSetup DEF Handler
  <2>2. \A r \in 0 .. Handler : r \notin {p, p + 1} => Chunk(r)' = Chunk(r)
    BY <1>1, <1>4, <2>1 DEF Chunk
  <2>3. Chunk(p + 1)' = Chunk(p) /\ Chunk(p)' = Nothing /\ Chunk(p) # Nothing /\ Chunk(p + 1) = Nothing
    BY <1>3, <1>7, <2>1 DEF Chunk
  <2>4. /\ ~IsEnded(p) /\ ~IsEnded(p + 1) /\ ~IsEnded(p + 1)' /\ (p > 0 => ~IsEnded(p)')
        /\ \A r \in 0 .. Last : r # p => IsEnded(r)' = IsEnded(r)
    BY <1>1, <1>2, <1>4, <1>7 DEF IsEnded
  <2>5. p > 0 => stage'[0].at = stage[0].at
    BY <1>2, <1>4
  <2>6. p = 0 => \/ stage'[0].at = "work" /\ Chunk(0) # Err
                 \/ stage'[0].at = "ended" /\ (source = "invoke" \/ Chunk(0) = Err)
    BY <1>7, <2>1 DEF Chunk
  <2> QED BY <2>2, <2>3, <2>4, <2>5, <2>6 DEF Hands
<1> QED BY <1>1, <1>6, <1>8 DEF Quiet

LEMMA DeliverMoves ==
    ASSUME StreamTypes, StageShape, Streaming!Deliver
    PROVE  /\ Quiet /\ Same /\ StreamTypes' /\ StageShape'
           /\ expired' = expired /\ cancelled' = cancelled /\ gone' = gone
           /\ handler.at \in {"recv", "drain"}
           /\ handler.at = "recv" => Hands(Last) /\ handler'.at = "write" /\ handler'.chunk = stage[Last].chunk
           /\ handler.at # "recv" => handler' = handler
           /\ \A r \in 0 .. Last : r # Last => stage'[r] = stage[r]
           /\ stage'[Last].chunk = Nothing /\ ~IsEnded(Last) /\ (Last > 0 => ~IsEnded(Last)')
           /\ stage[Last].chunk = Err /\ Last = 0 => IsEnded(0)'
<1> USE StreamBasics
<1>0. PICK p \in 0 .. Last : p = Last
  OBVIOUS
<1> USE <1>0
<1>1. /\ Same /\ stage[p].at \in {"send", "buffered"} /\ handler.at \in {"recv", "drain"}
      /\ stage' = [stage EXCEPT ![p] = Streaming!AfterSend(p)]
      /\ handler' = Streaming!Received(stage[p].chunk)
      /\ sent' = sent /\ expired' = expired /\ cancelled' = cancelled /\ gone' = gone /\ written' = written
  BY DEF Streaming!Deliver, Streaming!Offers, Streaming!setup, Same, Streaming!Last, Last
<1>2. stage[p].chunk \in Nat \union {Err} /\ stage[p].chunk # Nothing
  BY <1>1, StagesAre DEF StageShape, Chunks
<1>3. /\ DOMAIN stage' = 0 .. Last /\ stage' = [r \in 0 .. Last |-> stage'[r]]
      /\ stage'[p] = Streaming!AfterSend(p)
      /\ \A r \in 0 .. Last : r # p => stage'[r] = stage[r]
  BY <1>1 DEF StreamTypes
<1>4. /\ p > 0 => stage'[p] = Streaming!Receiving
      /\ p = 0 => IF source = "invoke" \/ stage[p].chunk = Err THEN stage'[p] = Streaming!Ended
                  ELSE stage'[p] = [at |-> "work", chunk |-> Nothing]
  BY <1>3 DEF Streaming!AfterSend
<1>5. /\ handler \in [kind : {"sse", "api"}, at : {"recv", "write", "drain", "ended"}, chunk : Chunks]
      /\ handler.at = "write" <=> handler.chunk # Nothing
  BY DEF StreamTypes, StageShape
<1>6. /\ handler.at = "recv" => handler' = [handler EXCEPT !.at = "write", !.chunk = stage[p].chunk]
      /\ handler.at # "recv" => handler' = handler
  BY <1>1 DEF Streaming!Received
<1>7. /\ handler' \in [kind : {"sse", "api"}, at : {"recv", "write", "drain", "ended"}, chunk : Chunks]
      /\ handler'.at = "write" <=> handler'.chunk # Nothing
      /\ handler'.kind = handler.kind
      /\ handler.at = "recv" => handler'.at = "write" /\ handler'.chunk = stage[p].chunk
  <2>1. CASE handler.at = "recv"
    BY <1>2, <1>5, <1>6, <2>1 DEF Chunks
  <2>2. CASE handler.at # "recv"
    BY <1>5, <1>6, <2>2
  <2> QED BY <2>1, <2>2
<1>8. StreamTypes' /\ StageShape'
  <2>1. \A r \in 0 .. Last :
               \/ stage'[r] = stage[r]
               \/ stage'[r] = Streaming!Ended
               \/ r > 0 /\ stage'[r] = Streaming!Receiving
               \/ r > 0 /\ \E e \in Nat \union {Err} : stage'[r] = Streaming!Holding(e)
               \/ r = 0 /\ stage'[r] = [at |-> "work", chunk |-> Nothing]
    BY <1>3, <1>4
  <2>2. written' \in Seq(Nat \union {Err, Done}) /\ cancelled' \in BOOLEAN /\ gone' \in BOOLEAN
    BY <1>1 DEF StreamTypes
  <2> QED BY <1>1, <1>3, <1>7, <2>1, <2>2, StagesChange
<1>9. /\ stage'[p].chunk = Nothing /\ (p > 0 => stage'[p].at = "recv")
      /\ p = 0 => stage'[0].at = IF source = "invoke" \/ stage[p].chunk = Err THEN "ended" ELSE "work"
  BY <1>3, <1>4 DEF Streaming!Receiving, Streaming!Ended
<1>10. ASSUME handler.at = "recv" PROVE Hands(p)
  <2>1. /\ Handler' = Handler /\ p # Handler /\ p + 1 = Handler
        /\ \A r \in 0 .. Handler : r = Handler \/ (r \in 0 .. Last /\ r # Handler)
    BY <1>1, SameSetup DEF Handler
  <2>2. \A r \in 0 .. Handler : r \notin {p, p + 1} => Chunk(r)' = Chunk(r)
    BY <1>1, <1>3, <2>1 DEF Chunk
  <2>3. Chunk(p + 1)' = Chunk(p) /\ Chunk(p)' = Nothing /\ Chunk(p) # Nothing /\ Chunk(p + 1) = Nothing
    BY <1>2, <1>5, <1>7, <1>9, <1>10, <2>1 DEF Chunk
  <2>4. /\ ~IsEnded(p) /\ (p > 0 => ~IsEnded(p)')
        /\ \A r \in 0 .. Last : r # p => IsEnded(r)' = IsEnded(r)
    BY <1>1, <1>3, <1>9 DEF IsEnded
  <2>5. p > 0 => stage'[0].at = stage[0].at
    BY <1>3
  <2>6. p = 0 => \/ stage'[0].at = "work" /\ Chunk(0) # Err
                 \/ stage'[0].at = "ended" /\ (source = "invoke" \/ Chunk(0) = Err)
    BY <1>9, <2>1 DEF Chunk
  <2> QED BY <2>2, <2>3, <2>4, <2>5, <2>6 DEF Hands
<1>11. ~IsEnded(p) /\ (p > 0 => ~IsEnded(p)') /\ (stage[p].chunk = Err /\ p = 0 => IsEnded(0)')
  BY <1>1, <1>9 DEF IsEnded
<1>12. (Last > 0 => ~IsEnded(Last)') /\ (stage[Last].chunk = Err /\ Last = 0 => IsEnded(0)')
  BY <1>1, <1>11, SameSetup
<1> QED BY <1>1, <1>3, <1>6, <1>7, <1>8, <1>9, <1>10, <1>11, <1>12 DEF Quiet

\* A goroutine that ends; the error it may leave goes to a stage or to the handler.
LEMMA EndMoves ==
    ASSUME StreamTypes, StageShape, Same, sent' = sent, written' = written,
           NEW p \in 0 .. Last,
           \/ stage' = [stage EXCEPT ![p] = Streaming!Ended] /\ handler' = handler
           \/ /\ p < Last /\ stage[p + 1].at = "recv" /\ handler' = handler
              /\ stage' = [stage EXCEPT ![p] = Streaming!Ended, ![p + 1] = Streaming!Holding(Err)]
           \/ /\ p = Last /\ handler.at \in {"recv", "drain"} /\ handler' = Streaming!Received(Err)
              /\ stage' = [stage EXCEPT ![p] = Streaming!Ended],
           cancelled' = cancelled, gone' = gone
    PROVE  Drops(p) /\ Quiet /\ StreamTypes' /\ StageShape' /\ (handler.at # "recv" => handler' = handler)
<1> USE StreamBasics
<1>1. /\ p \in Nat /\ p # p + 1 /\ Handler' = Handler /\ p # Handler
      /\ \A r \in 0 .. Handler : r = Handler \/ (r \in 0 .. Last /\ r # Handler)
  BY SameSetup DEF Handler
<1>2. /\ DOMAIN stage' = 0 .. Last /\ stage' = [r \in 0 .. Last |-> stage'[r]]
      /\ stage'[p] = Streaming!Ended
      /\ \A r \in 0 .. Last : r \notin {p, p + 1} => stage'[r] = stage[r]
  BY <1>1 DEF StreamTypes
<1>3. /\ handler \in [kind : {"sse", "api"}, at : {"recv", "write", "drain", "ended"}, chunk : Chunks]
      /\ handler.at = "write" <=> handler.chunk # Nothing
  BY DEF StreamTypes, StageShape
<1>4. \/ handler' = handler
      \/ /\ p = Last /\ handler.at = "recv" /\ handler' = [handler EXCEPT !.at = "write", !.chunk = Err]
         /\ stage' = [stage EXCEPT ![p] = Streaming!Ended]
  BY DEF Streaming!Received
<1>5. /\ handler' \in [kind : {"sse", "api"}, at : {"recv", "write", "drain", "ended"}, chunk : Chunks]
      /\ handler'.at = "write" <=> handler'.chunk # Nothing
      /\ handler'.kind = handler.kind /\ (handler.at # "recv" => handler' = handler)
  BY <1>3, <1>4 DEF Chunks
<1>6. p < Last => \/ stage'[p + 1] = stage[p + 1]
                  \/ stage[p + 1].at = "recv" /\ stage'[p + 1] = Streaming!Holding(Err)
  BY <1>1 DEF StreamTypes
<1>7. StreamTypes' /\ StageShape'
  <2>1. \A r \in 0 .. Last :
               \/ stage'[r] = stage[r]
               \/ stage'[r] = Streaming!Ended
               \/ r > 0 /\ stage'[r] = Streaming!Receiving
               \/ r > 0 /\ \E e \in Nat \union {Err} : stage'[r] = Streaming!Holding(e)
               \/ r = 0 /\ stage'[r] = [at |-> "work", chunk |-> Nothing]
    BY <1>1, <1>2, <1>6
  <2>2. written' \in Seq(Nat \union {Err, Done}) /\ cancelled' \in BOOLEAN /\ gone' \in BOOLEAN
    BY DEF StreamTypes
  <2> QED BY <1>2, <1>5, <2>1, <2>2, StagesChange
<1>8. /\ stage'[p].at = "ended" /\ stage'[p].chunk = Nothing
      /\ p < Last => \/ stage'[p + 1] = stage[p + 1]
                     \/ /\ stage[p + 1].at = "recv" /\ stage[p + 1].chunk = Nothing
                        /\ stage'[p + 1].at = "send" /\ stage'[p + 1].chunk = Err
  <2>1. p < Last /\ stage[p + 1].at = "recv" => stage[p + 1].chunk = Nothing
    BY <1>1, EndedHoldsNothing
  <2> QED BY <1>2, <1>6, <2>1 DEF Streaming!Ended, Streaming!Holding
<1>9. p < Last => \/ Chunk(p + 1)' = Chunk(p + 1)
                  \/ Chunk(p + 1) = Nothing /\ Chunk(p + 1)' = Err
  BY <1>1, <1>8 DEF Chunk, Handler
<1>10. p = Last => \/ Chunk(p + 1)' = Chunk(p + 1)
                   \/ Chunk(p + 1) = Nothing /\ Chunk(p + 1)' = Err
  <2>1. p = Last => p + 1 = Handler
    BY DEF Handler
  <2>2. handler'.chunk = handler.chunk \/ (handler.chunk = Nothing /\ handler'.chunk = Err)
    BY <1>3, <1>4
  <2> QED BY <1>1, <2>1, <2>2 DEF Chunk
<1>11. \A r \in 0 .. Handler : r \notin {p, p + 1} => Chunk(r)' = Chunk(r)
  <2>1. ASSUME NEW r \in 0 .. Last, r \notin {p, p + 1} PROVE Chunk(r)' = Chunk(r)
    BY <1>1, <1>2, <2>1 DEF Chunk, Handler
  <2>2. Handler # p + 1 => Chunk(Handler)' = Chunk(Handler)
    <3>1. Handler # p + 1 => handler' = handler
      BY <1>1, <1>4 DEF Handler
    <3> QED BY <1>1, <3>1 DEF Chunk
  <2> QED BY <1>1, <2>1, <2>2
<1>12. \A r \in 0 .. Last : r # p => IsEnded(r)' = IsEnded(r)
  BY <1>1, <1>2, <1>8 DEF IsEnded
<1>13. p > 0 => stage'[0].at = stage[0].at
  BY <1>1, <1>2
<1>14. IsEnded(p)' /\ Chunk(p)' = Nothing
  BY <1>1, <1>8 DEF IsEnded, Chunk
<1> QED BY <1>1, <1>5, <1>7, <1>9, <1>10, <1>11, <1>12, <1>13, <1>14 DEF Drops, Quiet

LEMMA SourceEndsMoves ==
    ASSUME StreamTypes, StageShape, Streaming!SourceEnds
    PROVE  /\ Drops(0) /\ Quiet /\ Same /\ StreamTypes' /\ StageShape'
           /\ handler' = handler /\ expired' = expired /\ cancelled' = cancelled /\ gone' = gone
           /\ stage[0].at # "ended"
           /\ (stage[0].at = "work" /\ sent = Total) \/ Streaming!ContextDone(0)
<1>1. /\ Same /\ stage' = [stage EXCEPT ![0] = Streaming!Ended] /\ handler' = handler
      /\ sent' = sent /\ written' = written /\ expired' = expired /\ cancelled' = cancelled /\ gone' = gone
      /\ stage[0].at # "ended"
      /\ (stage[0].at = "work" /\ sent = Total) \/ Streaming!ContextDone(0)
  BY DEF Streaming!SourceEnds, Streaming!setup, Same, Total
<1>2. 0 \in 0 .. Last
  BY StreamBasics
<1>3. Drops(0) /\ Quiet /\ StreamTypes' /\ StageShape'
  BY <1>1, <1>2, EndMoves
<1> QED BY <1>1, <1>3

LEMMA EndOfInputMoves ==
    ASSUME StreamTypes, StageShape, NEW p \in Relays, Streaming!EndOfInput(p)
    PROVE  /\ Drops(p) /\ Quiet /\ Same /\ StreamTypes' /\ StageShape'
           /\ handler' = handler /\ expired' = expired /\ cancelled' = cancelled /\ gone' = gone
           /\ stage[p].at = "recv" /\ IsEnded(p - 1)
<1>1. /\ Same /\ stage' = [stage EXCEPT ![p] = Streaming!Ended] /\ handler' = handler
      /\ sent' = sent /\ written' = written /\ expired' = expired /\ cancelled' = cancelled /\ gone' = gone
      /\ stage[p].at = "recv" /\ IsEnded(p - 1)
  BY DEF Streaming!EndOfInput, Streaming!setup, Same, IsEnded
<1>2. p \in 0 .. Last
  BY StreamBasics
<1>3. Drops(p) /\ Quiet /\ StreamTypes' /\ StageShape'
  BY <1>1, <1>2, EndMoves
<1> QED BY <1>1, <1>3

LEMMA StopMoves ==
    ASSUME StreamTypes, StageShape, NEW p \in Relays, Streaming!Stop(p)
    PROVE  /\ Drops(p) /\ Quiet /\ Same /\ StreamTypes' /\ StageShape'
           /\ handler.at # "recv" => handler' = handler
           /\ expired' = expired /\ cancelled' = cancelled /\ gone' = gone
           /\ ~IsEnded(p) /\ Streaming!ContextDone(p)
<1>1. /\ Same /\ sent' = sent /\ written' = written
      /\ expired' = expired /\ cancelled' = cancelled /\ gone' = gone
      /\ Streaming!ContextDone(p)
  BY DEF Streaming!Stop, Streaming!setup, Same
<1>2. ~IsEnded(p)
  BY DEF Streaming!Stop, Streaming!Watches, IsEnded
<1>3. \/ stage' = [stage EXCEPT ![p] = Streaming!Ended] /\ handler' = handler
      \/ /\ p < Last /\ stage[p + 1].at = "recv" /\ handler' = handler
         /\ stage' = [stage EXCEPT ![p] = Streaming!Ended, ![p + 1] = Streaming!Holding(Err)]
      \/ /\ ~(p < Last) /\ handler.at \in {"recv", "drain"} /\ handler' = Streaming!Received(Err)
         /\ stage' = [stage EXCEPT ![p] = Streaming!Ended]
  BY DEF Streaming!Stop, Streaming!AfterDone, Streaming!AfterReport, Last
<1>4. p \in 0 .. Last /\ (~(p < Last) => p = Last)
  BY StreamBasics
<1>5. Drops(p) /\ Quiet /\ StreamTypes' /\ StageShape' /\ (handler.at # "recv" => handler' = handler)
  BY <1>1, <1>3, <1>4, EndMoves
<1> QED BY <1>1, <1>2, <1>5

\* The source makes a chunk: its next value, or an error.
LEMMA ProduceMoves ==
    ASSUME StreamTypes, StageShape, Streaming!Produce
    PROVE  /\ Same /\ StreamTypes' /\ StageShape' /\ sent' = sent + 1 /\ written' = written
           /\ handler' = handler /\ expired' = expired /\ cancelled' = cancelled /\ gone' = gone
           /\ stage[0].at = "work" /\ Chunk(0) = Nothing
           /\ (Chunk(0)' = sent + 1 /\ sent < Total) \/ Chunk(0)' = Err
           /\ \A r \in 1 .. Handler : Chunk(r)' = Chunk(r)
           /\ \A r \in 0 .. Last : IsEnded(r)' = IsEnded(r)
           /\ stage'[0].at # "work"
<1> USE StreamBasics
<1>1. /\ Same /\ stage[0].at = "work" /\ sent' = sent + 1 /\ handler' = handler
      /\ written' = written /\ expired' = expired /\ cancelled' = cancelled /\ gone' = gone
  BY DEF Streaming!Produce, Streaming!setup, Same
<1>2. PICK e : /\ (e = sent + 1 /\ sent < Total) \/ e = Err
               /\ stage' = [stage EXCEPT ![0] = [at |-> IF source = "invoke" THEN "buffered" ELSE "send", chunk |-> e]]
  BY DEF Streaming!Produce, Streaming!Produced, Total
<1>3. /\ DOMAIN stage' = 0 .. Last /\ stage' = [r \in 0 .. Last |-> stage'[r]]
      /\ stage'[0] = [at |-> IF source = "invoke" THEN "buffered" ELSE "send", chunk |-> e]
      /\ \A r \in 0 .. Last : r # 0 => stage'[r] = stage[r]
  BY <1>2 DEF StreamTypes
<1>4. e \in Nat \union {Err} /\ sent' \in Nat /\ (e \in Nat => e = sent' /\ sent' \in 1 .. Total)
  BY <1>1, <1>2 DEF StreamTypes
<1>5. StreamTypes'
  <2>1. \A r \in 0 .. Last : stage'[r] \in [at : {"work", "buffered", "recv", "send", "ended"}, chunk : Chunks]
    <3>1. stage'[0] \in [at : {"work", "buffered", "recv", "send", "ended"}, chunk : Chunks]
      BY <1>3, <1>4 DEF Chunks
    <3>2. \A r \in 0 .. Last : stage[r] \in [at : {"work", "buffered", "recv", "send", "ended"}, chunk : Chunks]
      BY DEF StreamTypes
    <3> QED BY <1>3, <3>1, <3>2
  <2>2. stage' \in [0 .. Last -> [at : {"work", "buffered", "recv", "send", "ended"}, chunk : Chunks]]
    BY <1>3, <2>1
  <2> QED BY <1>1, <1>4, <2>2, SameSetup DEF StreamTypes, Same, Chunks
<1>6. StageShape'
  <2>1. /\ stage'[0].at \in IF source = "invoke" THEN {"work", "buffered", "ended"} ELSE {"work", "send", "ended"}
        /\ stage'[0].chunk \in Nat => stage'[0].chunk = sent' /\ sent' \in 1 .. Total
        /\ stage'[0].at \in {"send", "buffered"} <=> stage'[0].chunk # Nothing
    BY <1>3, <1>4
  <2>2. \A r \in Relays : stage'[r].at \in {"recv", "send", "ended"}
    BY <1>3 DEF StageShape
  <2>3. \A r \in 0 .. Last : stage'[r].at \in {"send", "buffered"} <=> stage'[r].chunk # Nothing
    BY <1>3, <2>1 DEF StageShape
  <2> QED BY <1>1, <2>1, <2>2, <2>3, SameSetup DEF StageShape, Same
<1>7. /\ Handler' = Handler /\ 0 # Handler
      /\ \A r \in 1 .. Handler : r = Handler \/ (r \in 0 .. Last /\ r # Handler)
  BY <1>1, SameSetup DEF Handler
<1>8. \A r \in 1 .. Handler : Chunk(r)' = Chunk(r)
  BY <1>1, <1>3, <1>7 DEF Chunk
<1>9. (Chunk(0)' = sent + 1 /\ sent < Total) \/ Chunk(0)' = Err
  BY <1>2, <1>3, <1>7 DEF Chunk
<1>10. Chunk(0) = Nothing
  BY <1>1, EndedHoldsNothing
<1>11. (\A r \in 0 .. Last : IsEnded(r)' = IsEnded(r)) /\ stage'[0].at # "work"
  BY <1>1, <1>3 DEF IsEnded
<1> QED BY <1>1, <1>5, <1>6, <1>8, <1>9, <1>10, <1>11

\* The handler and the contexts: no stage moves.
LEMMA HandlerMoves ==
    ASSUME StreamTypes, StageShape, Same, stage' = stage, sent' = sent,
           \/ handler'.at = handler.at /\ handler'.chunk = handler.chunk
           \/ handler'.at \in {"recv", "drain", "ended"} /\ handler'.chunk = Nothing,
           handler' = [kind |-> handler.kind, at |-> handler'.at, chunk |-> handler'.chunk],
           written' = written \/ \E e \in Nat \union {Err, Done} : written' = Append(written, e),
           cancelled' \in BOOLEAN, gone' \in BOOLEAN
    PROVE  StreamTypes' /\ StageShape'
<1> USE StreamBasics, SameSetup
<1>1. /\ handler' \in [kind : {"sse", "api"}, at : {"recv", "write", "drain", "ended"}, chunk : Chunks]
      /\ handler'.at = "write" <=> handler'.chunk # Nothing
  BY DEF StreamTypes, StageShape, Chunks
<1>2. written' \in Seq(Nat \union {Err, Done})
  <2>1. written \in Seq(Nat \union {Err, Done})
    BY DEF StreamTypes
  <2>2. ASSUME NEW e \in Nat \union {Err, Done} PROVE Append(written, e) \in Seq(Nat \union {Err, Done})
    BY <2>1
  <2> QED BY <2>1, <2>2
<1>3. StreamTypes'
  BY <1>1, <1>2 DEF StreamTypes, Same, Chunks
<1>4. StageShape'
  BY <1>1 DEF StageShape, Same
<1> QED BY <1>3, <1>4

-----------------------------------------------------------------------------
(* Errors.                                                                 *)

\* Of a step: who ended stays so, and a chunk comes from where it was or from the position before.
Advances ==
    /\ \A k \in 0 .. Last : IsEnded(k) => IsEnded(k)'
    /\ \A j \in 1 .. Handler : Chunk(j)' \in Nat => Chunk(j) \in Nat \/ Chunk(j - 1) \in Nat
    /\ \A j \in 1 .. Handler : Chunk(j)' = Err =>
           \/ Chunk(j) = Err
           \/ IsEnded(j - 1)'
           \/ j - 1 > 0 /\ Chunk(j - 1) = Err /\ Chunk(j - 1)' = Nothing

LEMMA MovesAdvance ==
    ASSUME StreamTypes, StageShape, Same
    PROVE  /\ \A p : Hands(p) => Advances
           /\ \A p : Drops(p) => Advances
           /\ Rests => Advances
<1> USE StreamBasics
<1>1. ASSUME NEW p, Hands(p) PROVE Advances
  <2>1. p \in 0 .. Last /\ p + 1 \in 1 .. Handler /\ p \in Nat
    BY <1>1 DEF Hands, Handler
  <2>2. \A k \in 0 .. Last : IsEnded(k) => IsEnded(k)'
    BY <1>1 DEF Hands
  <2>3. \A j \in 1 .. Handler : j = p + 1 \/ j = p \/ Chunk(j)' = Chunk(j)
    BY <1>1, <2>1 DEF Hands
  <2>4. Chunk(p)' = Nothing /\ Chunk(p + 1)' = Chunk(p) /\ p + 1 - 1 = p
    BY <1>1, <2>1 DEF Hands
  <2>5. \A j \in 1 .. Handler : Chunk(j)' \in Nat => Chunk(j) \in Nat \/ Chunk(j - 1) \in Nat
    BY <2>1, <2>3, <2>4, SameSetup DEF Chunk
  <2>6. p = 0 /\ Chunk(p) = Err => IsEnded(p)'
    BY <1>1 DEF Hands, IsEnded
  <2>7. \A j \in 1 .. Handler : Chunk(j)' = Err =>
           \/ Chunk(j) = Err
           \/ IsEnded(j - 1)'
           \/ j - 1 > 0 /\ Chunk(j - 1) = Err /\ Chunk(j - 1)' = Nothing
    BY <2>1, <2>3, <2>4, <2>6
  <2> QED BY <2>2, <2>5, <2>7 DEF Advances
<1>2. ASSUME NEW p, Drops(p) PROVE Advances
  <2>1. p \in 0 .. Last /\ p + 1 \in 1 .. Handler /\ p \in Nat
    BY <1>2 DEF Drops, Handler
  <2>2. \A k \in 0 .. Last : IsEnded(k) => IsEnded(k)'
    BY <1>2 DEF Drops
  <2>3. \A j \in 1 .. Handler : j = p + 1 \/ Chunk(j)' = Nothing \/ Chunk(j)' = Chunk(j)
    BY <1>2, <2>1 DEF Drops
  <2>4. IsEnded(p)' /\ (Chunk(p + 1)' = Chunk(p + 1) \/ Chunk(p + 1)' = Err) /\ p + 1 - 1 = p
    BY <1>2, <2>1 DEF Drops
  <2>5. \A j \in 1 .. Handler : Chunk(j)' \in Nat => Chunk(j) \in Nat
    BY <2>3, <2>4
  <2>6. \A j \in 1 .. Handler : Chunk(j)' = Err => Chunk(j) = Err \/ IsEnded(j - 1)'
    BY <2>1, <2>3, <2>4, SameSetup DEF Chunk, IsEnded
  <2> QED BY <2>2, <2>5, <2>6 DEF Advances
<1>3. Rests => Advances
  BY DEF Rests, Advances
<1> QED BY <1>1, <1>2, <1>3

LEMMA DryStays ==
    ASSUME StreamTypes, StageShape, Same, Advances, NEW q \in 1 .. Handler, Dry(q)
    PROVE  Dry(q)'
<1> USE StreamBasics
<1>1. PICK k \in 0 .. q - 1 : IsEnded(k) /\ \A j \in k + 1 .. q - 1 : ~Carries(j)
  BY DEF Dry
<1>2. k \in 0 .. Last /\ ~Carries(k)
  <2>1. k \in 0 .. Last
    BY DEF Handler
  <2> QED BY <1>1, <2>1, EndedHoldsNothing DEF IsEnded
<1>3. ASSUME NEW j \in k + 1 .. q - 1 PROVE ~Carries(j)'
  <2>1. j \in 1 .. Handler /\ (j - 1 = k \/ j - 1 \in k + 1 .. q - 1)
    BY <1>2
  <2> QED BY <1>1, <1>2, <2>1 DEF Advances, Carries
<1>4. IsEnded(k)'
  BY <1>1, <1>2 DEF Advances
<1> QED BY <1>3, <1>4 DEF Dry

LEMMA ErrorsBehindDry ==
    ASSUME StreamTypes, StageShape, Same, Advances, StageShape',
           \A j \in 1 .. Handler : Chunk(j) = Err => Dry(j)
    PROVE  \A j \in 1 .. Handler : Chunk(j)' = Err => Dry(j)'
<1> USE StreamBasics
<1> SUFFICES ASSUME NEW j \in 1 .. Handler, Chunk(j)' = Err PROVE Dry(j)'
  OBVIOUS
<1>1. CASE Chunk(j) = Err
  BY <1>1, DryStays
<1>2. CASE IsEnded(j - 1)'
  <2>1. j - 1 \in 0 .. j - 1 /\ (j - 1) + 1 .. j - 1 = {}
    OBVIOUS
  <2> QED BY <1>2, <2>1 DEF Dry
<1>3. CASE j - 1 > 0 /\ Chunk(j - 1) = Err /\ Chunk(j - 1)' = Nothing
  <2>1. j - 1 \in 1 .. Handler
    BY <1>3
  <2>2. Dry(j - 1)'
    BY <1>3, <2>1, DryStays
  <2>3. PICK k \in 0 .. (j - 1) - 1 : IsEnded(k)' /\ \A r \in k + 1 .. (j - 1) - 1 : ~Carries(r)'
    BY <2>2 DEF Dry
  <2>4. k \in 0 .. j - 1 /\ \A r \in k + 1 .. j - 1 : r = j - 1 \/ r \in k + 1 .. (j - 1) - 1
    OBVIOUS
  <2>5. ~Carries(j - 1)'
    BY <1>3 DEF Carries
  <2> QED BY <2>3, <2>4, <2>5 DEF Dry
<1> QED BY <1>1, <1>2, <1>3 DEF Advances

LEMMA DryHandler ==
    ASSUME StreamTypes, StageShape, Dry(Handler)
    PROVE  ~Carries(Last)
<1> USE StreamBasics
<1>1. PICK k \in 0 .. Handler - 1 : IsEnded(k) /\ \A j \in k + 1 .. Handler - 1 : ~Carries(j)
  BY DEF Dry
<1>2. Handler - 1 = Last
  BY DEF Handler
<1>3. CASE k = Last
  BY <1>1, <1>3, EndedHoldsNothing DEF IsEnded
<1>4. CASE k # Last
  BY <1>1, <1>2, <1>4
<1> QED BY <1>3, <1>4

LEMMA HandlerChunk ==
    ASSUME StreamTypes
    PROVE  Chunk(Handler) = handler.chunk /\ Handler \in 1 .. Handler /\ Handler - 1 = Last
  BY StreamBasics DEF Chunk, Handler

LEMMA StagesOrHandler ==
    ASSUME StreamTypes, NEW j \in 1 .. Handler
    PROVE  j = Handler \/ (j \in 1 .. Last /\ j \in 0 .. Last /\ Chunk(j) = stage[j].chunk)
<1>1. j = Handler \/ (j \in 1 .. Last /\ j \in 0 .. Last)
  BY StreamBasics DEF Handler
<1> QED BY <1>1, StagesAre

\* As long as nothing is written, the moves keep errors last.
LEMMA ErrorsMove ==
    ASSUME StreamTypes, StageShape, StreamTypes', StageShape', Same, Advances, ErrorsAreLast, written' = written,
           handler'.kind = handler.kind,
           handler.at \in {"drain", "ended"} => handler'.at \in {"drain", "ended"}
    PROVE  ErrorsAreLast'
<1> USE StreamBasics, SameSetup, HandlerChunk
<1>1. \A j \in 1 .. Handler : Chunk(j) = Err => Dry(j)
  BY StagesOrHandler DEF ErrorsAreLast
<1>2. \A j \in 1 .. Handler : Chunk(j)' = Err => Dry(j)'
  BY <1>1, ErrorsBehindDry
<1>3. Streaming!Says(Err)' <=> Streaming!Says(Err)
  BY DEF Streaming!Says
<1>4. \A j \in 1 .. Last : stage'[j].chunk = Err => Dry(j)'
  <2>1. \A j \in 1 .. Last : j \in 1 .. Handler /\ j # Handler
    BY DEF Handler
  <2>2. \A j \in 1 .. Last : Chunk(j)' = stage'[j].chunk
    BY <2>1 DEF Chunk
  <2> QED BY <1>2, <2>1, <2>2
<1>5. handler'.chunk = Err \/ (handler'.kind = "api" /\ Streaming!Says(Err)') => Dry(Handler)'
  <2>1. Chunk(Handler)' = handler'.chunk
    BY DEF Chunk
  <2>2. handler'.chunk = Err => Dry(Handler)'
    BY <1>2, <2>1
  <2>3. handler.kind = "api" /\ Streaming!Says(Err) => Dry(Handler)'
    BY DryStays DEF ErrorsAreLast
  <2> QED BY <1>3, <2>2, <2>3
<1>6. Streaming!Says(Err)' =>
         IF handler'.kind = "sse" THEN handler'.at \in {"drain", "ended"} ELSE handler'.chunk \notin Nat
  <2>1. CASE handler.kind = "sse"
    BY <1>3, <2>1 DEF ErrorsAreLast
  <2>2. CASE handler.kind # "sse" /\ Streaming!Says(Err)
    <3>1. handler.kind = "api"
      BY <2>2 DEF StreamTypes
    <3>2. handler.chunk \notin Nat /\ Dry(Handler)
      BY <2>2, <3>1 DEF ErrorsAreLast
    <3>3. Chunk(Last) \notin Nat /\ Chunk(Handler) \notin Nat
      BY <3>2, DryHandler DEF Carries
    <3>4. Chunk(Handler)' \notin Nat
      BY <3>3 DEF Advances
    <3>5. Chunk(Handler)' = handler'.chunk
      BY DEF Chunk
    <3> QED BY <2>2, <3>4, <3>5
  <2> QED BY <1>3, <2>1, <2>2
<1>7. Streaming!ErrorIsLast'
  BY DEF ErrorsAreLast, Streaming!ErrorIsLast
<1> HIDE DEF ErrorsAreLast
<1> QED BY <1>4, <1>5, <1>6, <1>7 DEF ErrorsAreLast

LEMMA AppendIs ==
    ASSUME StreamTypes, NEW e
    PROVE  /\ Len(Append(written, e)) = Len(written) + 1
           /\ \A i \in 1 .. Len(written) : Append(written, e)[i] = written[i]
           /\ Append(written, e)[Len(written) + 1] = e
           /\ DOMAIN Append(written, e) = 1 .. Len(written) + 1
  BY StreamBasics DEF StreamTypes

\* Write and WriteDone.
LEMMA ErrorsWritten ==
    ASSUME StreamTypes, StageShape, StreamTypes', StageShape', Same, ErrorsAreLast, stage' = stage,
           handler'.kind = handler.kind, handler'.chunk = Nothing,
           NEW e \in Nat \union {Err, Done}, written' = written \/ written' = Append(written, e),
           handler.kind = "api" => e \in {handler.chunk, Done},
           handler.kind = "sse" => handler.at \notin {"drain", "ended"},
           handler.kind = "sse" /\ e = Err => handler'.at \in {"drain", "ended"}
    PROVE  ErrorsAreLast'
<1> USE StreamBasics, SameSetup, HandlerChunk
<1>1. Streaming!Says(Err)' => Streaming!Says(Err) \/ (written' = Append(written, e) /\ e = Err)
  BY AppendIs DEF Streaming!Says
<1>2. Streaming!Says(Err) => handler.kind = "api" /\ handler.chunk \notin Nat
  BY DEF ErrorsAreLast, StreamTypes
<1>3. \A j \in 1 .. Handler : Dry(j)' <=> Dry(j)
  <2>1. \A k \in 0 .. Last : (IsEnded(k)' <=> IsEnded(k)) /\ (Carries(k)' <=> Carries(k))
    BY DEF IsEnded, Carries, Chunk, Handler
  <2>2. \A j \in 1 .. Handler : \A k \in 0 .. j - 1 : k \in 0 .. Last /\ \A r \in k + 1 .. j - 1 : r \in 0 .. Last
    BY DEF Handler
  <2> QED BY <2>1, <2>2 DEF Dry
<1>4. \A j \in 1 .. Last : stage'[j].chunk = Err => Dry(j)'
  <2>1. \A j \in 1 .. Last : j \in 1 .. Handler
    BY DEF Handler
  <2> QED BY <1>3, <2>1 DEF ErrorsAreLast
<1>5. handler'.kind = "api" /\ Streaming!Says(Err)' => Dry(Handler)'
  BY <1>1, <1>3 DEF ErrorsAreLast
<1>6. Streaming!Says(Err)' /\ handler'.kind = "sse" => handler'.at \in {"drain", "ended"}
  BY <1>1, <1>2
<1>7. Streaming!ErrorIsLast'
  <2>1. SUFFICES ASSUME NEW i \in 1 .. Len(written'), NEW j \in 1 .. Len(written'), written'[i] = Err, i < j
                 PROVE  handler.kind = "api" /\ written'[j] \in {Err, Done}
    BY DEF Streaming!ErrorIsLast
  <2>2. CASE written' = written
    BY <2>1, <2>2 DEF ErrorsAreLast, Streaming!ErrorIsLast
  <2>3. CASE written' = Append(written, e) /\ j \in 1 .. Len(written)
    <3>1. i \in 1 .. Len(written) /\ written[i] = Err /\ written'[j] = written[j]
      BY <2>1, <2>3, AppendIs
    <3> QED BY <2>1, <2>3, <3>1 DEF ErrorsAreLast, Streaming!ErrorIsLast
  <2>4. CASE written' = Append(written, e) /\ j = Len(written) + 1
    <3>1. i \in 1 .. Len(written) /\ written[i] = Err /\ written'[j] = e
      BY <2>1, <2>4, AppendIs
    <3>2. Streaming!Says(Err)
      BY <3>1 DEF Streaming!Says
    <3> QED BY <1>2, <3>1, <3>2
  <2>5. j \in 1 .. Len(written) \/ j = Len(written) + 1 \/ written' = written
    BY <2>1, AppendIs
  <2> QED BY <2>2, <2>3, <2>4, <2>5
<1> QED BY <1>4, <1>5, <1>6, <1>7 DEF ErrorsAreLast

-----------------------------------------------------------------------------
(* The order of the values.                                                *)

LEMMA OpenAbove ==
    ASSUME StreamTypes, NEW p \in 0 .. Handler, NEW q \in 0 .. Handler, q < p, Open(q)
    PROVE  Open(p)
<1>1. \A j \in p + 1 .. Last : j \in q + 1 .. Last
  BY StreamBasics
<1> QED BY <1>1 DEF Open

\* A chunk that is handed on: the values keep their order.
LEMMA OrderHands ==
    ASSUME StreamTypes, StageShape, StreamTypes', StageShape', Same, Quiet, NEW p, Hands(p), Live, ValuesAreInOrder
    PROVE  ValuesAreInOrder'
<1> USE StreamBasics, SameSetup
<1>1. /\ p \in 0 .. Last /\ p \in Nat /\ p \in 0 .. Handler /\ p + 1 \in 0 .. Handler /\ p + 1 # p
      /\ Chunk(p) # Nothing /\ Chunk(p + 1) = Nothing
      /\ Chunk(p + 1)' = Chunk(p) /\ Chunk(p)' = Nothing
      /\ \A r \in 0 .. Handler : r \notin {p, p + 1} => Chunk(r)' = Chunk(r)
  BY DEF Hands, Handler
<1>2. WrittenInOrder /\ NoGaps /\ InTurn /\ SourceGoesOn
  BY DEF ValuesAreInOrder
<1>3. written' = written /\ sent' = sent
  BY DEF Quiet
\* Where a value comes from.
<1> DEFINE From(r) == IF r = p + 1 THEN p ELSE r
<1>4. \A r \in 0 .. Handler : /\ From(r) \in 0 .. Handler
                              /\ r # p => Chunk(r)' = Chunk(From(r))
                              /\ Chunk(r)' \in Nat => r # p
  BY <1>1
<1>5. \A r \in 0 .. Handler : r # p /\ Open(r)' => Open(From(r))
  <2>1. \A r \in 1 .. Last : IsEnded(r) => IsEnded(r)'
    BY DEF Hands
  <2>2. \A r \in 0 .. Handler : Open(r)' => Open(r)
    <3>1. \A r \in 0 .. Handler : \A j \in r + 1 .. Last : j \in 1 .. Last
      OBVIOUS
    <3> QED BY <2>1, <3>1 DEF Open
  <2>3. Open(p + 1)' => Open(p)
    <3>1. Open(p + 1)' => Open(p + 1)
      BY <1>1, <2>2
    <3>2. \A j \in p + 1 .. Last : j = p + 1 \/ j \in (p + 1) + 1 .. Last
      BY <1>1
    <3>3. p < Last => ~IsEnded(p + 1)
      BY DEF Hands
    <3>4. p + 1 .. Last # {} => p < Last
      BY <1>1
    <3> QED BY <3>1, <3>2, <3>3, <3>4 DEF Open
  <2> QED BY <2>2, <2>3
<1>6. \A r \in 0 .. Handler : \A n \in Nat : r # p /\ Comes(n, From(r)) => Comes(n, r)'
  <2> SUFFICES ASSUME NEW r \in 0 .. Handler, NEW n \in Nat, r # p, Comes(n, From(r)) PROVE Comes(n, r)'
    OBVIOUS
  <2>1. PICK q \in 0 .. Handler : From(r) < q /\ Chunk(q) = n
    BY DEF Comes
  <2>2. q # p + 1
    BY <1>1, <2>1
  <2>3. CASE q = p
    <3>1. Chunk(p + 1)' = n /\ r < p + 1
      BY <1>1, <2>1, <2>3
    <3> QED BY <1>1, <3>1 DEF Comes
  <2>4. CASE q # p
    <3>1. Chunk(q)' = n /\ r < q
      BY <1>1, <2>1, <2>2, <2>4
    <3> QED BY <3>1 DEF Comes
  <2> QED BY <2>3, <2>4
<1>7. NoGaps'
  <2> SUFFICES ASSUME NEW r \in 0 .. Handler, Open(r)', Carries(r)'
               PROVE  /\ Len(written) < Chunk(r)' /\ Chunk(r)' <= Total
                      /\ \A n \in Len(written) + 1 .. Chunk(r)' - 1 : Comes(n, r)'
    BY <1>3 DEF NoGaps
  <2>1. r # p /\ Chunk(r)' = Chunk(From(r)) /\ Chunk(r)' \in Nat
    BY <1>4 DEF Carries
  <2>2. Open(From(r)) /\ Carries(From(r)) /\ From(r) \in 0 .. Handler
    BY <1>4, <1>5, <2>1 DEF Carries
  <2>3. /\ Len(written) < Chunk(From(r)) /\ Chunk(From(r)) <= Total
        /\ \A n \in Len(written) + 1 .. Chunk(From(r)) - 1 : Comes(n, From(r))
    BY <1>2, <2>2 DEF NoGaps
  <2> HIDE DEF From
  <2> QED BY <1>6, <2>1, <2>3
<1>8. InTurn'
  <2> SUFFICES ASSUME NEW r \in 0 .. Handler, NEW q \in 0 .. Handler, q < r, Open(q)', Carries(r)', Carries(q)'
               PROVE  Chunk(r)' < Chunk(q)'
    BY DEF InTurn
  <2>1. /\ r # p /\ Chunk(r)' = Chunk(From(r)) /\ q # p /\ Chunk(q)' = Chunk(From(q))
        /\ Carries(From(r)) /\ Carries(From(q)) /\ Open(From(q))
    BY <1>4, <1>5 DEF Carries
  <2>2. From(q) < From(r)
    BY <1>1, <2>1
  <2> QED BY <1>2, <1>4, <2>1, <2>2 DEF InTurn
<1>9. SourceGoesOn'
  <2> SUFFICES ASSUME stage'[0].at = "work", Open(0)'
               PROVE  /\ Len(written) <= sent /\ sent <= Total
                      /\ \A n \in Len(written) + 1 .. sent : Comes(n, 0)'
                      /\ \A r \in 0 .. Handler : Carries(r)' => Chunk(r)' <= sent
    BY <1>3 DEF SourceGoesOn
  <2>0. Open(0)
    <3>1. CASE p # 0
      <4>1. From(0) = 0 /\ 0 \in 0 .. Handler
        BY <1>1
      <4> QED BY <1>5, <3>1, <4>1
    <3>2. CASE p = 0
      <4>1. Open(0 + 1)
        BY <1>1, <1>5, <3>2, OpenAbove DEF Open, Hands
      <4> QED BY <1>1, <1>5, <3>2, <4>1 DEF Open, Hands
    <3> QED BY <3>1, <3>2
  <2>1. CASE p # 0
    <3>1. stage[0].at = "work"
      BY <1>1, <2>1 DEF Hands
    <3>2. /\ Len(written) <= sent /\ sent <= Total
          /\ \A n \in Len(written) + 1 .. sent : Comes(n, 0)
          /\ \A r \in 0 .. Handler : Carries(r) => Chunk(r) <= sent
      BY <1>2, <2>0, <3>1 DEF SourceGoesOn
    <3>3. From(0) = 0
      BY <1>1
    <3>4. \A n \in Len(written) + 1 .. sent : Comes(n, 0)'
      BY <1>6, <2>1, <3>2, <3>3
    <3>5. \A r \in 0 .. Handler : Carries(r)' => Chunk(r)' <= sent
      BY <1>4, <3>2 DEF Carries
    <3> QED BY <3>2, <3>4, <3>5
  <2>2. CASE p = 0
    <3>1. Chunk(0) \in Nat /\ Chunk(0) = sent /\ sent \in 1 .. Total
      <4>1. Chunk(0) = stage[0].chunk /\ stage[0].chunk \in Chunks
        BY StagesAre
      <4>2. Chunk(0) # Err /\ Chunk(0) # Nothing
        BY <1>1, <2>2 DEF Hands
      <4> QED BY <4>1, <4>2 DEF Chunks, StageShape
    <3>2. /\ Len(written) < sent
          /\ \A n \in Len(written) + 1 .. sent - 1 : Comes(n, 0)
      BY <1>2, <2>0, <3>1 DEF NoGaps, Carries
    <3>3. \A n \in Len(written) + 1 .. sent : Comes(n, 0)'
      <4> SUFFICES ASSUME NEW n \in Len(written) + 1 .. sent PROVE Comes(n, 0)'
        OBVIOUS
      <4>1. CASE n = sent
        <5>1. Chunk(1)' = n /\ 1 \in 0 .. Handler
          BY <1>1, <2>2, <3>1, <4>1
        <5> QED BY <5>1 DEF Comes
      <4>2. CASE n # sent
        <5>1. PICK q \in 0 .. Handler : 0 < q /\ Chunk(q) = n
          <6>1. n \in Len(written) + 1 .. sent - 1
            BY <3>1, <4>2
          <6> QED BY <3>2, <6>1 DEF Comes
        <5>2. q # 1 /\ n \in Nat
          BY <1>1, <2>2, <5>1
        <5>3. Chunk(q)' = n
          BY <1>1, <2>2, <5>1, <5>2
        <5> QED BY <5>1, <5>3 DEF Comes
      <4> QED BY <4>1, <4>2
    <3>4. \A r \in 0 .. Handler : Carries(r)' => Chunk(r)' <= sent
      <4> SUFFICES ASSUME NEW r \in 0 .. Handler, Carries(r)' PROVE Chunk(r)' <= sent
        OBVIOUS
      <4>1. r # 0 /\ Chunk(r)' = Chunk(From(r)) /\ Carries(From(r)) /\ From(r) \in 0 .. Handler
        BY <1>4, <2>2 DEF Carries
      <4>2. CASE From(r) = 0
        BY <3>1, <4>1, <4>2
      <4>3. CASE From(r) # 0
        <5>1. Chunk(From(r)) < Chunk(0) \/ ~(0 < From(r))
          BY <1>2, <2>0, <3>1, <4>1 DEF InTurn, Carries
        <5> QED BY <3>1, <4>1, <4>3, <5>1 DEF Carries
      <4> QED BY <4>2, <4>3
    <3> QED BY <3>1, <3>2, <3>3, <3>4
  <2> QED BY <2>1, <2>2
<1>10. WrittenInOrder'
  BY <1>2, <1>3 DEF WrittenInOrder
<1> QED BY <1>7, <1>8, <1>9, <1>10 DEF ValuesAreInOrder

\* A goroutine that ends cuts off what is behind it.
LEMMA OrderDrops ==
    ASSUME StreamTypes, StageShape, Same, Quiet, NEW p, Drops(p), Live, ValuesAreInOrder
    PROVE  ValuesAreInOrder'
<1> USE StreamBasics, SameSetup
<1>1. /\ p \in 0 .. Last /\ p \in Nat /\ IsEnded(p)' /\ Chunk(p)' = Nothing
      /\ \A r \in 0 .. Handler : r # p /\ Chunk(r)' \in Nat => Chunk(r)' = Chunk(r)
      /\ \A r \in 0 .. Handler : r # p /\ Chunk(r) \in Nat => Chunk(r)' = Chunk(r)
  BY DEF Drops, Handler
<1>2. WrittenInOrder /\ NoGaps /\ InTurn /\ SourceGoesOn
  BY DEF ValuesAreInOrder
<1>3. written' = written /\ sent' = sent
  BY DEF Quiet
<1>4. \A r \in 0 .. Handler : Open(r)' => p <= r /\ Open(r)
  <2>1. \A r \in 0 .. Last : IsEnded(r) => IsEnded(r)'
    BY DEF Drops
  <2>2. \A r \in 0 .. Handler : Open(r)' => Open(r)
    <3>1. \A r \in 0 .. Handler : \A j \in r + 1 .. Last : j \in 0 .. Last
      OBVIOUS
    <3> QED BY <2>1, <3>1 DEF Open
  <2>3. \A r \in 0 .. Handler : Open(r)' => p <= r
    BY <1>1 DEF Open
  <2> QED BY <2>2, <2>3
<1>5. \A r \in 0 .. Handler : \A n \in Nat : p <= r /\ Comes(n, r) => Comes(n, r)'
  BY <1>1 DEF Comes
<1>6. NoGaps'
  <2> SUFFICES ASSUME NEW r \in 0 .. Handler, Open(r)', Carries(r)'
               PROVE  /\ Len(written) < Chunk(r)' /\ Chunk(r)' <= Total
                      /\ \A n \in Len(written) + 1 .. Chunk(r)' - 1 : Comes(n, r)'
    BY <1>3 DEF NoGaps
  <2>1. p <= r /\ Open(r) /\ Chunk(r)' = Chunk(r) /\ Carries(r)
    BY <1>1, <1>4 DEF Carries
  <2> QED BY <1>2, <1>5, <2>1 DEF NoGaps
<1>7. InTurn'
  <2> SUFFICES ASSUME NEW r \in 0 .. Handler, NEW q \in 0 .. Handler, q < r, Open(q)', Carries(r)', Carries(q)'
               PROVE  Chunk(r)' < Chunk(q)'
    BY DEF InTurn
  <2>1. Chunk(r)' = Chunk(r) /\ Chunk(q)' = Chunk(q) /\ Carries(r) /\ Carries(q) /\ Open(q)
    BY <1>1, <1>4 DEF Carries
  <2> QED BY <1>2, <2>1 DEF InTurn
<1>8. SourceGoesOn'
  <2>1. Open(0)' => p = 0 /\ stage'[0].at = "ended"
    BY <1>1, <1>4 DEF IsEnded
  <2> QED BY <2>1 DEF SourceGoesOn
<1>9. WrittenInOrder'
  BY <1>2, <1>3 DEF WrittenInOrder
<1> QED BY <1>6, <1>7, <1>8, <1>9 DEF ValuesAreInOrder

\* The source makes its next value.
LEMMA OrderProduce ==
    ASSUME StreamTypes, StageShape, Streaming!Produce, Live, ValuesAreInOrder
    PROVE  ValuesAreInOrder'
<1> USE StreamBasics
<1>1. /\ Same /\ sent' = sent + 1 /\ written' = written
      /\ stage[0].at = "work" /\ Chunk(0) = Nothing
      /\ (Chunk(0)' = sent + 1 /\ sent < Total) \/ Chunk(0)' = Err
      /\ \A r \in 1 .. Handler : Chunk(r)' = Chunk(r)
      /\ \A r \in 0 .. Last : IsEnded(r)' = IsEnded(r)
      /\ stage'[0].at # "work"
  BY ProduceMoves
<1>2. WrittenInOrder /\ NoGaps /\ InTurn /\ SourceGoesOn
  BY DEF ValuesAreInOrder
<1> USE <1>1, SameSetup
<1>3. \A r \in 0 .. Handler : r = 0 \/ r \in 1 .. Handler
  OBVIOUS
<1>4. \A r \in 0 .. Handler : Open(r)' <=> Open(r)
  <2>1. \A r \in 0 .. Handler : \A j \in r + 1 .. Last : j \in 0 .. Last
    OBVIOUS
  <2> QED BY <2>1 DEF Open
<1>5. \A r \in 0 .. Handler : \A n : Comes(n, r) => Comes(n, r)'
  <2> SUFFICES ASSUME NEW r \in 0 .. Handler, NEW n, Comes(n, r) PROVE Comes(n, r)'
    OBVIOUS
  <2>1. PICK q \in 0 .. Handler : r < q /\ Chunk(q) = n
    BY DEF Comes
  <2>2. Chunk(q)' = n
    BY <2>1
  <2> QED BY <2>1, <2>2 DEF Comes
<1>6. Open(0) => /\ Len(written) <= sent /\ sent <= Total
                 /\ \A n \in Len(written) + 1 .. sent : Comes(n, 0)
                 /\ \A r \in 0 .. Handler : Carries(r) => Chunk(r) <= sent
  BY <1>2 DEF SourceGoesOn
<1>7. Carries(0)' => Chunk(0)' = sent + 1 /\ sent < Total
  BY DEF Carries
<1>8. \A r \in 1 .. Handler : Carries(r)' <=> Carries(r)
  BY DEF Carries
<1>9. sent \in Nat
  BY DEF StreamTypes
<1>10. NoGaps'
  <2> SUFFICES ASSUME NEW r \in 0 .. Handler, Open(r)', Carries(r)'
               PROVE  /\ Len(written) < Chunk(r)' /\ Chunk(r)' <= Total
                      /\ \A n \in Len(written) + 1 .. Chunk(r)' - 1 : Comes(n, r)'
    BY DEF NoGaps
  <2>1. CASE r = 0
    <3>1. Chunk(0)' = sent + 1 /\ sent < Total /\ Open(0)
      BY <1>4, <1>7, <2>1
    <3>2. Len(written) <= sent /\ \A n \in Len(written) + 1 .. sent : Comes(n, 0)
      BY <1>6, <3>1
    <3>3. \A n \in Len(written) + 1 .. sent : Comes(n, 0)'
      BY <1>5, <3>2
    <3>4. Chunk(0)' - 1 = sent
      BY <1>9, <3>1
    <3> QED BY <1>9, <2>1, <3>1, <3>2, <3>3, <3>4
  <2>2. CASE r # 0
    <3>1. Open(r) /\ Carries(r) /\ Chunk(r)' = Chunk(r)
      BY <1>3, <1>4, <1>8, <2>2
    <3> QED BY <1>2, <1>5, <3>1 DEF NoGaps
  <2> QED BY <2>1, <2>2
<1>11. InTurn'
  <2> SUFFICES ASSUME NEW r \in 0 .. Handler, NEW q \in 0 .. Handler, q < r, Open(q)', Carries(r)', Carries(q)'
               PROVE  Chunk(r)' < Chunk(q)'
    BY DEF InTurn
  <2>1. r \in 1 .. Handler /\ Carries(r) /\ Chunk(r)' = Chunk(r) /\ Open(q)
    BY <1>4, <1>8
  <2>2. CASE q = 0
    <3>1. Chunk(r) <= sent /\ Chunk(0)' = sent + 1 /\ Chunk(r) \in Nat
      BY <1>6, <1>7, <2>1, <2>2 DEF Carries
    <3> QED BY <1>9, <2>1, <2>2, <3>1
  <2>3. CASE q # 0
    <3>1. Carries(q) /\ Chunk(q)' = Chunk(q)
      BY <1>3, <1>8, <2>3
    <3> QED BY <1>2, <2>1, <3>1 DEF InTurn
  <2> QED BY <2>2, <2>3
<1>12. WrittenInOrder' /\ SourceGoesOn'
  BY <1>2 DEF WrittenInOrder, SourceGoesOn
<1> QED BY <1>10, <1>11, <1>12 DEF ValuesAreInOrder

\* HandleSSE writes the value it holds: the next one.
LEMMA OrderWrite ==
    ASSUME StreamTypes, StageShape, Same, ValuesAreInOrder, Live, stage' = stage, sent' = sent,
           handler.chunk \in Nat, written' = Append(written, handler.chunk), handler'.chunk = Nothing
    PROVE  ValuesAreInOrder' /\ handler.chunk = Len(written) + 1
<1> USE StreamBasics, SameSetup
<1>1. WrittenInOrder /\ NoGaps /\ InTurn /\ SourceGoesOn
  BY DEF ValuesAreInOrder
<1>2. /\ Handler \in 0 .. Handler /\ Chunk(Handler) = handler.chunk /\ Open(Handler) /\ Carries(Handler)
      /\ Chunk(Handler)' = Nothing
  BY DEF Chunk, Open, Carries, Handler
<1>3. \A r \in 0 .. Handler : r # Handler => r < Handler /\ Chunk(r)' = Chunk(r)
  <2>1. \A r \in 0 .. Handler : r # Handler => r < Handler
    OBVIOUS
  <2> QED BY <2>1 DEF Chunk
<1>4. handler.chunk = Len(written) + 1 /\ handler.chunk <= Total
  <2>1. /\ Len(written) < handler.chunk /\ handler.chunk <= Total
        /\ \A n \in Len(written) + 1 .. handler.chunk - 1 : Comes(n, Handler)
    BY <1>1, <1>2 DEF NoGaps
  <2>2. \A n : ~Comes(n, Handler)
    BY DEF Comes
  <2>3. handler.chunk # Len(written) + 1 => Len(written) + 1 \in Len(written) + 1 .. handler.chunk - 1
    BY <2>1
  <2> QED BY <2>1, <2>2, <2>3
<1>5. /\ Len(written') = Len(written) + 1
      /\ \A i \in 1 .. Len(written) : written'[i] = written[i]
      /\ written'[Len(written) + 1] = handler.chunk
      /\ DOMAIN written' = 1 .. Len(written) + 1
  BY AppendIs
<1>6. \A r \in 0 .. Handler : Open(r)' <=> Open(r)
  BY DEF Open, IsEnded
<1>7. \A r \in 0 .. Handler : \A n : n # Len(written) + 1 /\ n # Nothing /\ Comes(n, r) => Comes(n, r)'
  <2> SUFFICES ASSUME NEW r \in 0 .. Handler, NEW n, n # Len(written) + 1, Comes(n, r) PROVE Comes(n, r)'
    OBVIOUS
  <2>1. PICK q \in 0 .. Handler : r < q /\ Chunk(q) = n
    BY DEF Comes
  <2>2. q # Handler
    BY <1>2, <1>4, <2>1
  <2>3. Chunk(q)' = n
    BY <1>3, <2>1, <2>2
  <2> QED BY <2>1, <2>3 DEF Comes
<1>8. \A r \in 0 .. Handler : Carries(r)' => r # Handler /\ Chunk(r)' = Chunk(r) /\ Carries(r)
  BY <1>2, <1>3 DEF Carries
<1>9. NoGaps'
  <2> SUFFICES ASSUME NEW r \in 0 .. Handler, Open(r)', Carries(r)'
               PROVE  /\ Len(written') < Chunk(r)' /\ Chunk(r)' <= Total
                      /\ \A n \in Len(written') + 1 .. Chunk(r)' - 1 : Comes(n, r)'
    BY DEF NoGaps
  <2>1. r # Handler /\ Chunk(r)' = Chunk(r) /\ Carries(r) /\ Open(r) /\ r < Handler /\ Chunk(r) \in Nat
    BY <1>3, <1>6, <1>8 DEF Carries
  <2>2. /\ Chunk(r) <= Total /\ \A n \in Len(written) + 1 .. Chunk(r) - 1 : Comes(n, r)
    BY <1>1, <2>1 DEF NoGaps
  <2>3. Len(written) + 1 < Chunk(r)
    BY <1>1, <1>2, <1>4, <2>1 DEF InTurn
  <2>4. ASSUME NEW n \in Len(written') + 1 .. Chunk(r)' - 1 PROVE Comes(n, r)'
    <3>1. n \in Len(written) + 1 .. Chunk(r) - 1 /\ n # Len(written) + 1 /\ n # Nothing
      BY <1>5, <2>1
    <3> QED BY <1>7, <2>2, <3>1
  <2> QED BY <1>5, <2>1, <2>2, <2>3, <2>4
<1>10. InTurn'
  <2> SUFFICES ASSUME NEW r \in 0 .. Handler, NEW q \in 0 .. Handler, q < r, Open(q)', Carries(r)', Carries(q)'
               PROVE  Chunk(r)' < Chunk(q)'
    BY DEF InTurn
  <2>1. Chunk(r)' = Chunk(r) /\ Chunk(q)' = Chunk(q) /\ Carries(r) /\ Carries(q) /\ Open(q)
    BY <1>6, <1>8
  <2> QED BY <1>1, <2>1 DEF InTurn
<1>11. SourceGoesOn'
  <2> SUFFICES ASSUME stage[0].at = "work", Open(0)
               PROVE  /\ Len(written') <= sent /\ sent <= Total
                      /\ \A n \in Len(written') + 1 .. sent : Comes(n, 0)'
                      /\ \A r \in 0 .. Handler : Carries(r)' => Chunk(r)' <= sent
    BY <1>6 DEF SourceGoesOn
  <2>1. /\ sent <= Total
        /\ \A n \in Len(written) + 1 .. sent : Comes(n, 0)
        /\ \A r \in 0 .. Handler : Carries(r) => Chunk(r) <= sent
    BY <1>1 DEF SourceGoesOn
  <2>2. Len(written) + 1 <= sent
    BY <1>2, <1>4, <2>1
  <2>3. ASSUME NEW n \in Len(written') + 1 .. sent PROVE Comes(n, 0)'
    <3>1. n \in Len(written) + 1 .. sent /\ n # Len(written) + 1 /\ n # Nothing
      BY <1>5 DEF StreamTypes
    <3> QED BY <1>7, <2>1, <3>1
  <2> QED BY <1>5, <1>8, <2>1, <2>2, <2>3
<1>12. WrittenInOrder'
  BY <1>1, <1>4, <1>5 DEF WrittenInOrder
<1> QED BY <1>4, <1>9, <1>10, <1>11, <1>12 DEF ValuesAreInOrder

LEMMA OrderRests ==
    ASSUME StreamTypes, Same, ValuesAreInOrder, Live' => Live, stage' = stage, sent' = sent, written' = written,
           handler'.chunk = handler.chunk
    PROVE  ValuesAreInOrder'
<1> USE StreamBasics, SameSetup
<1>1. \A r : /\ Chunk(r)' = Chunk(r) /\ (Carries(r)' <=> Carries(r))
             /\ (Open(r)' <=> Open(r)) /\ \A n : Comes(n, r)' <=> Comes(n, r)
  BY DEF Chunk, Carries, Open, IsEnded, Comes
<1>2. Live' => WrittenInOrder' /\ NoGaps' /\ InTurn' /\ SourceGoesOn'
  <2> SUFFICES ASSUME Live PROVE WrittenInOrder' /\ NoGaps' /\ InTurn' /\ SourceGoesOn'
    OBVIOUS
  <2>1. WrittenInOrder /\ NoGaps /\ InTurn /\ SourceGoesOn
    BY DEF ValuesAreInOrder
  <2>2. WrittenInOrder'
    BY <2>1 DEF WrittenInOrder
  <2>3. NoGaps'
    BY <1>1, <2>1 DEF NoGaps
  <2>4. InTurn'
    BY <1>1, <2>1 DEF InTurn
  <2>5. SourceGoesOn'
    BY <1>1, <2>1 DEF SourceGoesOn
  <2> QED BY <2>2, <2>3, <2>4, <2>5
<1> QED BY <1>2 DEF ValuesAreInOrder

-----------------------------------------------------------------------------
(* The whole stream.                                                       *)

LEMMA CalmIsOpen ==
    ASSUME StreamTypes, Calm, NothingIsLost, NEW p \in 0 .. Last, ~IsEnded(p)
    PROVE  /\ \A j \in p .. Last : ~IsEnded(j)
           /\ Open(p)
           /\ ~Streaming!ContextDone(p)
<1> USE StreamBasics
<1>1. \A k \in 0 .. Last : IsEnded(k) => \A j \in 0 .. k : IsEnded(j)
  BY DEF NothingIsLost
<1>2. \A j \in p .. Last : ~IsEnded(j)
  <2> SUFFICES ASSUME NEW j \in p .. Last, IsEnded(j) PROVE FALSE
    OBVIOUS
  <2>1. j \in 0 .. Last /\ p \in 0 .. j
    OBVIOUS
  <2> QED BY <1>1, <2>1
<1>3. Open(p)
  BY <1>2 DEF Open
<1>4. ~Streaming!ContextDone(p)
  <2>1. ASSUME NEW j \in Streaming!Relays, j >= p, pipeline[j] = "timeout", j \in expired \/ stage[j].at = "ended"
        PROVE FALSE
    <3>1. j \in p .. Last
      BY <2>1 DEF Relays
    <3> QED BY <1>2, <2>1, <3>1 DEF Calm, IsEnded
  <2> QED BY <2>1 DEF Streaming!ContextDone, Calm
<1> QED BY <1>2, <1>3, <1>4

LEMMA LossHands ==
    ASSUME StreamTypes, StageShape, Same, Quiet, NEW p, Hands(p), Calm, NothingIsLost
    PROVE  NothingIsLost'
<1> USE StreamBasics, SameSetup
<1>1. /\ p \in 0 .. Last /\ p \in Nat /\ p \in 0 .. Handler /\ p + 1 \in 0 .. Handler
      /\ Chunk(p) # Nothing /\ Chunk(p + 1) = Nothing /\ ~IsEnded(p)
      /\ Chunk(p + 1)' = Chunk(p) /\ Chunk(p)' = Nothing
      /\ \A r \in 0 .. Handler : r \notin {p, p + 1} => Chunk(r)' = Chunk(r)
  BY DEF Hands, Handler
<1>2. \A e : e # Nothing /\ (\E q \in 0 .. Handler : Chunk(q) = e) => \E q \in 0 .. Handler : Chunk(q)' = e
  <2> SUFFICES ASSUME NEW e, e # Nothing, NEW q \in 0 .. Handler, Chunk(q) = e
               PROVE  \E r \in 0 .. Handler : Chunk(r)' = e
    OBVIOUS
  <2>1. CASE q = p
    BY <1>1, <2>1
  <2>2. CASE q # p
    <3>1. q # p + 1
      BY <1>1
    <3> QED BY <1>1, <2>2, <3>1
  <2> QED BY <2>1, <2>2
<1>3. written' = written /\ sent' = sent
  BY DEF Quiet
<1>4. Failing => Failing'
  BY <1>2 DEF Failing
<1>5. (\A n \in Len(written) + 1 .. sent : \E q \in 0 .. Handler : Chunk(q) = n)
         => \A n \in Len(written) + 1 .. sent : \E q \in 0 .. Handler : Chunk(q)' = n
  <2>1. \A n \in Len(written) + 1 .. sent : n # Nothing
    BY DEF StreamTypes
  <2> QED BY <1>2, <2>1
<1>6. Failing' \/ \A n \in Len(written') + 1 .. sent' : \E q \in 0 .. Handler : Chunk(q)' = n
  BY <1>3, <1>4, <1>5 DEF NothingIsLost
<1>7. \A k \in 0 .. Last : IsEnded(k)' => \A j \in 0 .. k : IsEnded(j)'
  <2> SUFFICES ASSUME NEW k \in 0 .. Last, IsEnded(k)', NEW j \in 0 .. k PROVE IsEnded(j)'
    OBVIOUS
  <2>1. CASE k = 0
    BY <2>1
  <2>2. CASE k # 0
    <3>1. k # p
      BY <1>1, <2>2 DEF Hands
    <3>2. IsEnded(k)
      BY <3>1 DEF Hands
    <3>3. \A r \in 0 .. k : IsEnded(r)
      BY <3>2 DEF NothingIsLost
    <3>4. j # p /\ j \in 0 .. Last
      BY <1>1, <3>3
    <3> QED BY <3>3, <3>4 DEF Hands
  <2> QED BY <2>1, <2>2
<1>8. Failing' \/ (IsEnded(0)' => Total' <= sent')
  <2> SUFFICES ASSUME IsEnded(0)', ~Failing' PROVE Total <= sent
    BY <1>3
  <2>1. CASE IsEnded(0)
    BY <1>4, <2>1 DEF NothingIsLost
  <2>2. CASE ~IsEnded(0)
    <3>1. p = 0
      BY <2>2 DEF Hands
    <3>2. Chunk(0) # Err
      BY <1>2, <1>1, <3>1 DEF Failing
    <3>3. source = "invoke" /\ Total = 1
      BY <3>1, <3>2 DEF Hands, IsEnded, Total, Streaming!Total
    <3>4. Chunk(0) = stage[0].chunk /\ stage[0].chunk \in Chunks
      BY StagesAre
    <3>5. stage[0].chunk \in Nat
      BY <1>1, <3>1, <3>2, <3>4 DEF Chunks
    <3> QED BY <3>3, <3>5 DEF StageShape
  <2> QED BY <2>1, <2>2
<1> QED BY <1>6, <1>7, <1>8 DEF NothingIsLost

\* A goroutine that ends because its input has ended, or because all is sent.
LEMMA LossEnds ==
    ASSUME StreamTypes, StageShape, Same, Quiet, NEW p, Drops(p), handler' = handler, Calm, NothingIsLost,
           Chunk(p) = Nothing, p = 0 => sent = Total, p > 0 => IsEnded(p - 1)
    PROVE  NothingIsLost'
<1> USE StreamBasics, SameSetup
<1>1. /\ p \in 0 .. Last /\ p \in Nat /\ IsEnded(p)' /\ Chunk(p)' = Nothing
      /\ \A r \in 0 .. Last : r # p => IsEnded(r)' = IsEnded(r)
      /\ \A r \in 0 .. Handler : Chunk(r) # Nothing => Chunk(r)' = Chunk(r)
  BY DEF Drops, Handler
<1>2. \A e : e # Nothing /\ (\E q \in 0 .. Handler : Chunk(q) = e) => \E q \in 0 .. Handler : Chunk(q)' = e
  BY <1>1
<1>3. written' = written /\ sent' = sent
  BY DEF Quiet
<1>4. Failing => Failing'
  BY <1>2 DEF Failing
<1>5. (\A n \in Len(written) + 1 .. sent : \E q \in 0 .. Handler : Chunk(q) = n)
         => \A n \in Len(written) + 1 .. sent : \E q \in 0 .. Handler : Chunk(q)' = n
  <2>1. \A n \in Len(written) + 1 .. sent : n # Nothing
    BY DEF StreamTypes
  <2> QED BY <1>2, <2>1
<1>6. Failing' \/ \A n \in Len(written') + 1 .. sent' : \E q \in 0 .. Handler : Chunk(q)' = n
  BY <1>3, <1>4, <1>5 DEF NothingIsLost
<1>7. \A k \in 0 .. Last : IsEnded(k)' => \A j \in 0 .. k : IsEnded(j)'
  <2>1. \A k \in 0 .. Last : IsEnded(k) => IsEnded(k)'
    BY <1>1
  <2>2. \A k \in 0 .. Last : \A j \in 0 .. k : j \in 0 .. Last
    OBVIOUS
  <2>3. \A k \in 0 .. Last : IsEnded(k) => \A j \in 0 .. k : IsEnded(j)'
    BY <2>1, <2>2 DEF NothingIsLost
  <2>4. \A j \in 0 .. p : j = p \/ (p > 0 /\ j \in 0 .. p - 1)
    BY <1>1
  <2>5. p > 0 => p - 1 \in 0 .. Last
    BY <1>1
  <2>6. \A j \in 0 .. p : IsEnded(j)'
    BY <1>1, <2>3, <2>4, <2>5
  <2> QED BY <1>1, <2>3, <2>6
<1>8. Failing' \/ (IsEnded(0)' => Total' <= sent')
  BY <1>1, <1>3, <1>4 DEF NothingIsLost
<1> QED BY <1>6, <1>7, <1>8 DEF NothingIsLost

LEMMA LossProduce ==
    ASSUME StreamTypes, StageShape, Streaming!Produce, Calm, NothingIsLost
    PROVE  NothingIsLost'
<1> USE StreamBasics
<1>1. /\ Same /\ sent' = sent + 1 /\ written' = written
      /\ stage[0].at = "work" /\ Chunk(0) = Nothing
      /\ (Chunk(0)' = sent + 1 /\ sent < Total) \/ Chunk(0)' = Err
      /\ \A r \in 1 .. Handler : Chunk(r)' = Chunk(r)
      /\ \A r \in 0 .. Last : IsEnded(r)' = IsEnded(r)
  BY ProduceMoves
<1> USE <1>1, SameSetup
<1>2. \A k \in 0 .. Last : IsEnded(k)' => \A j \in 0 .. k : IsEnded(j)'
  BY DEF NothingIsLost
<1>3. ~IsEnded(0)'
  BY DEF IsEnded
<1>4. 0 \in 0 .. Handler /\ \A r \in 0 .. Handler : r = 0 \/ r \in 1 .. Handler
  OBVIOUS
<1>5. \A e : e # Nothing /\ (\E q \in 0 .. Handler : Chunk(q) = e) => \E q \in 0 .. Handler : Chunk(q)' = e
  BY <1>4
<1>6. Failing' \/ \A n \in Len(written) + 1 .. sent + 1 : \E q \in 0 .. Handler : Chunk(q)' = n
  <2> SUFFICES ASSUME ~Failing' PROVE \A n \in Len(written) + 1 .. sent + 1 : \E q \in 0 .. Handler : Chunk(q)' = n
    OBVIOUS
  <2>1. ~Failing /\ Chunk(0)' = sent + 1
    BY <1>4, <1>5 DEF Failing
  <2>2. \A n \in Len(written) + 1 .. sent : \E q \in 0 .. Handler : Chunk(q) = n
    BY <2>1 DEF NothingIsLost
  <2>3. \A n \in Len(written) + 1 .. sent + 1 : n # Nothing /\ (n = sent + 1 \/ n \in Len(written) + 1 .. sent)
    BY DEF StreamTypes
  <2> QED BY <1>4, <1>5, <2>1, <2>2, <2>3
<1> QED BY <1>2, <1>3, <1>6 DEF NothingIsLost

LEMMA LossWrite ==
    ASSUME StreamTypes, StageShape, Same, Calm, NothingIsLost, stage' = stage, sent' = sent,
           handler.chunk = Len(written) + 1, written' = Append(written, handler.chunk), handler'.chunk = Nothing
    PROVE  NothingIsLost'
<1> USE StreamBasics, SameSetup
<1>1. Len(written') = Len(written) + 1
  BY AppendIs
<1>2. \A r \in 0 .. Handler : r # Handler => Chunk(r)' = Chunk(r)
  BY DEF Chunk
<1>3. Chunk(Handler) = Len(written) + 1
  BY DEF Chunk
<1>4. \A e : e # Len(written) + 1 /\ (\E q \in 0 .. Handler : Chunk(q) = e) => \E q \in 0 .. Handler : Chunk(q)' = e
  BY <1>2, <1>3
<1>5. Failing => Failing'
  BY <1>4 DEF Failing
<1>6. (\A n \in Len(written) + 1 .. sent : \E q \in 0 .. Handler : Chunk(q) = n)
         => \A n \in Len(written') + 1 .. sent : \E q \in 0 .. Handler : Chunk(q)' = n
  <2>1. \A n \in Len(written') + 1 .. sent : n # Len(written) + 1 /\ n \in Len(written) + 1 .. sent
    BY <1>1 DEF StreamTypes
  <2> QED BY <1>4, <2>1
<1>7. \A k : IsEnded(k)' <=> IsEnded(k)
  BY DEF IsEnded
<1> QED BY <1>5, <1>6, <1>7 DEF NothingIsLost

LEMMA LossRests ==
    ASSUME StreamTypes, Same, NothingIsLost, Calm' => Calm, stage' = stage, sent' = sent, written' = written,
           handler'.chunk = handler.chunk
    PROVE  NothingIsLost'
<1> USE StreamBasics, SameSetup
<1>1. \A r : Chunk(r)' = Chunk(r) /\ (IsEnded(r)' <=> IsEnded(r))
  BY DEF Chunk, IsEnded
<1>2. Failing' <=> Failing
  BY <1>1 DEF Failing
<1> QED BY <1>1, <1>2 DEF NothingIsLost

\* HandleSSE finds the channel closed while nothing has stopped the stream: it has written all of it.
LEMMA AllIsWritten ==
    ASSUME StreamTypes, StageShape, Calm, NothingIsLost, ValuesAreInOrder, IsEnded(Last), handler.at = "recv"
    PROVE  Len(written) = Total /\ \A i \in 1 .. Total : written[i] = i
<1> USE StreamBasics
<1>1. \A j \in 0 .. Last : IsEnded(j)
  BY DEF NothingIsLost
<1>2. \A q \in 0 .. Handler : Chunk(q) = Nothing
  <2>1. \A q \in 0 .. Last : Chunk(q) = Nothing
    BY <1>1, EndedHoldsNothing DEF IsEnded
  <2>2. Chunk(Handler) = Nothing
    BY DEF Chunk, StageShape
  <2>3. \A q \in 0 .. Handler : q \in 0 .. Last \/ q = Handler
    BY DEF Handler
  <2> QED BY <2>1, <2>2, <2>3
<1>3. ~Failing
  BY <1>2 DEF Failing
<1>4. sent >= Total
  BY <1>1, <1>3 DEF NothingIsLost, StreamTypes
<1>5. \A n \in Len(written) + 1 .. sent : FALSE
  <2>1. \A n \in Len(written) + 1 .. sent : n \in Nat /\ \E q \in 0 .. Handler : Chunk(q) = n
    BY <1>3 DEF NothingIsLost, StreamTypes
  <2> QED BY <1>2, <2>1
<1>6. Len(written) <= Total /\ \A i \in 1 .. Len(written) : written[i] = i
  BY DEF ValuesAreInOrder, Calm, WrittenInOrder
<1>7. sent <= Len(written)
  <2>1. ~(sent > Len(written)) \/ Len(written) + 1 \in Len(written) + 1 .. sent
    BY DEF StreamTypes
  <2> QED BY <1>5, <2>1 DEF StreamTypes
<1> QED BY <1>4, <1>6, <1>7 DEF StreamTypes

-----------------------------------------------------------------------------
(* Every step.                                                             *)

LEMMA EndsMove ==
    ASSUME StreamTypes, Same, EndsWhole, written' = written, handler'.kind = handler.kind, expired' = {} => expired = {},
           cancelled' => cancelled \/ gone' \/ handler'.at \in {"drain", "ended"}, gone => gone',
           handler.at \in {"drain", "ended"} => handler'.at \in {"drain", "ended"},
           handler'.at = "drain" => handler.at = "drain"
    PROVE  EndsWhole'
<1>1. Streaming!Says(Done)' <=> Streaming!Says(Done)
  BY DEF Streaming!Says
<1>2. Streaming!DoneIsComplete'
  <2>1. Streaming!Whole' = Streaming!Whole
    BY DEF Streaming!Whole, Streaming!Total, Same
  <2> QED BY <1>1, <2>1 DEF EndsWhole, Streaming!DoneIsComplete
<1> QED BY <1>1, <1>2 DEF EndsWhole

\* A move among the stages: a Pass, or a goroutine that ends.
LEMMA MoveKeeps ==
    ASSUME StreamsInv, StreamTypes', StageShape', Same, Quiet, Advances,
           expired' = expired, cancelled' = cancelled, gone' = gone,
           handler'.at = handler.at \/ (handler.at = "recv" /\ handler'.at = "write"),
           Live => ValuesAreInOrder', Calm => NothingIsLost'
    PROVE  StreamsInv'
<1>1. ErrorsAreLast'
  BY ErrorsMove DEF StreamsInv, Quiet
<1>2. ValuesAreInOrder'
  BY DEF ValuesAreInOrder, Live, Quiet
<1>3. NothingIsLost'
  BY DEF NothingIsLost, Calm, Live, Quiet
<1>4. EndsWhole'
  BY EndsMove DEF StreamsInv, Quiet
<1> QED BY <1>1, <1>2, <1>3, <1>4 DEF StreamsInv

LEMMA PassKeeps ==
    ASSUME StreamsInv, NEW p \in 0 .. Last, Streaming!Pass(p)
    PROVE  StreamsInv'
<1>0. StreamTypes /\ StageShape /\ ValuesAreInOrder /\ NothingIsLost
  BY DEF StreamsInv
<1>1. /\ Hands(p) /\ Quiet /\ Same /\ StreamTypes' /\ StageShape'
      /\ handler' = handler /\ expired' = expired /\ cancelled' = cancelled /\ gone' = gone
  BY <1>0, PassMoves
<1>2. Advances
  BY <1>0, <1>1, MovesAdvance
<1>3. Live => ValuesAreInOrder'
  BY <1>0, <1>1, OrderHands
<1>4. Calm => NothingIsLost'
  BY <1>0, <1>1, LossHands
<1> QED BY <1>1, <1>2, <1>3, <1>4, MoveKeeps

LEMMA DeliverKeeps ==
    ASSUME StreamsInv, Streaming!Deliver
    PROVE  StreamsInv'
<1>0. StreamTypes /\ StageShape /\ ValuesAreInOrder /\ NothingIsLost
  BY DEF StreamsInv
<1> USE <1>0, StreamBasics
<1>1. /\ Quiet /\ Same /\ StreamTypes' /\ StageShape'
      /\ expired' = expired /\ cancelled' = cancelled /\ gone' = gone
      /\ handler.at \in {"recv", "drain"}
      /\ handler.at = "recv" => Hands(Last) /\ handler'.at = "write" /\ handler'.chunk = stage[Last].chunk
      /\ handler.at # "recv" => handler' = handler
      /\ \A r \in 0 .. Last : r # Last => stage'[r] = stage[r]
      /\ stage'[Last].chunk = Nothing /\ ~IsEnded(Last)
  BY DeliverMoves
<1>2. CASE handler.at = "recv"
  <2>1. PICK p \in 0 .. Last : p = Last /\ Hands(p)
    BY <1>1, <1>2
  <2>2. Advances
    BY <1>1, <2>1, MovesAdvance
  <2>3. Live => ValuesAreInOrder'
    BY <1>1, <2>1, OrderHands
  <2>4. Calm => NothingIsLost'
    BY <1>1, <2>1, LossHands
  <2> QED BY <1>1, <1>2, <2>2, <2>3, <2>4, MoveKeeps
<1>3. CASE handler.at = "drain"
  <2>1. handler' = handler /\ ~Live /\ ~Calm
    BY <1>1, <1>3 DEF Live, Calm
  <2>2. Advances
    <3>1. \A k \in 0 .. Last : IsEnded(k) => IsEnded(k)'
      BY <1>1 DEF IsEnded
    <3>2. \A j \in 1 .. Handler : Chunk(j)' = Chunk(j) \/ Chunk(j)' = Nothing
      <4>1. \A j \in 1 .. Handler : j = Handler \/ (j \in 0 .. Last /\ j # Handler)
        BY DEF Handler
      <4> QED BY <1>1, <2>1, <4>1, SameSetup DEF Chunk
    <3> QED BY <3>1, <3>2 DEF Advances
  <2> QED BY <1>1, <2>1, <2>2, MoveKeeps
<1> QED BY <1>1, <1>2, <1>3

LEMMA SourceEndsKeeps ==
    ASSUME StreamsInv, Streaming!SourceEnds
    PROVE  StreamsInv'
<1>0. StreamTypes /\ StageShape /\ ValuesAreInOrder /\ NothingIsLost
  BY DEF StreamsInv
<1>1. /\ Drops(0) /\ Quiet /\ Same /\ StreamTypes' /\ StageShape'
      /\ handler' = handler /\ expired' = expired /\ cancelled' = cancelled /\ gone' = gone
      /\ stage[0].at # "ended"
      /\ (stage[0].at = "work" /\ sent = Total) \/ Streaming!ContextDone(0)
  BY <1>0, SourceEndsMoves
<1>2. Advances
  BY <1>0, <1>1, MovesAdvance
<1>3. Live => ValuesAreInOrder'
  BY <1>0, <1>1, OrderDrops
<1>4. ASSUME Calm PROVE NothingIsLost'
  <2>1. 0 \in 0 .. Last /\ ~IsEnded(0)
    BY <1>0, <1>1, StreamBasics DEF IsEnded
  <2>2. stage[0].at = "work" /\ sent = Total
    BY <1>0, <1>1, <1>4, <2>1, CalmIsOpen
  <2>3. Chunk(0) = Nothing
    BY <1>0, <2>1, <2>2, EndedHoldsNothing
  <2> QED BY <1>0, <1>1, <1>4, <2>2, <2>3, LossEnds
<1> QED BY <1>1, <1>2, <1>3, <1>4, MoveKeeps

LEMMA EndOfInputKeeps ==
    ASSUME StreamsInv, NEW p \in Relays, Streaming!EndOfInput(p)
    PROVE  StreamsInv'
<1>0. StreamTypes /\ StageShape /\ ValuesAreInOrder /\ NothingIsLost
  BY DEF StreamsInv
<1>1. /\ Drops(p) /\ Quiet /\ Same /\ StreamTypes' /\ StageShape'
      /\ handler' = handler /\ expired' = expired /\ cancelled' = cancelled /\ gone' = gone
      /\ stage[p].at = "recv" /\ IsEnded(p - 1)
  BY <1>0, EndOfInputMoves
<1>2. Advances
  BY <1>0, <1>1, MovesAdvance
<1>3. Live => ValuesAreInOrder'
  BY <1>0, <1>1, OrderDrops
<1>4. ASSUME Calm PROVE NothingIsLost'
  <2>1. p \in 0 .. Last /\ p > 0
    BY <1>0, StreamBasics
  <2>2. Chunk(p) = Nothing
    BY <1>0, <1>1, <2>1, EndedHoldsNothing
  <2> QED BY <1>0, <1>1, <1>4, <2>1, <2>2, LossEnds
<1> QED BY <1>1, <1>2, <1>3, <1>4, MoveKeeps

LEMMA StopKeeps ==
    ASSUME StreamsInv, NEW p \in Relays, Streaming!Stop(p)
    PROVE  StreamsInv'
<1>0. StreamTypes /\ StageShape /\ ValuesAreInOrder /\ NothingIsLost
  BY DEF StreamsInv
<1>1. /\ Drops(p) /\ Quiet /\ Same /\ StreamTypes' /\ StageShape'
      /\ handler.at # "recv" => handler' = handler
      /\ expired' = expired /\ cancelled' = cancelled /\ gone' = gone
      /\ ~IsEnded(p) /\ Streaming!ContextDone(p)
  BY <1>0, StopMoves
<1>2. Advances
  BY <1>0, <1>1, MovesAdvance
<1>3. Live => ValuesAreInOrder'
  BY <1>0, <1>1, OrderDrops
<1>4. ~Calm
  <2>1. p \in 0 .. Last
    BY <1>0, StreamBasics
  <2> QED BY <1>0, <1>1, <2>1, CalmIsOpen
<1>5. handler'.at = handler.at \/ (handler.at = "recv" /\ handler'.at = "write")
  <2>1. handler' = handler \/ handler' = Streaming!Received(Err)
    BY DEF Streaming!Stop
  <2>2. handler.at = "recv" => handler' = handler \/ handler'.at = "write"
    BY <1>0, <2>1 DEF Streaming!Received, StreamTypes
  <2> QED BY <1>1, <2>2
<1> QED BY <1>1, <1>2, <1>3, <1>4, <1>5, MoveKeeps

LEMMA ProduceKeeps ==
    ASSUME StreamsInv, Streaming!Produce
    PROVE  StreamsInv'
<1>0. StreamTypes /\ StageShape /\ ValuesAreInOrder /\ NothingIsLost /\ ErrorsAreLast /\ EndsWhole
  BY DEF StreamsInv
<1>1. /\ Same /\ StreamTypes' /\ StageShape' /\ sent' = sent + 1 /\ written' = written
      /\ handler' = handler /\ expired' = expired /\ cancelled' = cancelled /\ gone' = gone
      /\ \A r \in 1 .. Handler : Chunk(r)' = Chunk(r)
      /\ \A r \in 0 .. Last : IsEnded(r)' = IsEnded(r)
  BY <1>0, ProduceMoves
<1>2. Advances
  BY <1>1 DEF Advances
<1>3. ErrorsAreLast'
  BY <1>0, <1>1, <1>2, ErrorsMove
<1>4. ValuesAreInOrder'
  <2>1. Live => ValuesAreInOrder'
    BY <1>0, OrderProduce
  <2> QED BY <1>1, <2>1 DEF ValuesAreInOrder, Live
<1>5. NothingIsLost'
  <2>1. Calm => NothingIsLost'
    BY <1>0, LossProduce
  <2> QED BY <1>1, <2>1 DEF NothingIsLost, Calm, Live
<1>6. EndsWhole'
  BY <1>0, <1>1, EndsMove
<1> QED BY <1>1, <1>3, <1>4, <1>5, <1>6 DEF StreamsInv

\* Expire, ClientLeaves, Cancel and DrainEnds.
LEMMA StopsKeep ==
    ASSUME StreamsInv,
           \/ \E i \in Relays : Streaming!Expire(i)
           \/ Streaming!ClientLeaves \/ Streaming!Cancel \/ Streaming!DrainEnds
    PROVE  StreamsInv'
<1>0. StreamTypes /\ StageShape /\ ValuesAreInOrder /\ NothingIsLost /\ ErrorsAreLast /\ EndsWhole
  BY DEF StreamsInv
<1>1. /\ Same /\ stage' = stage /\ sent' = sent /\ written' = written
      /\ \/ handler' = handler
         \/ handler.at = "drain" /\ handler' = [handler EXCEPT !.at = "ended"]
      /\ expired \subseteq expired' /\ (cancelled' => cancelled \/ gone') /\ (gone => gone')
      /\ cancelled => cancelled'
  BY DEF Streaming!Expire, Streaming!ClientLeaves, Streaming!Cancel, Streaming!DrainEnds, Streaming!setup, Same
<1>2. cancelled' \in BOOLEAN /\ gone' \in BOOLEAN
  BY <1>0 DEF Streaming!Expire, Streaming!ClientLeaves, Streaming!Cancel, Streaming!DrainEnds, StreamTypes
<1>3. /\ handler' = [kind |-> handler.kind, at |-> handler'.at, chunk |-> handler'.chunk]
      /\ handler'.kind = handler.kind /\ handler'.chunk = handler.chunk
      /\ handler'.at = handler.at \/ (handler.at = "drain" /\ handler'.at = "ended" /\ handler.chunk = Nothing)
  BY <1>0, <1>1 DEF StreamTypes, StageShape
<1>4. StreamTypes' /\ StageShape'
  BY <1>0, <1>1, <1>2, <1>3, HandlerMoves
<1>5. ErrorsAreLast'
  <2>1. Rests
    BY <1>1, <1>3, SameSetup DEF Rests, Chunk, IsEnded
  <2>2. Advances
    BY <1>0, <1>1, <2>1, MovesAdvance
  <2> QED BY <1>0, <1>1, <1>3, <1>4, <2>2, ErrorsMove
<1>6. (Live' => Live) /\ (Calm' => Calm)
  BY <1>1, <1>2, <1>3 DEF Live, Calm, StreamTypes
<1>7. ValuesAreInOrder' /\ NothingIsLost'
  BY <1>0, <1>1, <1>3, <1>6, OrderRests, LossRests
<1>8. EndsWhole'
  <2>1. expired' = {} => expired = {}
    BY <1>1
  <2>2. /\ handler.at \in {"drain", "ended"} => handler'.at \in {"drain", "ended"}
        /\ handler'.at = "drain" => handler.at = "drain"
    BY <1>3
  <2> QED BY <1>0, <1>1, <1>3, <2>1, <2>2, EndsMove
<1> QED BY <1>4, <1>5, <1>7, <1>8 DEF StreamsInv

\* HandleSSE in its loop has not said "done".
LEMMA LiveSaysNoDone ==
    ASSUME StreamTypes, ValuesAreInOrder, Live
    PROVE  ~Streaming!Says(Done)
  BY StreamBasics DEF ValuesAreInOrder, WrittenInOrder, Streaming!Says

LEMMA SaysAppended ==
    ASSUME StreamTypes, NEW e, written' = Append(written, e), e # Done, ~Streaming!Says(Done)
    PROVE  ~Streaming!Says(Done)'
<1>1. \A i \in 1 .. Len(written') : written'[i] = e \/ \E j \in 1 .. Len(written) : written'[i] = written[j]
  <2>1. \A i \in 1 .. Len(written') : i \in 1 .. Len(written) \/ i = Len(written) + 1
    BY StreamBasics, AppendIs
  <2> QED BY <2>1, AppendIs
<1> QED BY <1>1 DEF Streaming!Says

LEMMA WriteKeeps ==
    ASSUME StreamsInv, Streaming!Write
    PROVE  StreamsInv'
<1>0. StreamTypes /\ StageShape /\ ValuesAreInOrder /\ NothingIsLost /\ ErrorsAreLast /\ EndsWhole
  BY DEF StreamsInv
<1>1. PICK e \in {handler.chunk} \union (IF handler.kind = "sse" THEN {Err} ELSE {}) :
        /\ written' = IF gone THEN written ELSE Append(written, e)
        /\ IF handler.kind = "sse" /\ (e = Err \/ gone)
           THEN handler' = [handler EXCEPT !.at = "drain", !.chunk = Nothing] /\ cancelled' = TRUE
           ELSE handler' = [handler EXCEPT !.at = "recv", !.chunk = Nothing] /\ cancelled' = cancelled
  BY DEF Streaming!Write, Streaming!WriteEvent, Streaming!Leaves
<1>2. /\ Same /\ stage' = stage /\ sent' = sent /\ expired' = expired /\ gone' = gone /\ handler.at = "write"
  BY DEF Streaming!Write, Streaming!setup, Same
<1>3. e \in Nat \union {Err} /\ e # Done /\ e \in Nat \union {Err, Done}
  BY <1>0, <1>1, <1>2, StreamBasics DEF StageShape, StreamTypes, Chunks
<1>4. /\ handler' = [kind |-> handler.kind, at |-> handler'.at, chunk |-> handler'.chunk]
      /\ handler'.kind = handler.kind /\ handler'.chunk = Nothing
      /\ handler.kind = "sse" /\ (e = Err \/ gone) => handler'.at = "drain" /\ cancelled'
      /\ ~(handler.kind = "sse" /\ (e = Err \/ gone)) => handler'.at = "recv" /\ cancelled' = cancelled
  <2>1. handler \in [kind : {"sse", "api"}, at : {"recv", "write", "drain", "ended"}, chunk : Chunks]
    BY <1>0 DEF StreamTypes
  <2> QED BY <1>1, <2>1
<1>5. cancelled' \in BOOLEAN /\ gone' \in BOOLEAN
  BY <1>0, <1>1, <1>2 DEF StreamTypes
<1>6. StreamTypes' /\ StageShape'
  <2>1. written' = written \/ \E f \in Nat \union {Err, Done} : written' = Append(written, f)
    BY <1>1, <1>3
  <2>2. handler'.at \in {"recv", "drain", "ended"} /\ handler'.chunk = Nothing
    BY <1>4
  <2> QED BY <1>0, <1>2, <1>4, <1>5, <2>1, <2>2, HandlerMoves
<1>7. ErrorsAreLast'
  <2>1. written' = written \/ written' = Append(written, e)
    BY <1>1
  <2>2. handler.kind = "api" => e \in {handler.chunk, Done}
    BY <1>1
  <2>3. handler.kind = "sse" /\ e = Err => handler'.at \in {"drain", "ended"}
    BY <1>4
  <2> QED BY <1>2, <1>3, <1>4, <1>6, <1>0, <2>1, <2>2, <2>3, ErrorsWritten
<1>8. handler.kind \in {"sse", "api"}
  BY <1>0 DEF StreamTypes
<1>9. CASE handler.kind = "sse" /\ e # Err /\ ~gone
  <2>1. /\ Live /\ handler.chunk \in Nat /\ e = handler.chunk /\ written' = Append(written, handler.chunk)
        /\ handler'.at = "recv" /\ cancelled' = cancelled
    BY <1>0, <1>1, <1>2, <1>3, <1>4, <1>9, StreamBasics DEF Live
  <2>2. ValuesAreInOrder' /\ handler.chunk = Len(written) + 1
    BY <1>2, <1>4, <2>1, <1>0, OrderWrite
  <2>3. NothingIsLost'
    <3>1. Calm' => Calm
      BY <1>2, <2>1 DEF Calm
    <3>2. Calm => NothingIsLost'
      BY <1>2, <1>4, <2>1, <2>2, <1>0, LossWrite
    <3> QED BY <3>1, <3>2 DEF NothingIsLost
  <2>4. EndsWhole'
    <3>1. ~Streaming!Says(Done)'
      BY <1>3, <2>1, <1>0, LiveSaysNoDone, <1>0, SaysAppended
    <3>2. cancelled' => gone'
      BY <1>0, <1>2, <2>1 DEF EndsWhole
    <3> QED BY <3>1, <3>2 DEF EndsWhole, Streaming!DoneIsComplete
  <2> QED BY <1>6, <1>7, <2>2, <2>3, <2>4 DEF StreamsInv
<1>10. CASE handler.kind = "sse" /\ (e = Err \/ gone)
  <2>1. handler'.at = "drain" /\ ~Live' /\ ~Calm' /\ Live
    BY <1>0, <1>2, <1>4, <1>10 DEF Live, Calm
  <2>2. ~Streaming!Says(Done)'
    <3>1. ~Streaming!Says(Done)
      BY <2>1, <1>0, LiveSaysNoDone
    <3>2. CASE written' = written
      BY <3>1, <3>2 DEF Streaming!Says
    <3>3. CASE written' = Append(written, e)
      BY <1>3, <3>1, <3>3, <1>0, SaysAppended
    <3> QED BY <1>1, <3>2, <3>3
  <2>3. EndsWhole'
    BY <2>1, <2>2 DEF EndsWhole, Streaming!DoneIsComplete
  <2> QED BY <1>6, <1>7, <2>1, <2>3 DEF StreamsInv, ValuesAreInOrder, NothingIsLost
<1>11. CASE handler.kind = "api"
  <2>1. handler'.kind = "api" /\ ~Live' /\ ~Calm' /\ cancelled' = cancelled
    BY <1>4, <1>11 DEF Live, Calm
  <2>2. EndsWhole'
    <3>1. cancelled' => gone'
      BY <1>0, <1>2, <2>1 DEF EndsWhole
    <3> QED BY <2>1, <3>1 DEF EndsWhole, Streaming!DoneIsComplete
  <2> QED BY <1>6, <1>7, <2>1, <2>2 DEF StreamsInv, ValuesAreInOrder, NothingIsLost
<1> QED BY <1>8, <1>9, <1>10, <1>11

LEMMA WriteDoneKeeps ==
    ASSUME StreamsInv, Streaming!WriteDone
    PROVE  StreamsInv'
<1>0. StreamTypes /\ StageShape /\ ValuesAreInOrder /\ NothingIsLost /\ ErrorsAreLast /\ EndsWhole
  BY DEF StreamsInv
<1>1. /\ Same /\ stage' = stage /\ sent' = sent /\ expired' = expired /\ gone' = gone
      /\ handler.at = "recv" /\ IsEnded(Last) /\ cancelled' = TRUE
      /\ written' = IF gone THEN written ELSE Append(written, Done)
      /\ handler' = [handler EXCEPT !.at = "ended"]
  BY DEF Streaming!WriteDone, Streaming!WriteEvent, Streaming!setup, Same, IsEnded, Last
<1>2. handler.chunk = Nothing
  BY <1>0, <1>1 DEF StageShape
<1>3. /\ handler' = [kind |-> handler.kind, at |-> handler'.at, chunk |-> handler'.chunk]
      /\ handler'.kind = handler.kind /\ handler'.chunk = Nothing /\ handler'.at = "ended"
  <2>1. handler \in [kind : {"sse", "api"}, at : {"recv", "write", "drain", "ended"}, chunk : Chunks]
    BY <1>0 DEF StreamTypes
  <2> QED BY <1>1, <1>2, <2>1
<1>4. StreamTypes' /\ StageShape'
  <2>1. written' = written \/ \E f \in Nat \union {Err, Done} : written' = Append(written, f)
    BY <1>1
  <2>2. cancelled' \in BOOLEAN /\ gone' \in BOOLEAN
    BY <1>0, <1>1 DEF StreamTypes
  <2>3. handler'.at \in {"recv", "drain", "ended"} /\ handler'.chunk = Nothing
    BY <1>3
  <2> QED BY <1>0, <1>1, <1>3, <2>1, <2>2, <2>3, HandlerMoves
<1>5. ErrorsAreLast'
  <2>1. written' = written \/ written' = Append(written, Done)
    BY <1>1
  <2>2. Done \in Nat \union {Err, Done}
    OBVIOUS
  <2> QED BY <1>1, <1>3, <1>4, <2>1, <1>0, <2>2, ErrorsWritten
<1>6. ~Live' /\ ~Calm' /\ handler'.at = "ended"
  BY <1>3 DEF Live, Calm
<1>7. Streaming!DoneIsComplete'
  <2> SUFFICES ASSUME handler.kind = "sse", expired = {}, Streaming!Says(Done)' PROVE written' = Streaming!Whole'
    BY <1>1, <1>3 DEF Streaming!DoneIsComplete
  <2>1. Live
    BY <1>0, <1>1 DEF Live
  <2>2. ~gone
    <3>1. ~Streaming!Says(Done)
      BY <2>1, <1>0, LiveSaysNoDone
    <3> QED BY <1>1, <3>1 DEF Streaming!Says
  <2>3. Calm
    BY <1>0, <1>1, <2>1, <2>2 DEF Calm, EndsWhole
  <2>4. Len(written) = Total /\ \A i \in 1 .. Total : written[i] = i
    BY <1>1, <2>3, <1>0, AllIsWritten
  <2>5. written' = Append(written, Done)
    BY <1>1, <2>2
  <2>6. /\ DOMAIN written' = 1 .. Total + 1 /\ written'[Total + 1] = Done
        /\ \A i \in 1 .. Total : written'[i] = i
    BY <1>0, <2>4, <2>5, StreamBasics, AppendIs
  <2>7. written' = [n \in 1 .. Total + 1 |-> written'[n]]
    BY <1>4, <2>6 DEF StreamTypes
  <2>8. \A n \in 1 .. Total + 1 : written'[n] = IF n <= Total THEN n ELSE Done
    <3>1. \A n \in 1 .. Total + 1 : n \in 1 .. Total \/ n = Total + 1
      BY <1>0, StreamBasics
    <3> QED BY <2>6, <3>1
  <2>9. Streaming!Whole' = [n \in 1 .. Total + 1 |-> IF n <= Total THEN n ELSE Done]
    BY <1>1 DEF Streaming!Whole, Streaming!Total, Total, Same
  <2> QED BY <2>7, <2>8, <2>9
<1>8. EndsWhole'
  BY <1>6, <1>7 DEF EndsWhole
<1> QED BY <1>4, <1>5, <1>6, <1>8 DEF StreamsInv, ValuesAreInOrder, NothingIsLost

LEMMA StreamsRest ==
    ASSUME StreamsInv, UNCHANGED Streaming!vars
    PROVE  StreamsInv'
<1>0. StreamTypes /\ StageShape /\ ValuesAreInOrder /\ NothingIsLost /\ ErrorsAreLast /\ EndsWhole
  BY DEF StreamsInv
<1>1. /\ Same /\ stage' = stage /\ sent' = sent /\ written' = written /\ handler' = handler
      /\ expired' = expired /\ cancelled' = cancelled /\ gone' = gone
  BY DEF Streaming!vars, Streaming!setup, Same
<1>2. StreamTypes' /\ StageShape'
  BY <1>0, <1>1, SameSetup DEF StreamTypes, StageShape, Same, Chunks
<1>3. ErrorsAreLast'
  <2>1. Rests
    BY <1>1, SameSetup DEF Rests, Chunk, IsEnded
  <2>2. Advances
    BY <1>0, <1>1, <2>1, MovesAdvance
  <2> QED BY <1>0, <1>1, <1>2, <2>2, ErrorsMove
<1>4. ValuesAreInOrder' /\ NothingIsLost'
  <2>1. (Live' => Live) /\ (Calm' => Calm)
    BY <1>1 DEF Live, Calm
  <2> QED BY <1>0, <1>1, <2>1, OrderRests, LossRests
<1>5. EndsWhole'
  BY <1>0, <1>1, EndsMove
<1> QED BY <1>2, <1>3, <1>4, <1>5 DEF StreamsInv

LEMMA StreamsStart == Streaming!Init => StreamsInv
<1> SUFFICES ASSUME Streaming!Init PROVE StreamsInv
  OBVIOUS
<1>1. /\ pipeline \in Seq({"adapter", "relay", "timeout"}) /\ source \in {"stream", "invoke"} /\ sent = 0
      /\ stage = [i \in 0 .. Last |-> [at |-> IF i = 0 THEN "work" ELSE "recv", chunk |-> Nothing]]
      /\ handler.kind \in {"sse", "api"} /\ handler = [kind |-> handler.kind, at |-> "recv", chunk |-> Nothing]
      /\ written = <<>> /\ cancelled = FALSE /\ gone = FALSE
  BY StreamsAssumption DEF Streaming!Init, Last
<1>2. StreamTypes
  <2>1. stage \in [0 .. Last -> [at : {"work", "buffered", "recv", "send", "ended"}, chunk : Chunks]]
    <3>1. ASSUME NEW i \in 0 .. Last
          PROVE  [at |-> IF i = 0 THEN "work" ELSE "recv", chunk |-> Nothing]
                   \in [at : {"work", "buffered", "recv", "send", "ended"}, chunk : Chunks]
      BY DEF Chunks
    <3> QED BY <1>1, <3>1
  <2>2. handler \in [kind : {"sse", "api"}, at : {"recv", "write", "drain", "ended"}, chunk : Chunks]
    BY <1>1 DEF Chunks
  <2>3. written \in Seq(Nat \union {Err, Done})
    BY <1>1
  <2> QED BY <1>1, <2>1, <2>2, <2>3 DEF StreamTypes
<1> USE <1>2, StreamBasics
<1>3. \A i \in 0 .. Last : stage[i].at = (IF i = 0 THEN "work" ELSE "recv") /\ stage[i].chunk = Nothing /\ ~IsEnded(i)
  BY <1>1 DEF IsEnded
<1>4. /\ \A p \in 0 .. Handler : Chunk(p) = Nothing /\ ~Carries(p)
      /\ ~Streaming!Says(Err) /\ ~Streaming!Says(Done) /\ Len(written) = 0
  <2>1. \A p \in 0 .. Handler : p = Handler \/ p \in 0 .. Last
    BY DEF Handler
  <2> QED BY <1>1, <1>3, <2>1 DEF Chunk, Carries, Streaming!Says
<1>5. StageShape
  BY <1>1, <1>3 DEF StageShape
<1>6. ErrorsAreLast
  <2>1. Streaming!ErrorIsLast
    BY <1>1 DEF Streaming!ErrorIsLast
  <2>2. \A p \in 1 .. Last : stage[p].chunk # Err
    BY <1>3
  <2> QED BY <1>1, <1>4, <2>1, <2>2 DEF ErrorsAreLast
<1>7. ValuesAreInOrder
  <2>1. WrittenInOrder /\ NoGaps /\ InTurn
    BY <1>1, <1>4 DEF WrittenInOrder, NoGaps, InTurn
  <2>2. SourceGoesOn
    BY <1>1, <1>4 DEF SourceGoesOn
  <2> QED BY <2>1, <2>2 DEF ValuesAreInOrder
<1>8. NothingIsLost
  BY <1>1, <1>3, <1>4 DEF NothingIsLost
<1>9. EndsWhole
  BY <1>1, <1>4 DEF EndsWhole, Streaming!DoneIsComplete
<1> QED BY <1>5, <1>6, <1>7, <1>8, <1>9 DEF StreamsInv

\* Every step of the goroutines, the handler and the client.
LEMMA StreamsStep == StreamsInv /\ [Streaming!Next]_(Streaming!vars) => StreamsInv'
<1> SUFFICES ASSUME StreamsInv, [Streaming!Next]_(Streaming!vars) PROVE StreamsInv'
  OBVIOUS
<1>1. CASE Streaming!Produce
  BY <1>1, ProduceKeeps
<1>2. CASE Streaming!SourceEnds
  BY <1>2, SourceEndsKeeps
<1>3. 0 \in 0 .. Last /\ \A i \in Relays : i \in 0 .. Last
  BY StreamBasics DEF StreamsInv
<1>4. CASE Streaming!Pass(0)
  BY <1>3, <1>4, PassKeeps
<1>5. CASE Streaming!Deliver
  BY <1>5, DeliverKeeps
<1>6. CASE \E i \in Relays : Streaming!Pass(i) \/ Streaming!EndOfInput(i) \/ Streaming!Stop(i) \/ Streaming!Expire(i)
  <2>1. PICK i \in Relays : Streaming!Pass(i) \/ Streaming!EndOfInput(i) \/ Streaming!Stop(i) \/ Streaming!Expire(i)
    BY <1>6
  <2>2. CASE Streaming!Pass(i)
    BY <1>3, <2>2, PassKeeps
  <2>3. CASE Streaming!EndOfInput(i)
    BY <2>3, EndOfInputKeeps
  <2>4. CASE Streaming!Stop(i)
    BY <2>4, StopKeeps
  <2>5. CASE Streaming!Expire(i)
    BY <2>5, StopsKeep
  <2> QED BY <2>1, <2>2, <2>3, <2>4, <2>5
<1>7. CASE Streaming!Write
  BY <1>7, WriteKeeps
<1>8. CASE Streaming!WriteDone
  BY <1>8, WriteDoneKeeps
<1>9. CASE Streaming!DrainEnds \/ Streaming!ClientLeaves \/ Streaming!Cancel
  BY <1>9, StopsKeep
<1>10. CASE Streaming!Finish \/ UNCHANGED Streaming!vars
  BY <1>10, StreamsRest DEF Streaming!Finish
<1> QED BY <1>1, <1>2, <1>4, <1>5, <1>6, <1>7, <1>8, <1>9, <1>10 DEF Streaming!Next, Relays

\* Every response that is streamed: the goroutines of Stream, of the adapters and of the middleware, the
\* handlers and the client, in every order and for every pipeline.
THEOREM StreamsInvariance == Streaming!Init /\ [][Streaming!Next]_(Streaming!vars) => []StreamsInv
  BY StreamsStart, StreamsStep, PTL

LEMMA StreamsBehave == Spec => Streaming!Init /\ [][Streaming!Next]_(Streaming!vars)
<1>1. Init => Streaming!Init
  BY DEF Init
<1>2. [Next]_vars => [Streaming!Next]_(Streaming!vars)
  BY DEF Next, vars, InWire, InCalls, InGuards, InStreams, streamVars, Streaming!vars, Streaming!setup
<1> QED BY <1>1, <1>2, PTL DEF Spec

\* HandleSSE, the handler of pkg/api and the relays: no value is written after an error, whichever
\* goroutine it came from, and HandleSSE writes nothing after one.
THEOREM ErrorsEndAResponse == Spec => []ErrorIsLast
<1>1. StreamsInv => ErrorIsLast
  BY DEF StreamsInv, ErrorsAreLast, ErrorIsLast
<1> QED BY <1>1, StreamsInvariance, StreamsBehave, PTL

\* WriteDone of HandleSSE: when no deadline has passed, its "done" follows the whole stream, in order.
THEOREM DoneMeansWhole == Spec => []DoneIsComplete
<1>1. StreamsInv => DoneIsComplete
  BY DEF StreamsInv, EndsWhole, DoneIsComplete
<1> QED BY <1>1, StreamsInvariance, StreamsBehave, PTL
-----------------------------------------------------------------------------
(* ProviderCalls.                                                          *)

CallRecords == [pc : {"idle", "scanning", "trying", "answered", "failed"}, made : Nat, linked : BOOLEAN,
                candidates : Seq(Providers), next : Nat, result : Seq(Providers)]

CallTypes ==
    /\ DOMAIN available = Calls!Vendors
    /\ pool \in Seq(Providers) /\ entries \subseteq Providers
    /\ calls \in [Selecting -> CallRecords]
    /\ steady \in [Selecting -> SUBSET Providers]

\* From position start on, the candidates of k have p, and nothing that is behind the j-th of Order before it.
Ahead(k, p, j, start) ==
    \E m \in start .. Len(calls[k].candidates) :
        /\ calls[k].candidates[m] = p
        /\ \A l \in 1 .. m : Calls!NotBehind(calls[k].candidates[l], j)

\* What a provider that has been up and held available is to the call at each of its steps: already
\* among its candidates while it scans, still to be tried afterwards.
Steadies(k) ==
    \A p \in steady[k] : p \in up /\ p \in Calls!Fallbacks /\ (calls[k].linked => available[ID[p]])

Scanning(k) ==
    calls[k].pc = "scanning" =>
        /\ calls[k].linked /\ calls[k].next \in 1 .. Len(Order)
        /\ \A p \in steady[k] : \A j \in 1 .. calls[k].next - 1 : Order[j] = p => Ahead(k, p, j, 1)
        /\ \A l \in 1 .. Len(calls[k].candidates) :
               \E i \in 1 .. calls[k].next - 1 : Order[i] = calls[k].candidates[l]

Trying(k) ==
    calls[k].pc = "trying" =>
        /\ calls[k].next \in 1 .. Len(calls[k].candidates)
        /\ \A p \in steady[k] : \A j \in 1 .. Len(Order) : Order[j] = p => Ahead(k, p, j, calls[k].next)

Answered(k) ==
    calls[k].pc = "answered" =>
        \A p \in steady[k] : \A j \in 1 .. Len(Order) : Order[j] = p => Calls!NotBehind(calls[k].result[1], j)

Over(k) == calls[k].pc \in {"idle", "failed"} => steady[k] = {}

CallsInv == CallTypes /\ \A k \in Selecting : Steadies(k) /\ Scanning(k) /\ Trying(k) /\ Answered(k) /\ Over(k)

LEMMA OrderIs ==
    /\ Len(Order) \in Nat \ {0} /\ DOMAIN Order = 1 .. Len(Order)
    /\ \A j \in 1 .. Len(Order) : Order[j] \in Providers
    /\ Calls!Fallbacks \subseteq Providers
    /\ \A p \in Calls!Fallbacks : ID[p] \in Calls!Vendors
<1>1. /\ Len(Order) \in Nat \ {0} /\ DOMAIN Order = 1 .. Len(Order)
      /\ \A j \in 1 .. Len(Order) : Order[j] \in Providers
  BY OrderAssumption
<1>2. Calls!Fallbacks \subseteq Providers
  BY <1>1 DEF Calls!Fallbacks, Calls!Range
<1> QED BY <1>1, <1>2 DEF Calls!Vendors

\* What is kept of a call that does not move, as steady providers only become fewer.
LEMMA CallRests ==
    ASSUME CallTypes, NEW k \in Selecting, Scanning(k), Trying(k), Answered(k), Over(k),
           calls'[k] = calls[k], steady'[k] \subseteq steady[k]
    PROVE  Scanning(k)' /\ Trying(k)' /\ Answered(k)' /\ Over(k)'
<1>1. \A p, j, start : Ahead(k, p, j, start) => Ahead(k, p, j, start)'
  BY DEF Ahead
<1>2. Scanning(k)'
  BY <1>1 DEF Scanning
<1>3. Trying(k)'
  BY <1>1 DEF Trying
<1>4. Answered(k)'
  BY DEF Answered
<1>5. Over(k)'
  BY DEF Over
<1> QED BY <1>2, <1>3, <1>4, <1>5

\* The steps of the registry and of the providers.
LEMMA RegistryKeeps ==
    ASSUME CallsInv,
           \/ \E p \in Providers : Calls!Flip(p) \/ Calls!Register(p)
           \/ Calls!Start \/ Calls!Round \/ Calls!Cancel \/ UNCHANGED Calls!callVars
    PROVE  CallsInv'
<1>0. CallTypes /\ \A k \in Selecting : Steadies(k) /\ Scanning(k) /\ Trying(k) /\ Answered(k) /\ Over(k)
  BY DEF CallsInv
<1>1. calls' = calls
  BY DEF Calls!Flip, Calls!Register, Calls!Start, Calls!Round, Calls!Tick, Calls!Ping, Calls!Record, Calls!EndRound,
         Calls!Cancel, Calls!Exit, Calls!callVars
<1>2. SUFFICES /\ CallTypes'
               /\ \A k \in Selecting : steady'[k] \subseteq steady[k] /\ Steadies(k)'
  BY <1>0, <1>1, CallRests DEF CallsInv
<1>3. CASE \E p \in Providers : Calls!Flip(p)
  <2>1. PICK p \in Providers : Calls!Flip(p)
    BY <1>3
  <2>2. /\ up' = (IF p \in up THEN up \ {p} ELSE up \union {p})
        /\ steady' = [k \in Selecting |-> steady[k] \ {p}]
        /\ UNCHANGED <<pool, entries, available>>
    BY <2>1 DEF Calls!Flip
  <2>3. CallTypes'
    BY <1>0, <1>1, <2>2 DEF CallTypes, CallRecords
  <2>4. \A k \in Selecting : steady'[k] = steady[k] \ {p}
    BY <2>2
  <2> QED BY <1>0, <1>1, <2>2, <2>3, <2>4 DEF Steadies
<1>4. CASE \E p \in Providers : Calls!Register(p)
  <2>1. PICK p \in Providers : Calls!Register(p)
    BY <1>4
  <2>2. /\ p \in Registered /\ entries' = entries \union {p}
        /\ pool' = pool \/ pool' = Append(pool, p)
        /\ UNCHANGED <<up, available, steady>>
    BY <2>1 DEF Calls!Register
  <2>3. CallTypes'
    <3>1. p \in Providers /\ pool \in Seq(Providers)
      BY <1>0, <2>2, OrderAssumption DEF CallTypes
    <3>2. pool' \in Seq(Providers)
      BY <2>2, <3>1
    <3> QED BY <1>0, <1>1, <2>2, <3>1, <3>2 DEF CallTypes, CallRecords
  <2> QED BY <1>0, <1>1, <2>2, <2>3 DEF Steadies
<1>5. CASE Calls!Record
  <2>1. PICK p, answer :
          /\ available' = [available EXCEPT ![ID[p]] = answer]
          /\ steady' = IF available'[ID[p]] THEN steady
                       ELSE [k \in Selecting |-> IF calls[k].linked THEN {q \in steady[k] : ID[q] # ID[p]} ELSE steady[k]]
    BY <1>5 DEF Calls!Record
  <2>2. UNCHANGED <<up, pool, entries>>
    BY <1>5 DEF Calls!Record
  <2>3. \A k \in Selecting :
            steady'[k] = IF available'[ID[p]] \/ ~calls[k].linked THEN steady[k] ELSE {q \in steady[k] : ID[q] # ID[p]}
    BY <2>1
  <2>4. CallTypes'
    <3>1. DOMAIN steady' = Selecting /\ steady' = [k \in Selecting |-> steady'[k]]
      BY <1>0, <2>1 DEF CallTypes
    <3>2. \A k \in Selecting : steady'[k] \subseteq steady[k] /\ steady[k] \in SUBSET Providers
      BY <1>0, <2>3 DEF CallTypes
    <3>3. steady' \in [Selecting -> SUBSET Providers]
      BY <3>1, <3>2
    <3> QED BY <1>0, <1>1, <2>1, <2>2, <3>3 DEF CallTypes, CallRecords
  <2>5. \A q : ID[q] # ID[p] => available'[ID[q]] = available[ID[q]]
    BY <2>1
  <2>6. ASSUME NEW k \in Selecting, NEW q \in steady'[k]
        PROVE  q \in steady[k] /\ (calls[k].linked => available'[ID[q]])
    <3>1. CASE available'[ID[p]] \/ ~calls[k].linked
      <4>1. q \in steady[k]
        BY <2>3, <2>6, <3>1
      <4>2. CASE ID[q] = ID[p]
        BY <3>1, <4>1, <4>2
      <4>3. CASE ID[q] # ID[p]
        BY <1>0, <2>5, <4>1, <4>3 DEF Steadies
      <4> QED BY <4>1, <4>2, <4>3
    <3>2. CASE ~(available'[ID[p]] \/ ~calls[k].linked)
      <4>1. q \in steady[k] /\ ID[q] # ID[p]
        BY <2>3, <2>6, <3>2
      <4> QED BY <1>0, <2>5, <4>1 DEF Steadies
    <3> QED BY <3>1, <3>2
  <2> QED BY <1>0, <1>1, <2>2, <2>4, <2>6 DEF Steadies
<1>6. CASE Calls!Start \/ Calls!Tick \/ Calls!Ping \/ Calls!EndRound \/ Calls!Exit \/ Calls!Cancel \/ UNCHANGED Calls!callVars
  <2>1. UNCHANGED <<up, pool, entries, available, steady>>
    BY <1>6 DEF Calls!Start, Calls!Tick, Calls!Ping, Calls!EndRound, Calls!Exit, Calls!Cancel, Calls!callVars
  <2> QED BY <1>0, <1>1, <2>1 DEF CallTypes, CallRecords, Steadies
<1> QED BY <1>3, <1>4, <1>5, <1>6 DEF Calls!Round

\* The others' calls are not touched by a step of k.
LEMMA OnlyOneCall ==
    ASSUME CallsInv, NEW k \in Selecting, UNCHANGED <<up, available>>, CallTypes',
           \A m \in Selecting : m # k => calls'[m] = calls[m] /\ steady'[m] = steady[m],
           Steadies(k)', Scanning(k)', Trying(k)', Answered(k)', Over(k)'
    PROVE  CallsInv'
<1>1. ASSUME NEW m \in Selecting, m # k
      PROVE  Steadies(m)' /\ Scanning(m)' /\ Trying(m)' /\ Answered(m)' /\ Over(m)'
  <2>1. calls'[m] = calls[m] /\ steady'[m] = steady[m]
    BY <1>1
  <2> QED BY <2>1, CallRests DEF CallsInv, Steadies
<1> QED BY <1>1 DEF CallsInv

LEMMA ChangedCall ==
    ASSUME CallTypes, NEW k \in Selecting, NEW call \in CallRecords, calls' = [calls EXCEPT ![k] = call]
    PROVE  /\ calls' \in [Selecting -> CallRecords] /\ calls'[k] = call
           /\ \A m \in Selecting : m # k => calls'[m] = calls[m]
  BY DEF CallTypes

LEMMA IdleIs ==
    /\ Calls!Idle \in CallRecords /\ Calls!Idle.pc = "idle" /\ ~Calls!Idle.linked /\ Calls!Idle.next = 1
    /\ Calls!Idle.made = 0
  BY DEF Calls!Idle, CallRecords

LEMMA SeqIsCandidates == <<>> \in Seq(Providers) /\ Order \in Seq(Providers) /\ \A p \in Providers : <<p>> \in Seq(Providers) /\ Len(<<p>>) = 1
  BY OrderAssumption

LEMMA BeginKeeps ==
    ASSUME CallsInv, NEW k \in Selecting, Calls!Begin(k)
    PROVE  CallsInv'
<1>0. CallTypes /\ Steadies(k) /\ Scanning(k) /\ Trying(k) /\ Answered(k) /\ Over(k)
  BY DEF CallsInv
<1>1. UNCHANGED <<up, available, pool, entries>>
  BY DEF Calls!Begin
<1>2. PICK linked \in BOOLEAN :
        /\ calls' = [calls EXCEPT ![k] = [Calls!Idle EXCEPT !.pc = IF linked THEN "scanning" ELSE "trying",
                                              !.made = calls[k].made + 1, !.linked = linked,
                                              !.candidates = IF linked THEN <<>> ELSE Order]]
        /\ steady' = [steady EXCEPT ![k] = {p \in Calls!Fallbacks \intersect up : linked => available[ID[p]]}]
  BY DEF Calls!Begin
<1>3. PICK call : call = [Calls!Idle EXCEPT !.pc = IF linked THEN "scanning" ELSE "trying", !.made = calls[k].made + 1,
                                            !.linked = linked, !.candidates = IF linked THEN <<>> ELSE Order]
  OBVIOUS
<1>4. calls[k].made \in Nat
  BY <1>0 DEF CallTypes, CallRecords
<1>5. /\ call \in CallRecords /\ call.pc = (IF linked THEN "scanning" ELSE "trying") /\ call.linked = linked
      /\ call.candidates = (IF linked THEN <<>> ELSE Order) /\ call.next = 1
  <2>1. PICK pc \in {"scanning", "trying"} : pc = IF linked THEN "scanning" ELSE "trying"
    OBVIOUS
  <2>2. PICK list : list \in Seq(Providers) /\ list = IF linked THEN <<>> ELSE Order
    BY SeqIsCandidates
  <2>3. calls[k].made + 1 \in Nat
    BY <1>4
  <2>4. call = [Calls!Idle EXCEPT !.pc = pc, !.made = calls[k].made + 1, !.linked = linked, !.candidates = list]
    BY <1>3, <2>1, <2>2
  <2>5. call \in CallRecords /\ call.pc = pc /\ call.linked = linked /\ call.candidates = list /\ call.next = 1
    <3>1. PICK made \in Nat : made = calls[k].made + 1
      BY <2>3
    <3>2. call = [Calls!Idle EXCEPT !.pc = pc, !.made = made, !.linked = linked, !.candidates = list]
      BY <2>4, <3>1
    <3>3. pc \in {"scanning", "trying"} /\ made \in Nat /\ linked \in BOOLEAN /\ list \in Seq(Providers)
      BY <2>2
    <3> QED BY <3>2, <3>3, IdleIs DEF CallRecords
  <2> QED BY <2>1, <2>2, <2>5
<1>6. calls' = [calls EXCEPT ![k] = call]
  BY <1>2, <1>3
<1>7. /\ calls' \in [Selecting -> CallRecords] /\ calls'[k] = call
      /\ \A m \in Selecting : m # k => calls'[m] = calls[m]
  BY <1>0, <1>5, <1>6, ChangedCall
<1>8. /\ steady' \in [Selecting -> SUBSET Providers]
      /\ steady'[k] = {p \in Calls!Fallbacks \intersect up : linked => available[ID[p]]}
      /\ \A m \in Selecting : m # k => steady'[m] = steady[m]
  BY <1>0, <1>2, OrderIs DEF CallTypes
<1>9. CallTypes'
  BY <1>0, <1>1, <1>7, <1>8 DEF CallTypes
<1>10. Steadies(k)' /\ Answered(k)' /\ Over(k)'
  BY <1>1, <1>5, <1>7, <1>8 DEF Steadies, Answered, Over
<1>11. Scanning(k)'
  BY <1>5, <1>7, OrderIs DEF Scanning
<1>12. Trying(k)'
  <2> SUFFICES ASSUME ~linked PROVE Trying(k)'
    BY <1>5, <1>7 DEF Trying
  <2>1. calls'[k].candidates = Order /\ calls'[k].next = 1
    BY <1>5, <1>7
  <2>2. ASSUME NEW p, NEW j \in 1 .. Len(Order), Order[j] = p PROVE Ahead(k, p, j, 1)'
    <3>1. \A l \in 1 .. j : Calls!NotBehind(Order[l], j)
      BY <2>2 DEF Calls!NotBehind
    <3> QED BY <2>1, <2>2, <3>1 DEF Ahead
  <2> QED BY <2>1, <2>2, OrderIs DEF Trying
<1> QED BY <1>1, <1>7, <1>8, <1>9, <1>10, <1>11, <1>12, OnlyOneCall

LEMMA ScanKeeps ==
    ASSUME CallsInv, NEW k \in Selecting, Calls!Scan(k)
    PROVE  CallsInv'
<1>0. CallTypes /\ Steadies(k) /\ Scanning(k) /\ Trying(k) /\ Answered(k) /\ Over(k)
  BY DEF CallsInv
<1> USE OrderIs
<1>1. UNCHANGED <<up, available, pool, entries, steady>> /\ calls[k].pc = "scanning"
  BY DEF Calls!Scan
<1>2. calls[k] \in CallRecords
  BY <1>0 DEF CallTypes
<1>3. PICK p : p = Order[calls[k].next]
  OBVIOUS
<1>4. PICK found : found = IF available[ID[p]] THEN Append(calls[k].candidates, p) ELSE calls[k].candidates
  OBVIOUS
<1>5. calls' = [calls EXCEPT ![k] =
            IF calls[k].next < Len(Order) THEN [calls[k] EXCEPT !.next = calls[k].next + 1, !.candidates = found]
            ELSE [calls[k] EXCEPT !.pc = "trying", !.next = 1, !.candidates = Calls!Candidates(found)]]
  <2>1. k \in DOMAIN calls
    BY <1>0 DEF CallTypes
  <2>2. calls' = [calls EXCEPT ![k] =
            IF calls[k].next < Len(Order)
            THEN [calls[k] EXCEPT !.next = calls[k].next + 1,
                                  !.candidates = IF available[ID[Order[calls[k].next]]]
                                                 THEN Append(calls[k].candidates, Order[calls[k].next])
                                                 ELSE calls[k].candidates]
            ELSE [calls[k] EXCEPT !.pc = "trying", !.next = 1,
                                  !.candidates = Calls!Candidates(IF available[ID[Order[calls[k].next]]]
                                                                  THEN Append(calls[k].candidates, Order[calls[k].next])
                                                                  ELSE calls[k].candidates)]]
    BY <2>1 DEF Calls!Scan, Calls!IsAvailable
  <2>3. found = IF available[ID[Order[calls[k].next]]] THEN Append(calls[k].candidates, Order[calls[k].next])
                ELSE calls[k].candidates
    BY <1>3, <1>4
  <2> QED BY <2>2, <2>3
<1>6. /\ calls[k].linked /\ calls[k].next \in 1 .. Len(Order) /\ p \in Providers
      /\ \A s \in steady[k] : \A j \in 1 .. calls[k].next - 1 : Order[j] = s => Ahead(k, s, j, 1)
      /\ \A l \in 1 .. Len(calls[k].candidates) :
             \E i \in 1 .. calls[k].next - 1 : Order[i] = calls[k].candidates[l]
  BY <1>0, <1>1, <1>3 DEF Scanning
<1>7. /\ calls[k].candidates \in Seq(Providers) /\ found \in Seq(Providers) /\ Len(found) \in Nat
      /\ Len(calls[k].candidates) \in Nat /\ Calls!Candidates(found) \in Seq(Providers)
  <2>1. calls[k].candidates \in Seq(Providers)
    BY <1>2 DEF CallRecords
  <2>2. found \in Seq(Providers)
    BY <1>4, <1>6, <2>1
  <2> QED BY <2>1, <2>2, OrderAssumption DEF Calls!Candidates
<1>8. /\ \A l \in 1 .. Len(found) : l \in 1 .. Len(calls[k].candidates) \/ (found[l] = p /\ available[ID[p]])
      /\ Len(calls[k].candidates) <= Len(found)
      /\ \A l \in 1 .. Len(calls[k].candidates) : found[l] = calls[k].candidates[l]
      /\ available[ID[p]] => Len(found) = Len(calls[k].candidates) + 1 /\ found[Len(found)] = p
  BY <1>4, <1>7
<1>9. \A l \in 1 .. Len(found) : \E i \in 1 .. calls[k].next : Order[i] = found[l]
  <2>1. calls[k].next \in 1 .. calls[k].next /\ \A i \in 1 .. calls[k].next - 1 : i \in 1 .. calls[k].next
    BY <1>6
  <2> QED BY <1>3, <1>6, <1>8, <2>1
<1>10. ASSUME NEW s \in steady[k], NEW j \in 1 .. calls[k].next, Order[j] = s
       PROVE  \E m \in 1 .. Len(found) : found[m] = s /\ \A l \in 1 .. m : Calls!NotBehind(found[l], j)
  <2>1. CASE j = calls[k].next
    <3>1. s = p /\ available[ID[p]]
      BY <1>0, <1>3, <1>6, <1>10, <2>1 DEF Steadies
    <3>2. \A l \in 1 .. Len(found) : Calls!NotBehind(found[l], j)
      BY <1>9, <2>1 DEF Calls!NotBehind
    <3>3. Len(found) \in 1 .. Len(found) /\ found[Len(found)] = s
      BY <1>7, <1>8, <3>1
    <3> QED BY <3>2, <3>3
  <2>2. CASE j # calls[k].next
    <3>1. j \in 1 .. calls[k].next - 1
      BY <1>6, <2>2
    <3>2. PICK m \in 1 .. Len(calls[k].candidates) :
            /\ calls[k].candidates[m] = s
            /\ \A l \in 1 .. m : Calls!NotBehind(calls[k].candidates[l], j)
      BY <1>6, <1>10, <3>1 DEF Ahead
    <3>3. m \in 1 .. Len(found) /\ \A l \in 1 .. m : l \in 1 .. Len(calls[k].candidates)
      BY <1>7, <1>8
    <3> QED BY <1>8, <3>2, <3>3
  <2> QED BY <2>1, <2>2
<1>11. CASE calls[k].next < Len(Order)
  <2>1. PICK call : call = [calls[k] EXCEPT !.next = calls[k].next + 1, !.candidates = found]
    OBVIOUS
  <2>2. /\ call \in CallRecords /\ call.pc = "scanning" /\ call.linked /\ call.next = calls[k].next + 1
        /\ call.candidates = found
    <3>1. calls[k].next + 1 \in Nat
      BY <1>6
    <3>2. /\ call.pc = "scanning" /\ call.linked /\ call.next = calls[k].next + 1 /\ call.candidates = found
          /\ call.made = calls[k].made /\ call.result = calls[k].result
          /\ call = [pc |-> call.pc, made |-> call.made, linked |-> call.linked,
                     candidates |-> call.candidates, next |-> call.next, result |-> call.result]
      BY <1>1, <1>2, <1>6, <2>1 DEF CallRecords
    <3> QED BY <1>2, <1>6, <1>7, <3>1, <3>2 DEF CallRecords
  <2>3. /\ calls' \in [Selecting -> CallRecords] /\ calls'[k] = call
        /\ \A m \in Selecting : m # k => calls'[m] = calls[m]
    BY <1>0, <1>5, <1>11, <2>1, <2>2, ChangedCall
  <2>4. CallTypes'
    BY <1>0, <1>1, <2>3 DEF CallTypes
  <2>5. Steadies(k)' /\ Trying(k)' /\ Answered(k)' /\ Over(k)'
    BY <1>0, <1>1, <1>6, <2>2, <2>3 DEF Steadies, Trying, Answered, Over
  <2>6. Scanning(k)'
    <3>1. calls'[k].next - 1 = calls[k].next /\ calls'[k].next \in 1 .. Len(Order)
      BY <1>6, <1>11, <2>2, <2>3
    <3>2. calls'[k].linked /\ calls'[k].candidates = found /\ steady' = steady
      BY <1>1, <2>2, <2>3
    <3>3. \A s \in steady'[k] : \A j \in 1 .. calls'[k].next - 1 : Order[j] = s => Ahead(k, s, j, 1)'
      BY <1>10, <3>1, <3>2 DEF Ahead
    <3>4. \A l \in 1 .. Len(calls'[k].candidates) :
              \E i \in 1 .. calls'[k].next - 1 : Order[i] = calls'[k].candidates[l]
      BY <1>9, <3>1, <3>2
    <3> QED BY <3>1, <3>2, <3>3, <3>4 DEF Scanning
  <2> QED BY <1>1, <2>3, <2>4, <2>5, <2>6, OnlyOneCall
<1>12. CASE ~(calls[k].next < Len(Order))
  <2>1. PICK call : call = [calls[k] EXCEPT !.pc = "trying", !.next = 1, !.candidates = Calls!Candidates(found)]
    OBVIOUS
  <2>2. /\ call \in CallRecords /\ call.pc = "trying" /\ call.linked /\ call.next = 1
        /\ call.candidates = Calls!Candidates(found)
    BY <1>1, <1>2, <1>6, <1>7, <2>1 DEF CallRecords
  <2>3. /\ calls' \in [Selecting -> CallRecords] /\ calls'[k] = call
        /\ \A m \in Selecting : m # k => calls'[m] = calls[m]
    BY <1>0, <1>5, <1>12, <2>1, <2>2, ChangedCall
  <2>4. CallTypes'
    BY <1>0, <1>1, <2>3 DEF CallTypes
  <2>5. Steadies(k)' /\ Scanning(k)' /\ Answered(k)' /\ Over(k)'
    BY <1>0, <1>1, <1>6, <2>2, <2>3 DEF Steadies, Scanning, Answered, Over
  <2>6. Trying(k)'
    <3>1. calls[k].next = Len(Order)
      BY <1>6, <1>12
    <3>2. CASE found = <<>>
      <4>1. call.candidates = Order
        BY <2>2, <3>2 DEF Calls!Candidates
      <4>2. \A s \in steady[k] : \A j \in 1 .. Len(Order) : Order[j] # s
        BY <1>10, <3>1, <3>2
      <4> QED BY <1>1, <2>2, <2>3, <4>1, <4>2 DEF Trying
    <3>3. CASE found # <<>>
      <4>1. call.candidates = found /\ 1 \in 1 .. Len(found)
        BY <1>7, <2>2, <3>3 DEF Calls!Candidates
      <4> QED BY <1>1, <1>10, <2>2, <2>3, <3>1, <4>1 DEF Trying, Ahead
    <3> QED BY <3>2, <3>3
  <2> QED BY <1>1, <2>3, <2>4, <2>5, <2>6, OnlyOneCall
<1> QED BY <1>11, <1>12

LEMMA TryKeeps ==
    ASSUME CallsInv, NEW k \in Selecting, Calls!Try(k)
    PROVE  CallsInv'
<1>0. CallTypes /\ Steadies(k) /\ Scanning(k) /\ Trying(k) /\ Answered(k) /\ Over(k)
  BY DEF CallsInv
<1> USE OrderIs
<1>1. UNCHANGED <<up, available, pool, entries, steady>> /\ calls[k].pc = "trying"
  BY DEF Calls!Try
<1>2. calls[k] \in CallRecords /\ k \in DOMAIN calls
  BY <1>0 DEF CallTypes
<1>3. PICK q : q = calls[k].candidates[calls[k].next]
  OBVIOUS
<1>4. calls' = [calls EXCEPT ![k] =
          IF q \in up THEN [calls[k] EXCEPT !.pc = "answered", !.result = <<q>>] ELSE Calls!After(calls[k])]
  BY <1>2, <1>3 DEF Calls!Try
<1>5. /\ calls[k].next \in 1 .. Len(calls[k].candidates) /\ calls[k].candidates \in Seq(Providers)
      /\ Len(calls[k].candidates) \in Nat /\ q \in Providers
      /\ \A p \in steady[k] : \A j \in 1 .. Len(Order) : Order[j] = p => Ahead(k, p, j, calls[k].next)
  BY <1>0, <1>1, <1>2, <1>3 DEF Trying, CallRecords
<1>6. PICK call : call = IF q \in up THEN [calls[k] EXCEPT !.pc = "answered", !.result = <<q>>] ELSE Calls!After(calls[k])
  OBVIOUS
<1>7. /\ q \in up => call = [calls[k] EXCEPT !.pc = "answered", !.result = <<q>>]
      /\ q \notin up /\ calls[k].next < Len(calls[k].candidates) => call = [calls[k] EXCEPT !.next = calls[k].next + 1]
      /\ q \notin up /\ ~(calls[k].next < Len(calls[k].candidates)) => call = [calls[k] EXCEPT !.pc = "failed"]
  BY <1>6 DEF Calls!After
<1>8. /\ call \in CallRecords /\ call.linked = calls[k].linked /\ call.candidates = calls[k].candidates
      /\ q \in up => call.pc = "answered" /\ call.result = <<q>>
      /\ q \notin up => /\ calls[k].next < Len(calls[k].candidates) => call.pc = "trying" /\ call.next = calls[k].next + 1
                        /\ ~(calls[k].next < Len(calls[k].candidates)) => call.pc = "failed"
  <2>1. CASE q \in up
    <3>1. <<q>> \in Seq(Providers)
      BY <1>5
    <3> QED BY <1>2, <1>7, <2>1, <3>1 DEF CallRecords
  <2>2. CASE q \notin up /\ calls[k].next < Len(calls[k].candidates)
    <3>1. calls[k].next + 1 \in Nat
      BY <1>5
    <3> QED BY <1>1, <1>2, <1>5, <1>7, <2>2, <3>1 DEF CallRecords
  <2>3. CASE q \notin up /\ ~(calls[k].next < Len(calls[k].candidates))
    BY <1>2, <1>7, <2>3 DEF CallRecords
  <2> QED BY <2>1, <2>2, <2>3
<1>9. /\ calls' \in [Selecting -> CallRecords] /\ calls'[k] = call
      /\ \A m \in Selecting : m # k => calls'[m] = calls[m]
  BY <1>0, <1>4, <1>6, <1>8, ChangedCall
<1>10. CallTypes'
  BY <1>0, <1>1, <1>9 DEF CallTypes
<1>11. Steadies(k)' /\ Scanning(k)'
  BY <1>0, <1>1, <1>8, <1>9 DEF Steadies, Scanning
<1>12. q \notin up => q \notin steady[k]
  BY <1>0 DEF Steadies
<1>13. ASSUME NEW p \in steady[k]
       PROVE  \E j \in 1 .. Len(Order) : Order[j] = p
  <2>1. p \in Calls!Fallbacks
    BY <1>0 DEF Steadies
  <2> QED BY <2>1 DEF Calls!Fallbacks, Calls!Range
<1>14. Trying(k)' /\ Over(k)' /\ Answered(k)'
  <2>1. CASE q \in up
    <3>1. ASSUME NEW p \in steady[k], NEW j \in 1 .. Len(Order), Order[j] = p PROVE Calls!NotBehind(q, j)
      <4>1. PICK m \in calls[k].next .. Len(calls[k].candidates) :
              \A l \in 1 .. m : Calls!NotBehind(calls[k].candidates[l], j)
        BY <1>5, <3>1 DEF Ahead
      <4>2. calls[k].next \in 1 .. m
        BY <1>5
      <4> QED BY <1>3, <4>1, <4>2
    <3>2. calls'[k].pc = "answered" /\ calls'[k].result[1] = q
      BY <1>8, <1>9, <2>1
    <3> QED BY <1>1, <3>1, <3>2 DEF Trying, Over, Answered
  <2>2. CASE q \notin up /\ calls[k].next < Len(calls[k].candidates)
    <3>1. calls'[k].pc = "trying" /\ calls'[k].next = calls[k].next + 1 /\ calls'[k].candidates = calls[k].candidates
      BY <1>8, <1>9, <2>2
    <3>2. ASSUME NEW p \in steady[k], NEW j \in 1 .. Len(Order), Order[j] = p PROVE Ahead(k, p, j, calls[k].next + 1)
      <4>1. PICK m \in calls[k].next .. Len(calls[k].candidates) :
              /\ calls[k].candidates[m] = p
              /\ \A l \in 1 .. m : Calls!NotBehind(calls[k].candidates[l], j)
        BY <1>5, <3>2 DEF Ahead
      <4>2. m # calls[k].next
        BY <1>3, <1>12, <2>2, <4>1
      <4>3. m \in calls[k].next + 1 .. Len(calls[k].candidates)
        BY <1>5, <4>2
      <4> QED BY <4>1, <4>3 DEF Ahead
    <3>3. \A p \in steady'[k] : \A j \in 1 .. Len(Order) : Order[j] = p => Ahead(k, p, j, calls[k].next)'
      BY <1>1, <3>1, <3>2 DEF Ahead
    <3>4. calls'[k].next \in 1 .. Len(calls'[k].candidates)
      BY <1>5, <2>2, <3>1
    <3> QED BY <3>1, <3>3, <3>4 DEF Trying, Over, Answered
  <2>3. CASE q \notin up /\ ~(calls[k].next < Len(calls[k].candidates))
    <3>1. steady[k] = {}
      <4> SUFFICES ASSUME NEW p \in steady[k] PROVE FALSE
        OBVIOUS
      <4>1. PICK j \in 1 .. Len(Order) : Order[j] = p
        BY <1>13
      <4>2. PICK m \in calls[k].next .. Len(calls[k].candidates) : calls[k].candidates[m] = p
        BY <1>5, <4>1 DEF Ahead
      <4>3. m = calls[k].next
        BY <1>5, <2>3
      <4> QED BY <1>3, <1>12, <2>3, <4>2, <4>3
    <3>2. calls'[k].pc = "failed"
      BY <1>8, <1>9, <2>3
    <3> QED BY <1>1, <3>1, <3>2 DEF Trying, Over, Answered
  <2> QED BY <2>1, <2>2, <2>3
<1> QED BY <1>1, <1>9, <1>10, <1>11, <1>14, OnlyOneCall

LEMMA FinishKeeps ==
    ASSUME CallsInv, NEW k \in Selecting, Calls!Finish(k)
    PROVE  CallsInv'
<1>0. CallTypes
  BY DEF CallsInv
<1>1. UNCHANGED <<up, available, pool, entries>>
  BY DEF Calls!Finish
<1>2. PICK call : call = [Calls!Idle EXCEPT !.made = calls[k].made]
  OBVIOUS
<1>3. call \in CallRecords /\ call.pc = "idle"
  <2>1. calls[k].made \in Nat
    BY <1>0 DEF CallTypes, CallRecords
  <2> QED BY <1>2, <2>1, IdleIs DEF CallRecords
<1>4. calls' = [calls EXCEPT ![k] = call] /\ steady' = [steady EXCEPT ![k] = {}]
  BY <1>2 DEF Calls!Finish
<1>5. /\ calls' \in [Selecting -> CallRecords] /\ calls'[k] = call
      /\ \A m \in Selecting : m # k => calls'[m] = calls[m]
  BY <1>0, <1>3, <1>4, ChangedCall
<1>6. /\ steady' \in [Selecting -> SUBSET Providers] /\ steady'[k] = {}
      /\ \A m \in Selecting : m # k => steady'[m] = steady[m]
  BY <1>0, <1>4 DEF CallTypes
<1>7. CallTypes'
  BY <1>0, <1>1, <1>5, <1>6 DEF CallTypes
<1>8. Steadies(k)' /\ Scanning(k)' /\ Trying(k)' /\ Answered(k)' /\ Over(k)'
  BY <1>3, <1>5, <1>6 DEF Steadies, Scanning, Trying, Answered, Over
<1> QED BY <1>1, <1>5, <1>6, <1>7, <1>8, OnlyOneCall

LEMMA SelectKeeps ==
    ASSUME CallsInv, NEW k \in Selecting, Calls!Select(k)
    PROVE  CallsInv'
<1>0. CallTypes /\ Over(k)
  BY DEF CallsInv
<1>1. UNCHANGED <<up, available, pool, entries, steady>> /\ steady[k] = {}
  BY <1>0 DEF Calls!Select, Over
<1>2. PICK p \in Calls!Fastest(Calls!Selected) \union Calls!Available :
        calls' = [calls EXCEPT ![k] = [Calls!Idle EXCEPT !.pc = "trying", !.made = calls[k].made + 1, !.candidates = <<p>>]]
  BY DEF Calls!Select
<1>3. p \in Providers
  <2>1. \A i \in DOMAIN pool : pool[i] \in Providers
    BY <1>0 DEF CallTypes
  <2>2. pool # <<>> => pool[1] \in Providers
    BY <1>0 DEF CallTypes
  <2>3. Calls!Fastest(Calls!Selected) \subseteq Providers
    BY <1>0 DEF Calls!Fastest, Calls!Selected, CallTypes
  <2>4. Calls!Range(pool) \subseteq Providers
    BY <2>1 DEF Calls!Range
  <2>5. Calls!Available \subseteq Providers
    BY <2>2, <2>4 DEF Calls!Available, Calls!Fastest
  <2> QED BY <2>3, <2>5
<1>4. PICK call : call = [Calls!Idle EXCEPT !.pc = "trying", !.made = calls[k].made + 1, !.candidates = <<p>>]
  OBVIOUS
<1>5. call \in CallRecords /\ call.pc = "trying" /\ ~call.linked /\ call.next = 1 /\ call.candidates = <<p>>
  <2>1. calls[k].made \in Nat
    BY <1>0 DEF CallTypes, CallRecords
  <2>2. PICK list \in Seq(Providers) : list = <<p>>
    BY <1>3, SeqIsCandidates
  <2>3. PICK made \in Nat : made = calls[k].made + 1
    BY <2>1
  <2>4. call = [Calls!Idle EXCEPT !.pc = "trying", !.made = made, !.candidates = list]
    BY <1>4, <2>2, <2>3
  <2> QED BY <2>2, <2>4, IdleIs DEF CallRecords
<1>6. calls' = [calls EXCEPT ![k] = call]
  BY <1>2, <1>4
<1>7. /\ calls' \in [Selecting -> CallRecords] /\ calls'[k] = call
      /\ \A m \in Selecting : m # k => calls'[m] = calls[m]
  BY <1>0, <1>5, <1>6, ChangedCall
<1>8. CallTypes'
  BY <1>0, <1>1, <1>7 DEF CallTypes
<1>9. Steadies(k)' /\ Scanning(k)' /\ Trying(k)' /\ Answered(k)' /\ Over(k)'
  <2>1. calls'[k].next = 1 /\ Len(calls'[k].candidates) = 1 /\ steady'[k] = {}
    BY <1>1, <1>3, <1>5, <1>7, SeqIsCandidates
  <2>2. Scanning(k)' /\ Answered(k)' /\ Over(k)' /\ Steadies(k)'
    BY <1>5, <1>7, <2>1 DEF Scanning, Answered, Over, Steadies
  <2>3. Trying(k)'
    BY <2>1 DEF Trying
  <2> QED BY <2>2, <2>3
<1> QED BY <1>1, <1>7, <1>8, <1>9, OnlyOneCall

LEMMA CallsStart == Calls!Init => CallsInv
<1> SUFFICES ASSUME Calls!Init PROVE CallsInv
  OBVIOUS
<1>1. /\ DOMAIN available = Calls!Vendors /\ pool \in Seq(Providers) /\ entries = {}
      /\ calls = [k \in Selecting |-> Calls!Idle] /\ steady = [k \in Selecting |-> {}]
  BY OrderAssumption DEF Calls!Init
<1>2. Calls!Idle \in CallRecords /\ Calls!Idle.pc = "idle"
  BY DEF Calls!Idle, CallRecords
<1>3. CallTypes
  BY <1>1, <1>2 DEF CallTypes
<1>4. \A k \in Selecting : calls[k].pc = "idle" /\ steady[k] = {}
  BY <1>1, <1>2
<1> QED BY <1>3, <1>4 DEF CallsInv, Steadies, Scanning, Trying, Answered, Over

LEMMA CallsStep == CallsInv /\ [Calls!Next]_(Calls!callVars) => CallsInv'
<1> SUFFICES ASSUME CallsInv, [Calls!Next]_(Calls!callVars) PROVE CallsInv'
  OBVIOUS
<1>1. CASE \/ \E p \in Providers : Calls!Flip(p) \/ Calls!Register(p)
           \/ Calls!Start \/ Calls!Round \/ Calls!Cancel \/ UNCHANGED Calls!callVars
  BY <1>1, RegistryKeeps
<1>2. CASE \E k \in Selecting : Calls!Begin(k) \/ Calls!Scan(k) \/ Calls!Try(k) \/ Calls!Finish(k) \/ Calls!Select(k)
  BY <1>2, BeginKeeps, ScanKeeps, TryKeeps, FinishKeeps, SelectKeeps
<1> QED BY <1>1, <1>2 DEF Calls!Next

\* The fallback over any providers in any order, while they come and go, are registered and pinged.
THEOREM CallsInvariance == Calls!Init /\ [][Calls!Next]_(Calls!callVars) => []CallsInv
  BY CallsStart, CallsStep, PTL

LEMMA CallsInvAnswers == CallsInv => Calls!SteadyProviderAnswers
<1> SUFFICES ASSUME CallsInv, NEW k \in Selecting, calls[k].pc \in {"answered", "failed"}, steady[k] # {}
             PROVE  /\ calls[k].pc = "answered"
                    /\ \A p \in steady[k] : \A j \in DOMAIN Order : Order[j] = p => Calls!NotBehind(calls[k].result[1], j)
  BY DEF Calls!SteadyProviderAnswers
<1>1. Answered(k) /\ Over(k)
  BY DEF CallsInv
<1>2. DOMAIN Order = 1 .. Len(Order)
  BY OrderIs
<1> QED BY <1>1, <1>2 DEF Answered, Over

LEMMA CallsBehave == Spec => Calls!Init /\ [][Calls!Next]_(Calls!callVars)
<1>1. Init => Calls!Init
  BY DEF Init
<1>2. [Next]_vars => [Calls!Next]_(Calls!callVars)
  BY DEF Next, vars, InWire, InCalls, InGuards, InStreams, callVars, Calls!callVars
<1> QED BY <1>1, <1>2, PTL DEF Spec

\* FallbackProvider and ProviderRegistry: a call is answered, by no provider behind one that has been up and
\* held available ever since the call began, whatever is pinged, registered or lost meanwhile.
THEOREM SteadyProviderIsUsed == Spec => []SteadyProviderAnswers
<1>1. CallsInv => SteadyProviderAnswers
  BY CallsInvAnswers DEF SteadyProviderAnswers
<1> QED BY <1>1, CallsInvariance, CallsBehave, PTL
-----------------------------------------------------------------------------
(* CallGuards.  The call of each caller: where it can be, what it is owed. *)

GuardCalls == [pc : {"idle", "in", "running", "waiting", "back"}, made : Nat, kind : {"invoke", "stream"}, at : Nat,
               attempt : 1 .. MaxAttempts,
               result : {"none", "ok", "error", "panic", "cancelled", "budget", "iterations"},
               size : Nat, loaded : Seq(Nat), cancelled : BOOLEAN, timed : BOOLEAN, expired : BOOLEAN, spent : BOOLEAN]

GuardTypes ==
    /\ chain \in Chains /\ remaining \in Nat /\ count \in 0 .. MaxIterations + 1
    /\ guarded \in [Callers -> GuardCalls]
    /\ reached \in Nat /\ paid \in Nat /\ exceeded \in BOOLEAN

Position(g) == Guards!PositionOf(g)

\* Where a call can be; it holds what it read of the budget only while it charges, and never too little.
WellPlaced(k) ==
    /\ k.pc = "in" => k.at \in 1 .. Len(chain) + 1
    /\ k.pc = "running" => k.at = Len(chain) + 1
    /\ k.pc = "waiting" => k.at \in 1 .. Len(chain) /\ chain[k.at] = "retry" /\ k.attempt < MaxAttempts
    /\ k.pc = "back" => k.at \in 0 .. Len(chain)
    /\ k.loaded # <<>> => /\ k.pc = "back" /\ k.at \in 1 .. Len(chain) /\ chain[k.at] = "budget"
                          /\ k.kind = "invoke" /\ k.result = "ok" /\ Len(k.loaded) = 1 /\ k.size <= k.loaded[1]

\* The tokens a call has been charged and its caller has not been told of.
Charge(k) ==
    IF k.pc = "back" /\ Guards!Paying(k) /\ k.at < Position("budget") THEN k.size ELSE 0

\* How often the call can still reach the runnable without passing the counter again.
Credit(k) ==
    IF ~Guards!RetryIsInside THEN IF k.pc = "in" /\ k.at > Position("iterations") THEN 1 ELSE 0
    ELSE IF k.pc = "in" THEN IF k.at <= Position("iterations") THEN 0
                             ELSE IF k.at <= Position("retry") THEN MaxAttempts ELSE MaxAttempts - k.attempt + 1
    ELSE IF k.pc \in {"running", "waiting"} \/ (k.pc = "back" /\ k.at >= Position("retry")) THEN MaxAttempts - k.attempt
    ELSE 0

\* What is counted in units, one pair for each: a set whose size is the sum.
Units(f) == UNION {{d} \X (1 .. f[d]) : d \in Callers}
ChargeOfEach == [d \in Callers |-> Charge(guarded[d])]
CreditOfEach == [d \in Callers |-> Credit(guarded[d])]

Attempts == IF Guards!RetryIsInside THEN MaxAttempts ELSE 1
Passed == IF count <= MaxIterations THEN count ELSE MaxIterations

BudgetAddsUp ==
    /\ IsFiniteSet(Units(ChargeOfEach))
    /\ Guards!Has("budget") => remaining + paid + Cardinality(Units(ChargeOfEach)) = Budget
ReachedIsPaidFor ==
    /\ IsFiniteSet(Units(CreditOfEach))
    /\ Guards!Has("iterations") => reached + Cardinality(Units(CreditOfEach)) <= Passed * Attempts

GuardsInv ==
    /\ GuardTypes
    /\ \A d \in Callers : WellPlaced(guarded[d])
    /\ BudgetAddsUp
    /\ ReachedIsPaidFor

\* The units of one caller.
LEMMA UnitsOfOne ==
    ASSUME NEW d, NEW m \in Nat
    PROVE  IsFiniteSet({d} \X (1 .. m)) /\ Cardinality({d} \X (1 .. m)) = m
<1>1. PICK f : f = [i \in 1 .. m |-> <<d, i>>]
  OBVIOUS
<1>2. f \in [1 .. m -> {d} \X (1 .. m)]
  BY <1>1
<1>3. \A i, j \in 1 .. m : f[i] = f[j] => i = j
  BY <1>1
<1>4. \A t \in {d} \X (1 .. m) : \E i \in 1 .. m : f[i] = t
  BY <1>1
<1>5. ExistsBijection(1 .. m, {d} \X (1 .. m))
  <2>1. f \in Injection(1 .. m, {d} \X (1 .. m))
    BY <1>2, <1>3 DEF Injection, IsInjective
  <2>2. f \in Surjection(1 .. m, {d} \X (1 .. m))
    BY <1>2, <1>4 DEF Surjection
  <2> QED BY <2>1, <2>2 DEF ExistsBijection, Bijection
<1>6. IsFiniteSet(1 .. m) /\ Cardinality(1 .. m) = m
  <2>1. 1 \in Int /\ m \in Int
    OBVIOUS
  <2>2. IsFiniteSet(1 .. m) /\ Cardinality(1 .. m) = IF 1 > m THEN 0 ELSE m - 1 + 1
    BY <2>1, FS_Interval
  <2> QED BY <2>2
<1> QED BY <1>5, <1>6, FS_Bijection

\* One caller's number changes.
LEMMA UnitsChange ==
    ASSUME NEW f, NEW g, DOMAIN f = Callers, NEW d \in Callers, f[d] \in Nat, g[d] \in Nat,
           \A e \in Callers : e # d => g[e] = f[e], IsFiniteSet(Units(f))
    PROVE  /\ IsFiniteSet(Units(g)) /\ Cardinality(Units(f)) \in Nat /\ Cardinality(Units(g)) \in Nat
           /\ Cardinality(Units(g)) + f[d] = Cardinality(Units(f)) + g[d]
<1>1. PICK others : others = UNION {{e} \X (1 .. f[e]) : e \in Callers \ {d}}
  OBVIOUS
<1>2. Units(f) = others \union ({d} \X (1 .. f[d]))
  BY <1>1 DEF Units
<1>3. Units(g) = others \union ({d} \X (1 .. g[d]))
  <2>1. \A u : u \in Units(g) <=> \E e \in Callers : u \in {e} \X (1 .. g[e])
    BY DEF Units
  <2>2. \A u : u \in others <=> \E e \in Callers : e # d /\ u \in {e} \X (1 .. f[e])
    BY <1>1
  <2>3. \A u : u \in others <=> \E e \in Callers : e # d /\ u \in {e} \X (1 .. g[e])
    BY <2>2
  <2> QED BY <2>1, <2>3
<1>4. \A m : others \intersect ({d} \X (1 .. m)) = {}
  BY <1>1
<1>5. IsFiniteSet(others)
  <2>1. others \in SUBSET Units(f)
    BY <1>2
  <2> QED BY <2>1, FS_Subset
<1>6. ASSUME NEW m \in Nat
      PROVE  /\ IsFiniteSet(others \union ({d} \X (1 .. m)))
             /\ Cardinality(others \union ({d} \X (1 .. m))) = Cardinality(others) + m
             /\ Cardinality(others) \in Nat
  <2>1. Cardinality(others) \in Nat
    BY <1>5, FS_CardinalityType
  <2>2. Cardinality(others \intersect ({d} \X (1 .. m))) = 0
    BY <1>4, FS_EmptySet
  <2>3. IsFiniteSet({d} \X (1 .. m)) /\ Cardinality({d} \X (1 .. m)) = m
    BY UnitsOfOne
  <2>4. /\ IsFiniteSet(others \union ({d} \X (1 .. m)))
        /\ Cardinality(others \union ({d} \X (1 .. m))) =
             Cardinality(others) + Cardinality({d} \X (1 .. m)) - Cardinality(others \intersect ({d} \X (1 .. m)))
    BY <1>5, <2>3, FS_Union
  <2> QED BY <2>1, <2>2, <2>3, <2>4
<1>7. /\ IsFiniteSet(Units(g)) /\ Cardinality(Units(g)) = Cardinality(others) + g[d]
      /\ Cardinality(Units(f)) = Cardinality(others) + f[d] /\ Cardinality(others) \in Nat
  BY <1>2, <1>3, <1>6
<1> QED BY <1>7

LEMMA UnitsOfNone ==
    ASSUME NEW f, \A d \in Callers : f[d] = 0
    PROVE  Units(f) = {}
<1>1. \A d \in Callers : {d} \X (1 .. f[d]) = {}
  <2>1. 1 .. 0 = {}
    OBVIOUS
  <2> QED BY <2>1
<1> QED BY <1>1 DEF Units

-----------------------------------------------------------------------------
LEMMA ChainIs ==
    ASSUME GuardTypes
    PROVE  /\ chain \in Seq(Guard) /\ Len(chain) \in Nat /\ DOMAIN chain = 1 .. Len(chain)
           /\ \A i, j \in 1 .. Len(chain) : chain[i] = chain[j] => i = j
  BY ChainsAssumption DEF GuardTypes

\* A guard has one position at most.
LEMMA PositionIs ==
    ASSUME GuardTypes, NEW g
    PROVE  /\ Guards!Has(g) => Position(g) \in 1 .. Len(chain) /\ chain[Position(g)] = g
           /\ \A i \in 1 .. Len(chain) : chain[i] = g => Guards!Has(g) /\ Position(g) = i
<1>1. Guards!Has(g) => Position(g) \in DOMAIN chain /\ chain[Position(g)] = g
  BY DEF Guards!Has, Position, Guards!PositionOf
<1> QED BY <1>1, ChainIs DEF Guards!Has

LEMMA LimitsAre ==
    Budget \in Nat /\ MaxIterations \in Nat /\ MaxAttempts \in Nat \ {0} /\ \A n \in Sizes : n \in Nat
  BY LimitsAssumption

LEMMA CreditIsNat ==
    ASSUME GuardTypes, NEW k \in GuardCalls
    PROVE  Credit(k) \in Nat /\ Charge(k) \in Nat /\ Attempts \in Nat \ {0} /\ Passed \in Nat
<1>1. k.attempt \in 1 .. MaxAttempts /\ k.size \in Nat
  BY DEF GuardCalls
<1> QED BY <1>1, LimitsAre DEF Credit, Charge, Attempts, Passed, GuardTypes

\* A step of one caller: what it does to its own call decides.
LEMMA OneGuardedCall ==
    ASSUME GuardsInv, NEW d \in Callers, NEW call \in GuardCalls, guarded' = [guarded EXCEPT ![d] = call],
           chain' = chain, remaining' \in Nat, count' \in 0 .. MaxIterations + 1, reached' \in Nat, paid' \in Nat, exceeded' \in BOOLEAN,
           WellPlaced(call),
           Guards!Has("budget") => remaining' + paid' + Charge(call) = remaining + paid + Charge(guarded[d]),
           Guards!Has("iterations") =>
             reached' + Credit(call) + Passed * Attempts <= reached + Credit(guarded[d]) + Passed' * Attempts
    PROVE  GuardsInv'
<1>0. GuardTypes /\ BudgetAddsUp /\ ReachedIsPaidFor /\ \A e \in Callers : WellPlaced(guarded[e]) /\ guarded[e] \in GuardCalls
  BY DEF GuardsInv, GuardTypes
<1>1. GuardTypes'
  BY <1>0 DEF GuardTypes, GuardCalls
<1>2. guarded'[d] = call /\ \A e \in Callers : e # d => guarded'[e] = guarded[e]
  BY <1>0 DEF GuardTypes
<1>3. \A e \in Callers : WellPlaced(guarded[e])'
  <2>1. \A k : WellPlaced(k)' <=> WellPlaced(k)
    BY DEF WellPlaced
  <2>2. \A e \in Callers : WellPlaced(guarded'[e])
    BY <1>0, <1>2
  <2> QED BY <2>2 DEF WellPlaced
<1>4. /\ (Guards!Has("budget"))' <=> Guards!Has("budget")
      /\ (Guards!Has("iterations"))' <=> Guards!Has("iterations")
      /\ Guards!RetryIsInside' <=> Guards!RetryIsInside
      /\ Position("budget")' = Position("budget") /\ Position("iterations")' = Position("iterations")
      /\ Position("retry")' = Position("retry") /\ Attempts' = Attempts
  BY DEF Guards!Has, Guards!RetryIsInside, Position, Guards!PositionOf, Attempts
<1>5. ChargeOfEach' = [e \in Callers |-> Charge(guarded'[e])]
  BY <1>4 DEF ChargeOfEach, Charge, Guards!Paying
<1>6. CreditOfEach' = [e \in Callers |-> Credit(guarded'[e])]
  BY <1>4 DEF CreditOfEach, Credit
<1>7. /\ DOMAIN ChargeOfEach = Callers /\ ChargeOfEach[d] = Charge(guarded[d]) /\ ChargeOfEach'[d] = Charge(call)
      /\ \A e \in Callers : e # d => ChargeOfEach'[e] = ChargeOfEach[e]
      /\ ChargeOfEach[d] \in Nat /\ ChargeOfEach'[d] \in Nat
  BY <1>0, <1>2, <1>5, CreditIsNat DEF ChargeOfEach
<1>8. /\ DOMAIN CreditOfEach = Callers /\ CreditOfEach[d] = Credit(guarded[d]) /\ CreditOfEach'[d] = Credit(call)
      /\ \A e \in Callers : e # d => CreditOfEach'[e] = CreditOfEach[e]
      /\ CreditOfEach[d] \in Nat /\ CreditOfEach'[d] \in Nat
  BY <1>0, <1>2, <1>6, CreditIsNat DEF CreditOfEach
<1>9. BudgetAddsUp'
  <2>1. PICK f, g : f = ChargeOfEach /\ g = ChargeOfEach'
    OBVIOUS
  <2>2. /\ IsFiniteSet(Units(g)) /\ Cardinality(Units(f)) \in Nat /\ Cardinality(Units(g)) \in Nat
        /\ Cardinality(Units(g)) + f[d] = Cardinality(Units(f)) + g[d]
    BY <1>0, <1>7, <2>1, UnitsChange DEF BudgetAddsUp
  <2>3. Units(ChargeOfEach)' = Units(g)
    BY <2>1 DEF Units
  <2>4. Guards!Has("budget") => remaining' + paid' + Cardinality(Units(g)) = Budget
    <3>1. Guards!Has("budget") => remaining + paid + Cardinality(Units(f)) = Budget
      BY <1>0, <2>1 DEF BudgetAddsUp
    <3>2. remaining \in Nat /\ paid \in Nat
      BY <1>0 DEF GuardTypes
    <3> QED BY <1>7, <2>1, <2>2, <3>1, <3>2, LimitsAre
  <2> QED BY <1>4, <2>2, <2>3, <2>4 DEF BudgetAddsUp
<1>10. ReachedIsPaidFor'
  <2>1. PICK f, g : f = CreditOfEach /\ g = CreditOfEach'
    OBVIOUS
  <2>2. /\ IsFiniteSet(Units(g)) /\ Cardinality(Units(f)) \in Nat /\ Cardinality(Units(g)) \in Nat
        /\ Cardinality(Units(g)) + f[d] = Cardinality(Units(f)) + g[d]
    BY <1>0, <1>8, <2>1, UnitsChange DEF ReachedIsPaidFor
  <2>3. Units(CreditOfEach)' = Units(g)
    BY <2>1 DEF Units
  <2>4. Guards!Has("iterations") => reached' + Cardinality(Units(g)) <= Passed' * Attempts
    <3>1. Guards!Has("iterations") => reached + Cardinality(Units(f)) <= Passed * Attempts
      BY <1>0, <2>1 DEF ReachedIsPaidFor
    <3>2. reached \in Nat
      BY <1>0 DEF GuardTypes
    <3>3. PICK n, m \in Nat : n = Passed * Attempts /\ m = Passed' * Attempts
      <4>1. Passed \in Nat /\ Attempts \in Nat
        BY <1>0, CreditIsNat
      <4>2. Passed' \in Nat
        BY LimitsAre DEF Passed
      <4>3. \A i, j \in Nat : i * j \in Nat
        OBVIOUS
      <4> QED BY <4>1, <4>2, <4>3
    <3> QED BY <1>8, <2>1, <2>2, <3>1, <3>2, <3>3
  <2> QED BY <1>4, <2>2, <2>3, <2>4 DEF ReachedIsPaidFor
<1> QED BY <1>1, <1>3, <1>9, <1>10 DEF GuardsInv

-----------------------------------------------------------------------------
(* The moves of a call, of which the actions are made.                     *)

Results == {"none", "ok", "error", "panic", "cancelled", "budget", "iterations"}

LEMMA InwardsIs ==
    ASSUME NEW k \in GuardCalls
    PROVE  /\ Guards!Inwards(k) \in GuardCalls /\ Guards!Inwards(k).at = k.at + 1
           /\ Guards!Inwards(k).pc = k.pc /\ Guards!Inwards(k).attempt = k.attempt
           /\ Guards!Inwards(k).loaded = k.loaded /\ Guards!Inwards(k).result = k.result
  BY DEF Guards!Inwards, GuardCalls

LEMMA OutwardsIs ==
    ASSUME NEW k \in GuardCalls, k.at # 0
    PROVE  /\ Guards!Outwards(k) \in GuardCalls /\ Guards!Outwards(k).at = k.at - 1
           /\ Guards!Outwards(k).pc = "back" /\ Guards!Outwards(k).attempt = k.attempt
           /\ Guards!Outwards(k).loaded = k.loaded /\ Guards!Outwards(k).result = k.result
           /\ Guards!Outwards(k).kind = k.kind /\ Guards!Outwards(k).size = k.size
<1>1. k.at - 1 \in Nat
  BY DEF GuardCalls
<1> QED BY <1>1 DEF Guards!Outwards, GuardCalls

LEMMA RefusedIs ==
    ASSUME NEW k \in GuardCalls, k.at # 0, NEW error \in Results
    PROVE  /\ Guards!Refused(k, error) \in GuardCalls /\ Guards!Refused(k, error).at = k.at - 1
           /\ Guards!Refused(k, error).pc = "back" /\ Guards!Refused(k, error).attempt = k.attempt
           /\ Guards!Refused(k, error).loaded = k.loaded /\ Guards!Refused(k, error).result = error
           /\ Guards!Refused(k, error).kind = k.kind /\ Guards!Refused(k, error).size = k.size
<1>1. PICK o : o = Guards!Outwards(k)
  OBVIOUS
<1>2. Guards!Refused(k, error) = [o EXCEPT !.result = error]
  BY <1>1 DEF Guards!Refused
<1>3. /\ o \in GuardCalls /\ o.at = k.at - 1 /\ o.pc = "back" /\ o.attempt = k.attempt /\ o.loaded = k.loaded
      /\ o.kind = k.kind /\ o.size = k.size
  BY <1>1, OutwardsIs
<1> QED BY <1>2, <1>3 DEF GuardCalls, Results

\* Past a guard other than the counter: the credit of WithRetry becomes that of its first attempt.
LEMMA GoesIn ==
    ASSUME GuardTypes, NEW k \in GuardCalls, NEW call \in GuardCalls,
           k.pc = "in", k.at \in 1 .. Len(chain), chain[k.at] # "iterations", WellPlaced(k),
           call.pc = "in", call.at = k.at + 1, call.loaded = <<>>,
           call.attempt = IF chain[k.at] = "retry" THEN 1 ELSE k.attempt
    PROVE  WellPlaced(call) /\ Charge(call) = 0 /\ Charge(k) = 0 /\ (Guards!Has("iterations") => Credit(call) <= Credit(k))
<1> USE ChainIs, LimitsAre
<1>1. WellPlaced(call) /\ Charge(call) = 0 /\ Charge(k) = 0
  BY DEF WellPlaced, Charge
<1>2. ASSUME Guards!Has("iterations") PROVE Credit(call) <= Credit(k)
  <2>1. Position("iterations") \in 1 .. Len(chain) /\ k.at # Position("iterations")
    BY <1>2, PositionIs
  <2>2. CASE ~Guards!RetryIsInside
    BY <2>1, <2>2 DEF Credit
  <2>3. CASE Guards!RetryIsInside
    <3>1. Position("retry") \in 1 .. Len(chain) /\ chain[Position("retry")] = "retry" /\ Position("retry") > Position("iterations")
      BY <2>3, PositionIs DEF Guards!RetryIsInside, Position
    <3>2. k.at = Position("retry") <=> chain[k.at] = "retry"
      BY <3>1, PositionIs
    <3>3. k.attempt \in 1 .. MaxAttempts
      BY DEF GuardCalls
    <3> QED BY <2>1, <2>3, <3>1, <3>2, <3>3 DEF Credit
  <2> QED BY <2>2, <2>3
<1> QED BY <1>1, <1>2

\* Back past a guard, from wherever the call was.
LEMMA GoesOut ==
    ASSUME GuardTypes, NEW k \in GuardCalls, NEW call \in GuardCalls, WellPlaced(k), k.pc # "idle", k.at # 0,
           call.pc = "back", call.at = k.at - 1, call.loaded = <<>>, call.attempt = k.attempt
    PROVE  WellPlaced(call) /\ (Guards!Has("iterations") => Credit(call) <= Credit(k))
<1> USE ChainIs, LimitsAre
<1>1. k.at \in 1 .. Len(chain) + 1 /\ k.pc \in {"in", "running", "waiting", "back"}
  BY DEF WellPlaced, GuardCalls
<1>2. WellPlaced(call)
  BY <1>1 DEF WellPlaced
<1>3. k.attempt \in 1 .. MaxAttempts
  BY DEF GuardCalls
<1>4. ASSUME Guards!Has("iterations") PROVE Credit(call) <= Credit(k)
  <2>1. CASE ~Guards!RetryIsInside
    BY <2>1 DEF Credit
  <2>2. CASE Guards!RetryIsInside
    <3>1. /\ Position("retry") \in 1 .. Len(chain) /\ Position("retry") > Position("iterations")
          /\ Position("iterations") \in 1 .. Len(chain)
      BY <1>4, <2>2, PositionIs DEF Guards!RetryIsInside, Position
    <3>2. k.pc = "waiting" => k.at = Position("retry")
      BY PositionIs DEF WellPlaced
    <3>3. k.pc = "running" => k.at = Len(chain) + 1
      BY DEF WellPlaced
    <3> QED BY <1>1, <1>3, <2>2, <3>1, <3>2, <3>3 DEF Credit
  <2> QED BY <2>1, <2>2
<1> QED BY <1>2, <1>4

\* A call that is not the one that charges is charged what it was.
LEMMA ChargeStays ==
    ASSUME GuardTypes, NEW k \in GuardCalls, NEW call \in GuardCalls, WellPlaced(k), k.at # 0,
           call.pc = "back", call.at = k.at - 1,
           \/ ~Guards!Paying(k) /\ ~Guards!Paying(call)
           \/ ~Guards!Paying(call) /\ (k.pc = "back" => k.at \in 1 .. Len(chain) /\ chain[k.at] = "budget")
           \/ k.pc = "running"
           \/ /\ k.pc = "back" /\ chain[k.at] # "budget"
              /\ call.kind = k.kind /\ call.result = k.result /\ call.size = k.size
    PROVE  Guards!Has("budget") => Charge(call) = Charge(k)
<1> SUFFICES ASSUME Guards!Has("budget") PROVE Charge(call) = Charge(k)
  OBVIOUS
<1> USE ChainIs
<1>1. Position("budget") \in 1 .. Len(chain) /\ chain[Position("budget")] = "budget"
  BY PositionIs
<1>2. k.at \in Nat
  BY DEF GuardCalls
<1>3. CASE ~Guards!Paying(k) /\ ~Guards!Paying(call)
  BY <1>3 DEF Charge
<1>4. CASE ~Guards!Paying(call) /\ (k.pc = "back" => k.at \in 1 .. Len(chain) /\ chain[k.at] = "budget")
  <2>1. k.pc = "back" => k.at = Position("budget")
    BY <1>4, PositionIs
  <2> QED BY <1>1, <1>4, <2>1 DEF Charge
<1>5. CASE k.pc = "running"
  <2>1. k.at = Len(chain) + 1
    BY <1>5 DEF WellPlaced
  <2> QED BY <1>1, <1>5, <2>1 DEF Charge
<1>6. CASE /\ k.pc = "back" /\ chain[k.at] # "budget"
           /\ call.kind = k.kind /\ call.result = k.result /\ call.size = k.size
  <2>1. k.at # Position("budget")
    BY <1>1, <1>6
  <2> QED BY <1>1, <1>2, <1>6, <2>1 DEF Charge, Guards!Paying
<1> QED BY <1>3, <1>4, <1>5, <1>6

\* A step that only moves its call.
LEMMA OnlyMoves ==
    ASSUME GuardsInv, NEW d \in Callers, NEW call \in GuardCalls, guarded' = [guarded EXCEPT ![d] = call],
           UNCHANGED <<chain, remaining, count, reached, paid, exceeded>>, WellPlaced(call),
           Guards!Has("budget") => Charge(call) = Charge(guarded[d]),
           Guards!Has("iterations") => Credit(call) <= Credit(guarded[d])
    PROVE  GuardsInv'
<1>1. GuardTypes /\ guarded[d] \in GuardCalls
  BY DEF GuardsInv, GuardTypes
<1>2. remaining' \in Nat /\ count' \in 0 .. MaxIterations + 1 /\ reached' \in Nat /\ paid' \in Nat /\ exceeded' \in BOOLEAN
  BY <1>1 DEF GuardTypes
<1>3. Passed' = Passed
  BY DEF Passed
<1>4. /\ Charge(call) \in Nat /\ Credit(call) \in Nat /\ Credit(guarded[d]) \in Nat
      /\ \E n \in Nat : n = Passed * Attempts
  <2>1. \A i, j \in Nat : i * j \in Nat
    OBVIOUS
  <2> QED BY <1>1, <2>1, CreditIsNat
<1>5. Guards!Has("budget") => remaining' + paid' + Charge(call) = remaining + paid + Charge(guarded[d])
  OBVIOUS
<1>6. Guards!Has("iterations") =>
         reached' + Credit(call) + Passed * Attempts <= reached + Credit(guarded[d]) + Passed' * Attempts
  <2>1. PICK n \in Nat : n = Passed * Attempts
    BY <1>4
  <2>2. reached \in Nat
    BY <1>1 DEF GuardTypes
  <2> QED BY <1>3, <1>4, <2>1, <2>2
<1> QED BY <1>2, <1>5, <1>6, OneGuardedCall

-----------------------------------------------------------------------------
(* The actions of CallGuards.                                              *)

\* What an action finds.
LEMMA Found ==
    ASSUME GuardsInv, NEW d \in Callers
    PROVE  /\ GuardTypes /\ guarded[d] \in GuardCalls /\ WellPlaced(guarded[d]) /\ d \in DOMAIN guarded
           /\ Len(chain) \in Nat /\ DOMAIN chain = 1 .. Len(chain)
<1>1. GuardTypes /\ guarded[d] \in GuardCalls /\ WellPlaced(guarded[d]) /\ d \in DOMAIN guarded
  BY DEF GuardsInv, GuardTypes
<1> QED BY <1>1, ChainIs

LEMMA NoCallIs ==
    /\ Guards!NoCall \in GuardCalls /\ Guards!NoCall.pc = "idle" /\ Guards!NoCall.loaded = <<>>
    /\ Guards!NoCall.attempt = 1 /\ Guards!NoCall.made = 0 /\ Guards!NoCall.at = 0
  BY LimitsAre DEF Guards!NoCall, GuardCalls

LEMMA BeginGuarded ==
    ASSUME GuardsInv, NEW d \in Callers, Guards!Begin(d)
    PROVE  GuardsInv'
<1> USE Found, LimitsAre
<1>1. PICK k \in GuardCalls : k = guarded[d]
  OBVIOUS
<1>2. UNCHANGED <<chain, remaining, count, reached, paid, exceeded>> /\ k.pc = "idle"
  BY <1>1 DEF Guards!Begin
<1>3. PICK kind \in {"invoke", "stream"} :
        guarded' = [guarded EXCEPT ![d] = [Guards!NoCall EXCEPT !.pc = "in", !.at = 1, !.made = guarded[d].made + 1,
                                                                !.kind = kind, !.spent = exceeded]]
  BY DEF Guards!Begin, Guards!Becomes
<1>4. PICK call : call = [Guards!NoCall EXCEPT !.pc = "in", !.at = 1, !.made = guarded[d].made + 1,
                                               !.kind = kind, !.spent = exceeded]
  OBVIOUS
<1>5. call \in GuardCalls /\ call.pc = "in" /\ call.at = 1 /\ call.loaded = <<>>
  <2>1. PICK made \in Nat : made = guarded[d].made + 1
    BY <1>1 DEF GuardCalls
  <2>2. call = [Guards!NoCall EXCEPT !.pc = "in", !.at = 1, !.made = made, !.kind = kind, !.spent = exceeded]
    BY <1>4, <2>1
  <2>3. kind \in {"invoke", "stream"} /\ exceeded \in BOOLEAN
    BY DEF GuardTypes
  <2> QED BY <2>2, <2>3, NoCallIs DEF GuardCalls
<1>6. WellPlaced(call)
  BY <1>5 DEF WellPlaced
<1>7. Charge(call) = 0 /\ Charge(k) = 0
  BY <1>2, <1>5 DEF Charge
<1>8. Guards!Has("iterations") => Credit(call) = 0
  <2>1. Guards!Has("iterations") => Position("iterations") \in 1 .. Len(chain)
    BY PositionIs
  <2> QED BY <1>5, <2>1 DEF Credit
<1>9. Credit(k) \in Nat
  BY CreditIsNat
<1>10. guarded' = [guarded EXCEPT ![d] = call]
  BY <1>3, <1>4
<1>11. Guards!Has("iterations") => Credit(call) <= Credit(k)
  BY <1>8, <1>9
<1> QED BY <1>1, <1>2, <1>5, <1>6, <1>7, <1>10, <1>11, OnlyMoves

\* CancelCall and DeadlinePasses: the place of the call is what it was.
LEMMA ContextEnds ==
    ASSUME GuardsInv, NEW d \in Callers, Guards!CancelCall(d) \/ Guards!DeadlinePasses(d)
    PROVE  GuardsInv'
<1> USE Found
<1>1. PICK k \in GuardCalls : k = guarded[d]
  OBVIOUS
<1>2. UNCHANGED <<chain, remaining, count, reached, paid, exceeded>>
  BY DEF Guards!CancelCall, Guards!DeadlinePasses
<1>3. PICK call : /\ guarded' = [guarded EXCEPT ![d] = call]
                  /\ call = [k EXCEPT !.cancelled = TRUE] \/ call = [k EXCEPT !.expired = TRUE]
  BY <1>1 DEF Guards!CancelCall, Guards!DeadlinePasses, Guards!Becomes
<1>4. /\ call \in GuardCalls /\ call.pc = k.pc /\ call.at = k.at /\ call.attempt = k.attempt
      /\ call.kind = k.kind /\ call.result = k.result /\ call.size = k.size /\ call.loaded = k.loaded
  <2>1. TRUE \in BOOLEAN
    OBVIOUS
  <2>2. call \in GuardCalls
    <3>1. [k EXCEPT !.cancelled = TRUE] \in GuardCalls
      BY <2>1 DEF GuardCalls
    <3>2. [k EXCEPT !.expired = TRUE] \in GuardCalls
      BY <2>1 DEF GuardCalls
    <3> QED BY <1>3, <3>1, <3>2
  <2> QED BY <1>3, <2>2 DEF GuardCalls
<1>5. WellPlaced(call)
  BY <1>1, <1>4 DEF WellPlaced
<1>6. Charge(call) = Charge(k)
  BY <1>4 DEF Charge, Guards!Paying
<1>7. Credit(call) <= Credit(k)
  <2>1. Credit(call) = Credit(k)
    BY <1>4 DEF Credit
  <2> QED BY <2>1, CreditIsNat
<1> QED BY <1>1, <1>2, <1>3, <1>4, <1>5, <1>6, <1>7, OnlyMoves

LEMMA EntersGuard ==
    ASSUME GuardsInv, NEW d \in Callers, NEW g, Guards!Entering(d, g)
    PROVE  /\ guarded[d].pc = "in" /\ guarded[d].at \in 1 .. Len(chain) /\ chain[guarded[d].at] = g
           /\ guarded[d].loaded = <<>> /\ guarded[d].at # 0
<1>1. guarded[d].pc = "in" /\ guarded[d].at \in 1 .. Len(chain) /\ chain[guarded[d].at] = g
  BY Found DEF Guards!Entering
<1>2. guarded[d].loaded = <<>>
  BY <1>1, Found DEF WellPlaced
<1> QED BY <1>1, <1>2

LEMMA LeavesGuard ==
    ASSUME GuardsInv, NEW d \in Callers, NEW g, Guards!Leaving(d, g)
    PROVE  /\ guarded[d].pc = "back" /\ guarded[d].at \in 1 .. Len(chain) /\ chain[guarded[d].at] = g
           /\ g # "budget" => guarded[d].loaded = <<>>
           /\ guarded[d].at # 0
<1>1. guarded[d].pc = "back" /\ guarded[d].at \in 1 .. Len(chain) /\ chain[guarded[d].at] = g
  BY Found DEF Guards!Leaving
<1>2. g # "budget" => guarded[d].loaded = <<>>
  BY <1>1, Found DEF WellPlaced
<1> QED BY <1>1, <1>2

LEMMA EnterBudgetKeeps ==
    ASSUME GuardsInv, NEW d \in Callers, Guards!EnterBudget(d)
    PROVE  GuardsInv'
<1> USE Found
<1>1. PICK k \in GuardCalls : k = guarded[d]
  OBVIOUS
<1>2. /\ UNCHANGED <<chain, remaining, count, reached, paid, exceeded>>
      /\ k.pc = "in" /\ k.at \in 1 .. Len(chain) /\ chain[k.at] = "budget" /\ k.loaded = <<>> /\ k.at # 0
  BY <1>1, EntersGuard DEF Guards!EnterBudget
<1>3. PICK call : /\ guarded' = [guarded EXCEPT ![d] = call]
                  /\ call = Guards!Refused(k, "budget") \/ call = Guards!Inwards(k)
  BY <1>1 DEF Guards!EnterBudget, Guards!Becomes
<1>4. CASE call = Guards!Refused(k, "budget")
  <2>1. /\ call \in GuardCalls /\ call.pc = "back" /\ call.at = k.at - 1 /\ call.loaded = <<>> /\ call.attempt = k.attempt
        /\ call.result = "budget"
    BY <1>2, <1>4, RefusedIs DEF Results
  <2>2. WellPlaced(call) /\ (Guards!Has("iterations") => Credit(call) <= Credit(k))
    BY <1>1, <1>2, <2>1, GoesOut
  <2>3. Charge(call) = Charge(k)
    BY <1>2, <2>1 DEF Charge, Guards!Paying
  <2> QED BY <1>1, <1>2, <1>3, <2>1, <2>2, <2>3, OnlyMoves
<1>5. CASE call = Guards!Inwards(k)
  <2>1. /\ call \in GuardCalls /\ call.pc = "in" /\ call.at = k.at + 1 /\ call.loaded = <<>> /\ call.attempt = k.attempt
    BY <1>2, <1>5, InwardsIs
  <2>2. WellPlaced(call) /\ Charge(call) = 0 /\ Charge(k) = 0 /\ (Guards!Has("iterations") => Credit(call) <= Credit(k))
    BY <1>1, <1>2, <2>1, GoesIn
  <2> QED BY <1>1, <1>2, <1>3, <2>1, <2>2, OnlyMoves
<1> QED BY <1>3, <1>4, <1>5

\* The counter: a call that is let in is given its credit, and one that is not has none.
LEMMA EnterIterationsKeeps ==
    ASSUME GuardsInv, NEW d \in Callers, Guards!EnterIterations(d)
    PROVE  GuardsInv'
<1> USE Found, LimitsAre, ChainIs
<1>1. PICK k \in GuardCalls : k = guarded[d]
  OBVIOUS
<1>2. /\ UNCHANGED <<chain, remaining, reached, paid, exceeded>>
      /\ k.pc = "in" /\ k.at \in 1 .. Len(chain) /\ chain[k.at] = "iterations" /\ k.loaded = <<>> /\ k.at # 0
  BY <1>1, EntersGuard DEF Guards!EnterIterations
<1>3. count \in 0 .. MaxIterations + 1 /\ remaining \in Nat /\ reached \in Nat /\ paid \in Nat /\ exceeded \in BOOLEAN
  BY DEF GuardTypes
<1>4. PICK call : guarded' = [guarded EXCEPT ![d] = call]
                  /\ \/ count + 1 > MaxIterations /\ count' = MaxIterations + 1 /\ call = Guards!Refused(k, "iterations")
                     \/ ~(count + 1 > MaxIterations) /\ count' = count + 1 /\ call = Guards!Inwards(k)
  BY <1>1 DEF Guards!EnterIterations, Guards!Becomes, Guards!Counted
<1>5. CASE count + 1 > MaxIterations /\ count' = MaxIterations + 1 /\ call = Guards!Refused(k, "iterations")
  <2>1. /\ call \in GuardCalls /\ call.pc = "back" /\ call.at = k.at - 1 /\ call.loaded = <<>> /\ call.attempt = k.attempt
        /\ call.result = "iterations"
    BY <1>2, <1>5, RefusedIs DEF Results
  <2>2. WellPlaced(call) /\ (Guards!Has("iterations") => Credit(call) <= Credit(k))
    BY <1>1, <1>2, <2>1, GoesOut
  <2>3. Charge(call) = Charge(k)
    BY <1>2, <2>1 DEF Charge, Guards!Paying
  <2>4. Passed' = Passed /\ count' \in 0 .. MaxIterations + 1
    BY <1>3, <1>5 DEF Passed
  <2>5. Guards!Has("iterations") =>
          reached' + Credit(call) + Passed * Attempts <= reached + Credit(k) + Passed' * Attempts
    <3>1. PICK n \in Nat : n = Passed * Attempts
      <4>1. \A i, j \in Nat : i * j \in Nat
        OBVIOUS
      <4> QED BY <4>1, CreditIsNat
    <3> QED BY <1>2, <1>3, <2>1, <2>2, <2>4, <3>1, CreditIsNat, SMTT(30)
  <2> QED BY <1>1, <1>2, <1>3, <1>4, <2>1, <2>2, <2>3, <2>4, <2>5, OneGuardedCall
<1>6. CASE ~(count + 1 > MaxIterations) /\ count' = count + 1 /\ call = Guards!Inwards(k)
  <2>1. /\ call \in GuardCalls /\ call.pc = "in" /\ call.at = k.at + 1 /\ call.loaded = <<>> /\ call.attempt = k.attempt
    BY <1>2, <1>6, InwardsIs
  <2>2. WellPlaced(call) /\ Charge(call) = 0 /\ Charge(k) = 0
    BY <1>2, <2>1 DEF WellPlaced, Charge
  <2>3. Passed' = Passed + 1 /\ count' \in 0 .. MaxIterations + 1 /\ Passed \in Nat
    BY <1>3, <1>6 DEF Passed
  <2>4. Credit(call) = Attempts /\ Credit(k) = 0
    <3>1. k.at = Position("iterations")
      BY <1>2, PositionIs
    <3>2. Guards!RetryIsInside => Position("retry") > Position("iterations") /\ Position("retry") \in Nat
      BY PositionIs DEF Guards!RetryIsInside, Position
    <3> QED BY <1>2, <2>1, <3>1, <3>2 DEF Credit, Attempts
  <2>5. reached' + Credit(call) + Passed * Attempts <= reached + Credit(k) + Passed' * Attempts
    <3>1. PICK m \in Nat : m = Attempts
      BY CreditIsNat
    <3>2. (Passed + 1) * m = Passed * m + m
      BY <2>3
    <3>3. PICK n \in Nat : n = Passed * m
      <4>1. \A i, j \in Nat : i * j \in Nat
        OBVIOUS
      <4> QED BY <2>3, <4>1
    <3> QED BY <1>2, <1>3, <2>3, <2>4, <3>1, <3>2, <3>3
  <2> QED BY <1>1, <1>2, <1>3, <1>4, <2>1, <2>2, <2>3, <2>5, OneGuardedCall
<1> QED BY <1>4, <1>5, <1>6

LEMMA EnterTimeoutKeeps ==
    ASSUME GuardsInv, NEW d \in Callers, Guards!EnterTimeout(d)
    PROVE  GuardsInv'
<1> USE Found
<1>1. PICK k \in GuardCalls : k = guarded[d]
  OBVIOUS
<1>2. /\ UNCHANGED <<chain, remaining, count, reached, paid, exceeded>>
      /\ k.pc = "in" /\ k.at \in 1 .. Len(chain) /\ chain[k.at] = "timeout" /\ k.loaded = <<>>
  BY <1>1, EntersGuard DEF Guards!EnterTimeout
<1>3. PICK inner : inner = Guards!Inwards(k)
  OBVIOUS
<1>4. PICK call : guarded' = [guarded EXCEPT ![d] = call] /\ call = [inner EXCEPT !.timed = TRUE]
  BY <1>1, <1>3 DEF Guards!EnterTimeout, Guards!Becomes
<1>5. call \in GuardCalls /\ call.pc = "in" /\ call.at = k.at + 1 /\ call.loaded = <<>> /\ call.attempt = k.attempt
  <2>1. inner \in GuardCalls /\ inner.pc = "in" /\ inner.at = k.at + 1 /\ inner.loaded = <<>> /\ inner.attempt = k.attempt
    BY <1>2, <1>3, InwardsIs
  <2> QED BY <1>4, <2>1 DEF GuardCalls
<1>6. WellPlaced(call) /\ Charge(call) = 0 /\ Charge(k) = 0 /\ (Guards!Has("iterations") => Credit(call) <= Credit(k))
  BY <1>1, <1>2, <1>5, GoesIn
<1> QED BY <1>1, <1>2, <1>4, <1>5, <1>6, OnlyMoves

LEMMA EnterPassingKeeps ==
    ASSUME GuardsInv, NEW d \in Callers, Guards!EnterPassing(d)
    PROVE  GuardsInv'
<1> USE Found, LimitsAre
<1>1. PICK k \in GuardCalls : k = guarded[d]
  OBVIOUS
<1>2. UNCHANGED <<chain, remaining, count, reached, paid, exceeded>>
  BY DEF Guards!EnterPassing
<1>3. /\ k.pc = "in" /\ k.at \in 1 .. Len(chain) /\ k.loaded = <<>>
      /\ chain[k.at] \in {"retry", "recover", "logging", "metadata"}
  <2>1. PICK g \in {"retry", "recover", "logging", "metadata"} : Guards!Entering(d, g)
    BY DEF Guards!EnterPassing
  <2> QED BY <1>1, <2>1, EntersGuard
<1>4. PICK inner : inner = Guards!Inwards(k)
  OBVIOUS
<1>5. PICK call :
        /\ guarded' = [guarded EXCEPT ![d] = call]
        /\ call = [inner EXCEPT !.attempt = IF chain[k.at] = "retry" THEN 1 ELSE inner.attempt]
  BY <1>1, <1>4 DEF Guards!EnterPassing, Guards!Becomes
<1>6. inner \in GuardCalls /\ inner.pc = "in" /\ inner.at = k.at + 1 /\ inner.loaded = <<>> /\ inner.attempt = k.attempt
  BY <1>3, <1>4, InwardsIs
<1>7. /\ call \in GuardCalls /\ call.pc = "in" /\ call.at = k.at + 1 /\ call.loaded = <<>>
      /\ call.attempt = IF chain[k.at] = "retry" THEN 1 ELSE k.attempt
  <2>1. PICK n \in 1 .. MaxAttempts : n = IF chain[k.at] = "retry" THEN 1 ELSE inner.attempt
    BY <1>6 DEF GuardCalls
  <2>2. call = [inner EXCEPT !.attempt = n]
    BY <1>5, <2>1
  <2> QED BY <1>6, <2>1, <2>2 DEF GuardCalls
<1>8. WellPlaced(call) /\ Charge(call) = 0 /\ Charge(k) = 0 /\ (Guards!Has("iterations") => Credit(call) <= Credit(k))
  BY <1>1, <1>3, <1>7, GoesIn
<1> QED BY <1>1, <1>2, <1>5, <1>7, <1>8, OnlyMoves

\* The runnable is reached on credit.
LEMMA ReachKeeps ==
    ASSUME GuardsInv, NEW d \in Callers, Guards!Reach(d)
    PROVE  GuardsInv'
<1> USE Found, LimitsAre
<1>1. PICK k \in GuardCalls : k = guarded[d]
  OBVIOUS
<1>2. /\ UNCHANGED <<chain, remaining, count, paid, exceeded>> /\ reached' = reached + 1
      /\ k.pc = "in" /\ k.at = Len(chain) + 1 /\ WellPlaced(k)
  BY <1>1 DEF Guards!Reach
<1>3. PICK call : guarded' = [guarded EXCEPT ![d] = call] /\ call = [k EXCEPT !.pc = "running"]
  BY <1>1 DEF Guards!Reach, Guards!Becomes
<1>4. /\ call \in GuardCalls /\ call.pc = "running" /\ call.at = k.at /\ call.attempt = k.attempt /\ call.loaded = k.loaded
      /\ k.loaded = <<>>
  BY <1>2, <1>3 DEF GuardCalls, WellPlaced
<1>5. WellPlaced(call) /\ Charge(call) = Charge(k)
  BY <1>2, <1>4 DEF WellPlaced, Charge
<1>6. k.attempt \in 1 .. MaxAttempts
  BY DEF GuardCalls
<1>7. ASSUME Guards!Has("iterations") PROVE Credit(call) + 1 = Credit(k)
  <2>1. Position("iterations") \in 1 .. Len(chain)
    BY <1>7, PositionIs
  <2>2. CASE ~Guards!RetryIsInside
    BY <1>2, <1>4, <2>1, <2>2 DEF Credit
  <2>3. CASE Guards!RetryIsInside
    <3>1. Position("retry") \in 1 .. Len(chain)
      BY <2>3, PositionIs DEF Guards!RetryIsInside
    <3> QED BY <1>2, <1>4, <1>6, <2>1, <2>3, <3>1 DEF Credit
  <2> QED BY <2>2, <2>3
<1>8. /\ remaining' \in Nat /\ count' \in 0 .. MaxIterations + 1 /\ reached' \in Nat /\ paid' \in Nat
      /\ exceeded' \in BOOLEAN /\ reached \in Nat
  BY <1>2 DEF GuardTypes
<1>9. Guards!Has("iterations") =>
         reached' + Credit(call) + Passed * Attempts <= reached + Credit(k) + Passed' * Attempts
  <2>1. PICK n \in Nat : n = Passed * Attempts
    <3>1. \A i, j \in Nat : i * j \in Nat
      OBVIOUS
    <3> QED BY <3>1, CreditIsNat
  <2>2. Passed' = Passed /\ Credit(call) \in Nat /\ Credit(k) \in Nat
    BY <1>2, <1>4, CreditIsNat DEF Passed
  <2> QED BY <1>2, <1>7, <1>8, <2>1, <2>2
<1>10. Guards!Has("budget") => remaining' + paid' + Charge(call) = remaining + paid + Charge(k)
  BY <1>2, <1>5
<1> QED BY <1>1, <1>2, <1>3, <1>4, <1>5, <1>8, <1>9, <1>10, OneGuardedCall

\* What Refused and the like make of a call that comes back.
LEMMA AnswerKeeps ==
    ASSUME GuardsInv, NEW d \in Callers, Guards!Answer(d)
    PROVE  GuardsInv'
<1> USE Found, LimitsAre
<1>1. PICK k \in GuardCalls : k = guarded[d]
  OBVIOUS
<1>2. UNCHANGED <<chain, remaining, count, reached, paid, exceeded>> /\ k.pc = "running"
  BY <1>1 DEF Guards!Answer
<1>3. WellPlaced(k) /\ k.at # 0 /\ k.loaded = <<>>
  BY <1>1, <1>2 DEF WellPlaced
<1>4. PICK error \in {"ok", "error", "panic", "cancelled"} :
        \/ \E n \in Sizes : guarded' = [guarded EXCEPT ![d] = [Guards!Refused(k, error) EXCEPT !.size = n]]
        \/ guarded' = [guarded EXCEPT ![d] = Guards!Refused(k, error)]
  BY <1>1 DEF Guards!Answer, Guards!Becomes
<1>5. PICK refused : refused = Guards!Refused(k, error)
  OBVIOUS
<1>6. /\ refused \in GuardCalls /\ refused.pc = "back" /\ refused.at = k.at - 1 /\ refused.loaded = <<>>
      /\ refused.attempt = k.attempt
  BY <1>3, <1>5, RefusedIs DEF Results
<1>7. PICK call : /\ guarded' = [guarded EXCEPT ![d] = call]
                  /\ call = refused \/ \E n \in Sizes : call = [refused EXCEPT !.size = n]
  BY <1>4, <1>5
<1>8. /\ call \in GuardCalls /\ call.pc = "back" /\ call.at = k.at - 1 /\ call.loaded = <<>>
      /\ call.attempt = k.attempt
  BY <1>6, <1>7 DEF GuardCalls
<1>9. WellPlaced(call) /\ (Guards!Has("iterations") => Credit(call) <= Credit(k))
  BY <1>1, <1>2, <1>3, <1>8, GoesOut
<1>10. Guards!Has("budget") => Charge(call) = Charge(k)
  BY <1>1, <1>2, <1>3, <1>8, ChargeStays
<1> QED BY <1>1, <1>2, <1>7, <1>8, <1>9, <1>10, OnlyMoves

LEMMA OneNumber ==
    ASSUME NEW n \in Nat
    PROVE  <<n>> \in Seq(Nat) /\ Len(<<n>>) = 1 /\ <<n>>[1] = n
  OBVIOUS

\* Consume reads the budget, and refuses what does not fit.
LEMMA LoadKeeps ==
    ASSUME GuardsInv, NEW d \in Callers, Guards!LoadRemaining(d)
    PROVE  GuardsInv'
<1> USE Found, LimitsAre
<1>1. PICK k \in GuardCalls : k = guarded[d]
  OBVIOUS
<1>2. /\ UNCHANGED <<chain, remaining, count, reached, paid, exceeded>>
      /\ k.pc = "back" /\ k.at \in 1 .. Len(chain) /\ chain[k.at] = "budget" /\ k.at # 0
      /\ k.kind = "invoke" /\ k.result = "ok" /\ k.loaded = <<>> /\ WellPlaced(k)
  BY <1>1, LeavesGuard DEF Guards!LoadRemaining, Guards!Charges
<1>3. PICK call :
        /\ guarded' = [guarded EXCEPT ![d] = call]
        /\ \/ call = Guards!Refused(k, "budget")
           \/ ~(remaining < k.size) /\ call = [k EXCEPT !.loaded = <<remaining>>]
  BY <1>1 DEF Guards!LoadRemaining, Guards!Becomes
<1>4. CASE call = Guards!Refused(k, "budget")
  <2>1. /\ call \in GuardCalls /\ call.pc = "back" /\ call.at = k.at - 1 /\ call.loaded = <<>> /\ call.attempt = k.attempt
        /\ call.result = "budget"
    BY <1>2, <1>4, RefusedIs DEF Results
  <2>2. WellPlaced(call) /\ (Guards!Has("iterations") => Credit(call) <= Credit(k))
    BY <1>1, <1>2, <2>1, GoesOut
  <2>3. ~Guards!Paying(call)
    BY <2>1 DEF Guards!Paying
  <2>4. Guards!Has("budget") => Charge(call) = Charge(k)
    BY <1>1, <1>2, <2>1, <2>3, ChargeStays
  <2> QED BY <1>1, <1>2, <1>3, <2>1, <2>2, <2>4, OnlyMoves
<1>5. CASE ~(remaining < k.size) /\ call = [k EXCEPT !.loaded = <<remaining>>]
  <2>1. remaining \in Nat /\ k.size \in Nat
    BY DEF GuardTypes, GuardCalls
  <2>2. PICK list : list = <<remaining>> /\ list \in Seq(Nat) /\ Len(list) = 1 /\ list[1] = remaining
    BY <2>1, OneNumber
  <2>3. /\ call \in GuardCalls /\ call.pc = k.pc /\ call.at = k.at /\ call.attempt = k.attempt
        /\ call.kind = k.kind /\ call.result = k.result /\ call.size = k.size /\ call.loaded = list
    BY <1>5, <2>2 DEF GuardCalls
  <2>4. WellPlaced(call)
    BY <1>2, <1>5, <2>1, <2>2, <2>3 DEF WellPlaced
  <2>5. Charge(call) = Charge(k)
    BY <2>3 DEF Charge, Guards!Paying
  <2>6. Credit(call) <= Credit(k)
    <3>1. Credit(call) = Credit(k)
      BY <2>3 DEF Credit
    <3> QED BY <3>1, CreditIsNat
  <2> QED BY <1>1, <1>2, <1>3, <2>3, <2>4, <2>5, <2>6, OnlyMoves
<1> QED BY <1>3, <1>4, <1>5

\* Consume swaps the budget, which nobody has changed since it was read, or reads again.
LEMMA SwapKeeps ==
    ASSUME GuardsInv, NEW d \in Callers, Guards!Swap(d)
    PROVE  GuardsInv'
<1> USE Found, LimitsAre
<1>1. PICK k \in GuardCalls : k = guarded[d]
  OBVIOUS
<1>2. /\ UNCHANGED <<chain, count, reached, paid, exceeded>>
      /\ k.pc = "back" /\ k.at \in 1 .. Len(chain) /\ chain[k.at] = "budget" /\ k.at # 0
      /\ k.kind = "invoke" /\ k.result = "ok" /\ k.loaded # <<>> /\ WellPlaced(k)
  BY <1>1, LeavesGuard DEF Guards!Swap, Guards!Charges
<1>3. k.size <= k.loaded[1] /\ k.size \in Nat /\ remaining \in Nat /\ paid \in Nat /\ <<>> \in Seq(Nat)
  BY <1>2 DEF WellPlaced, GuardTypes, GuardCalls
<1>4. PICK outer : outer = Guards!Outwards(k)
  OBVIOUS
<1>5. /\ outer \in GuardCalls /\ outer.pc = "back" /\ outer.at = k.at - 1 /\ outer.attempt = k.attempt
      /\ outer.kind = k.kind /\ outer.result = k.result /\ outer.size = k.size
  BY <1>2, <1>4, OutwardsIs
<1>6. PICK call :
        /\ guarded' = [guarded EXCEPT ![d] = call]
        /\ \/ /\ remaining = k.loaded[1] /\ remaining' = k.loaded[1] - k.size
              /\ call = [outer EXCEPT !.loaded = <<>>]
           \/ remaining' = remaining /\ call = [k EXCEPT !.loaded = <<>>]
  BY <1>1, <1>4 DEF Guards!Swap, Guards!Becomes, Guards!Swappable, Guards!Reloading
<1>7. CASE remaining = k.loaded[1] /\ remaining' = k.loaded[1] - k.size /\ call = [outer EXCEPT !.loaded = <<>>]
  <2>1. /\ call \in GuardCalls /\ call.pc = "back" /\ call.at = k.at - 1 /\ call.loaded = <<>> /\ call.attempt = k.attempt
        /\ call.kind = k.kind /\ call.result = k.result /\ call.size = k.size
    BY <1>3, <1>5, <1>7 DEF GuardCalls
  <2>2. WellPlaced(call) /\ (Guards!Has("iterations") => Credit(call) <= Credit(k))
    BY <1>1, <1>2, <2>1, GoesOut
  <2>3. remaining' \in Nat /\ remaining' + k.size = remaining
    BY <1>3, <1>7
  <2>4. Guards!Has("budget") => remaining' + paid' + Charge(call) = remaining + paid + Charge(k)
    <3>1. k.at = Position("budget")
      BY <1>2, PositionIs
    <3>2. Charge(call) = k.size /\ Charge(k) = 0
      BY <1>2, <2>1, <3>1 DEF Charge, Guards!Paying
    <3> QED BY <1>2, <1>3, <2>3, <3>2
  <2>5. /\ count' \in 0 .. MaxIterations + 1 /\ reached' \in Nat /\ paid' \in Nat /\ exceeded' \in BOOLEAN /\ reached \in Nat
    BY <1>2 DEF GuardTypes
  <2>6. Guards!Has("iterations") =>
          reached' + Credit(call) + Passed * Attempts <= reached + Credit(k) + Passed' * Attempts
    <3>1. PICK n \in Nat : n = Passed * Attempts
      <4>1. \A i, j \in Nat : i * j \in Nat
        OBVIOUS
      <4> QED BY <4>1, CreditIsNat
    <3>2. Passed' = Passed /\ Credit(call) \in Nat /\ Credit(k) \in Nat
      BY <1>2, <2>1, CreditIsNat DEF Passed
    <3> QED BY <1>2, <2>2, <2>5, <3>1, <3>2
  <2> QED BY <1>1, <1>2, <1>6, <2>1, <2>2, <2>3, <2>4, <2>5, <2>6, OneGuardedCall
<1>8. CASE remaining' = remaining /\ call = [k EXCEPT !.loaded = <<>>]
  <2>1. /\ call \in GuardCalls /\ call.pc = k.pc /\ call.at = k.at /\ call.attempt = k.attempt
        /\ call.kind = k.kind /\ call.result = k.result /\ call.size = k.size /\ call.loaded = <<>>
    BY <1>3, <1>8 DEF GuardCalls
  <2>2. WellPlaced(call)
    BY <1>2, <2>1 DEF WellPlaced
  <2>3. Charge(call) = Charge(k)
    BY <2>1 DEF Charge, Guards!Paying
  <2>4. Credit(call) <= Credit(k)
    <3>1. Credit(call) = Credit(k)
      BY <2>1 DEF Credit
    <3> QED BY <3>1, CreditIsNat
  <2> QED BY <1>1, <1>2, <1>6, <1>8, <2>1, <2>2, <2>3, <2>4, OnlyMoves
<1> QED BY <1>6, <1>7, <1>8

\* WithRetry waits, or gives up with the last error.
LEMMA LeaveRetryKeeps ==
    ASSUME GuardsInv, NEW d \in Callers, Guards!LeaveRetry(d)
    PROVE  GuardsInv'
<1> USE Found, LimitsAre
<1>1. PICK k \in GuardCalls : k = guarded[d]
  OBVIOUS
<1>2. /\ UNCHANGED <<chain, remaining, count, reached, paid, exceeded>>
      /\ k.pc = "back" /\ k.at \in 1 .. Len(chain) /\ chain[k.at] = "retry" /\ k.at # 0 /\ k.loaded = <<>>
      /\ k.kind = "invoke" /\ k.result \notin {"ok", "panic"} /\ WellPlaced(k)
  BY <1>1, LeavesGuard DEF Guards!LeaveRetry, Guards!Retries
<1>3. PICK call :
        /\ guarded' = [guarded EXCEPT ![d] = call]
        /\ \/ k.attempt < MaxAttempts /\ call = [k EXCEPT !.pc = "waiting"]
           \/ call = Guards!Outwards(k)
  BY <1>1 DEF Guards!LeaveRetry, Guards!Becomes
<1>4. CASE k.attempt < MaxAttempts /\ call = [k EXCEPT !.pc = "waiting"]
  <2>1. /\ call \in GuardCalls /\ call.pc = "waiting" /\ call.at = k.at /\ call.attempt = k.attempt
        /\ call.loaded = <<>> /\ call.result = k.result
    BY <1>2, <1>4 DEF GuardCalls
  <2>2. WellPlaced(call)
    BY <1>2, <1>4, <2>1 DEF WellPlaced
  <2>3. Charge(call) = Charge(k)
    BY <1>2, <2>1 DEF Charge, Guards!Paying
  <2>4. Guards!Has("iterations") => Credit(call) <= Credit(k)
    <3>1. k.at = Position("retry")
      BY <1>2, PositionIs
    <3>2. Credit(call) = Credit(k)
      BY <1>2, <2>1, <3>1 DEF Credit, GuardCalls
    <3> QED BY <2>1, <3>2, CreditIsNat
  <2> QED BY <1>1, <1>2, <1>3, <2>1, <2>2, <2>3, <2>4, OnlyMoves
<1>5. CASE call = Guards!Outwards(k)
  <2>1. /\ call \in GuardCalls /\ call.pc = "back" /\ call.at = k.at - 1 /\ call.loaded = <<>> /\ call.attempt = k.attempt
        /\ call.result = k.result
    BY <1>2, <1>5, OutwardsIs
  <2>2. WellPlaced(call) /\ (Guards!Has("iterations") => Credit(call) <= Credit(k))
    BY <1>1, <1>2, <2>1, GoesOut
  <2>3. Charge(call) = Charge(k)
    BY <1>2, <2>1 DEF Charge, Guards!Paying
  <2> QED BY <1>1, <1>2, <1>3, <2>1, <2>2, <2>3, OnlyMoves
<1> QED BY <1>3, <1>4, <1>5

\* The wait ends with the next attempt, which is on the credit of the last, or with the context.
LEMMA WaitedKeeps ==
    ASSUME GuardsInv, NEW d \in Callers, Guards!Waited(d)
    PROVE  GuardsInv'
<1> USE Found, LimitsAre
<1>1. PICK k \in GuardCalls : k = guarded[d]
  OBVIOUS
<1>2. /\ UNCHANGED <<chain, remaining, count, reached, paid, exceeded>>
      /\ k.pc = "waiting" /\ k.at \in 1 .. Len(chain) /\ chain[k.at] = "retry" /\ k.at # 0
      /\ k.attempt < MaxAttempts /\ k.loaded = <<>> /\ WellPlaced(k)
  BY <1>1 DEF Guards!Waited, WellPlaced
<1>3. PICK inner : inner = Guards!Inwards(k)
  OBVIOUS
<1>4. PICK call :
        /\ guarded' = [guarded EXCEPT ![d] = call]
        /\ \/ call = [inner EXCEPT !.pc = "in", !.attempt = inner.attempt + 1, !.result = "none"]
           \/ call = Guards!Refused(k, "cancelled")
  BY <1>1, <1>3 DEF Guards!Waited, Guards!Becomes, Guards!NextAttempt
<1>5. CASE call = [inner EXCEPT !.pc = "in", !.attempt = inner.attempt + 1, !.result = "none"]
  <2>1. inner \in GuardCalls /\ inner.at = k.at + 1 /\ inner.loaded = <<>> /\ inner.attempt = k.attempt
    BY <1>2, <1>3, InwardsIs
  <2>2. PICK n \in 1 .. MaxAttempts : n = inner.attempt + 1
    BY <1>2, <2>1 DEF GuardCalls
  <2>3. /\ call \in GuardCalls /\ call.pc = "in" /\ call.at = k.at + 1 /\ call.loaded = <<>> /\ call.attempt = k.attempt + 1
    BY <1>5, <2>1, <2>2 DEF GuardCalls
  <2>4. WellPlaced(call)
    BY <1>2, <2>3 DEF WellPlaced
  <2>5. Charge(call) = Charge(k)
    BY <1>2, <2>3 DEF Charge
  <2>6. ASSUME Guards!Has("iterations") PROVE Credit(call) <= Credit(k)
    <3>1. k.at = Position("retry") /\ Position("iterations") \in 1 .. Len(chain)
      BY <1>2, <2>6, PositionIs
    <3>2. CASE ~Guards!RetryIsInside
      <4>1. Guards!Has("retry") /\ k.at <= Position("iterations")
        BY <1>2, <3>1, <3>2, PositionIs DEF Guards!RetryIsInside, Position
      <4>2. k.at # Position("iterations")
        BY <1>2, <2>6, PositionIs
      <4> QED BY <1>2, <2>3, <3>1, <3>2, <4>1, <4>2 DEF Credit
    <3>3. CASE Guards!RetryIsInside
      <4>1. Position("retry") > Position("iterations")
        BY <3>3 DEF Guards!RetryIsInside, Position
      <4>2. Credit(call) = MaxAttempts - call.attempt + 1
        BY <1>2, <2>3, <3>1, <3>3, <4>1, ChainIs DEF Credit
      <4>3. Credit(k) = MaxAttempts - k.attempt
        BY <1>2, <3>3 DEF Credit
      <4>4. k.attempt \in Nat
        BY DEF GuardCalls
      <4> QED BY <2>3, <4>2, <4>3, <4>4
    <3> QED BY <3>2, <3>3
  <2> QED BY <1>1, <1>2, <1>4, <2>3, <2>4, <2>5, <2>6, OnlyMoves
<1>6. CASE call = Guards!Refused(k, "cancelled")
  <2>1. /\ call \in GuardCalls /\ call.pc = "back" /\ call.at = k.at - 1 /\ call.loaded = <<>> /\ call.attempt = k.attempt
        /\ call.result = "cancelled"
    BY <1>2, <1>6, RefusedIs DEF Results
  <2>2. WellPlaced(call) /\ (Guards!Has("iterations") => Credit(call) <= Credit(k))
    BY <1>1, <1>2, <2>1, GoesOut
  <2>3. Charge(call) = Charge(k)
    BY <1>2, <2>1 DEF Charge, Guards!Paying
  <2> QED BY <1>1, <1>2, <1>4, <2>1, <2>2, <2>3, OnlyMoves
<1> QED BY <1>4, <1>5, <1>6

\* The guards that let a call pass on its way back.
LEMMA LeaveTimeoutKeeps ==
    ASSUME GuardsInv, NEW d \in Callers, Guards!LeaveTimeout(d)
    PROVE  GuardsInv'
<1> USE Found
<1>1. PICK k \in GuardCalls : k = guarded[d]
  OBVIOUS
<1>2. /\ UNCHANGED <<chain, remaining, count, reached, paid, exceeded>>
      /\ k.pc = "back" /\ k.at \in 1 .. Len(chain) /\ chain[k.at] = "timeout" /\ k.at # 0 /\ k.loaded = <<>>
  BY <1>1, LeavesGuard DEF Guards!LeaveTimeout
<1>3. PICK outer : outer = Guards!Outwards(k)
  OBVIOUS
<1>4. PICK call : /\ guarded' = [guarded EXCEPT ![d] = call]
                  /\ call = [outer EXCEPT !.timed = FALSE, !.expired = FALSE]
  BY <1>1, <1>3 DEF Guards!LeaveTimeout, Guards!Becomes
<1>5. /\ outer \in GuardCalls /\ outer.pc = "back" /\ outer.at = k.at - 1 /\ outer.attempt = k.attempt /\ outer.loaded = <<>>
      /\ outer.kind = k.kind /\ outer.result = k.result /\ outer.size = k.size
  BY <1>2, <1>3, OutwardsIs
<1>6. /\ call \in GuardCalls /\ call.pc = "back" /\ call.at = k.at - 1 /\ call.attempt = k.attempt /\ call.loaded = <<>>
      /\ call.kind = k.kind /\ call.result = k.result /\ call.size = k.size
  BY <1>4, <1>5 DEF GuardCalls
<1>7. WellPlaced(call) /\ (Guards!Has("iterations") => Credit(call) <= Credit(k))
  BY <1>1, <1>2, <1>6, GoesOut
<1>8. Guards!Has("budget") => Charge(call) = Charge(k)
  BY <1>1, <1>2, <1>6, ChargeStays
<1> QED BY <1>1, <1>2, <1>4, <1>6, <1>7, <1>8, OnlyMoves

LEMMA LeaveRecoverKeeps ==
    ASSUME GuardsInv, NEW d \in Callers, Guards!LeaveRecover(d)
    PROVE  GuardsInv'
<1> USE Found
<1>1. PICK k \in GuardCalls : k = guarded[d]
  OBVIOUS
<1>2. /\ UNCHANGED <<chain, remaining, count, reached, paid, exceeded>>
      /\ k.pc = "back" /\ k.at \in 1 .. Len(chain) /\ chain[k.at] = "recover" /\ k.at # 0 /\ k.loaded = <<>>
  BY <1>1, LeavesGuard DEF Guards!LeaveRecover
<1>3. PICK outer : outer = Guards!Outwards(k)
  OBVIOUS
<1>4. /\ outer \in GuardCalls /\ outer.pc = "back" /\ outer.at = k.at - 1 /\ outer.attempt = k.attempt /\ outer.loaded = <<>>
      /\ outer.kind = k.kind /\ outer.result = k.result /\ outer.size = k.size
  BY <1>2, <1>3, OutwardsIs
<1>5. PICK result \in Results :
        result = IF outer.result = "panic" /\ k.kind = "invoke" THEN "error" ELSE outer.result
  BY <1>4 DEF Results, GuardCalls
<1>6. PICK call : guarded' = [guarded EXCEPT ![d] = call] /\ call = [outer EXCEPT !.result = result]
  BY <1>1, <1>3, <1>5 DEF Guards!LeaveRecover, Guards!Becomes
<1>7. /\ call \in GuardCalls /\ call.pc = "back" /\ call.at = k.at - 1 /\ call.attempt = k.attempt /\ call.loaded = <<>>
      /\ call.kind = k.kind /\ call.result = result /\ call.size = k.size
  BY <1>4, <1>6 DEF GuardCalls, Results
<1>8. WellPlaced(call) /\ (Guards!Has("iterations") => Credit(call) <= Credit(k))
  BY <1>1, <1>2, <1>7, GoesOut
<1>9. Guards!Has("budget") => Charge(call) = Charge(k)
  <2>1. CASE result = k.result
    BY <1>1, <1>2, <1>7, <2>1, ChargeStays
  <2>2. CASE result = "error" /\ k.result = "panic"
    <3>1. ~Guards!Paying(k) /\ ~Guards!Paying(call)
      BY <1>7, <2>2 DEF Guards!Paying
    <3> QED BY <1>1, <1>2, <1>7, <3>1, ChargeStays
  <2> QED BY <1>4, <1>5, <2>1, <2>2
<1> QED BY <1>1, <1>2, <1>6, <1>7, <1>8, <1>9, OnlyMoves

LEMMA LeavePassingKeeps ==
    ASSUME GuardsInv, NEW d \in Callers, Guards!LeavePassing(d)
    PROVE  GuardsInv'
<1> USE Found
<1>1. PICK k \in GuardCalls : k = guarded[d]
  OBVIOUS
<1>2. UNCHANGED <<chain, remaining, count, reached, paid, exceeded>>
  BY DEF Guards!LeavePassing
<1>3. PICK call : guarded' = [guarded EXCEPT ![d] = call] /\ call = Guards!Outwards(k)
  BY <1>1 DEF Guards!LeavePassing, Guards!Becomes
<1>4. /\ k.pc = "back" /\ k.at \in 1 .. Len(chain) /\ k.at # 0
      /\ \/ chain[k.at] # "budget" /\ k.loaded = <<>>
         \/ chain[k.at] = "budget" /\ ~Guards!Paying(k)
  <2>1. CASE \E g \in {"iterations", "logging", "metadata"} : Guards!Leaving(d, g)
    BY <1>1, <2>1, LeavesGuard
  <2>2. CASE Guards!Leaving(d, "budget") /\ ~Guards!Charges(d)
    BY <1>1, <2>2, LeavesGuard DEF Guards!Charges, Guards!Paying
  <2>3. CASE Guards!Leaving(d, "retry") /\ ~Guards!Retries(d)
    BY <1>1, <2>3, LeavesGuard
  <2> QED BY <2>1, <2>2, <2>3 DEF Guards!LeavePassing
<1>5. k.loaded = <<>>
  BY <1>1, <1>4 DEF WellPlaced, Guards!Paying
<1>6. /\ call \in GuardCalls /\ call.pc = "back" /\ call.at = k.at - 1 /\ call.attempt = k.attempt /\ call.loaded = <<>>
      /\ call.kind = k.kind /\ call.result = k.result /\ call.size = k.size
  BY <1>3, <1>4, <1>5, OutwardsIs
<1>7. WellPlaced(call) /\ (Guards!Has("iterations") => Credit(call) <= Credit(k))
  BY <1>1, <1>4, <1>6, GoesOut
<1>8. Guards!Has("budget") => Charge(call) = Charge(k)
  <2>1. CASE chain[k.at] # "budget"
    BY <1>1, <1>4, <1>6, <2>1, ChargeStays
  <2>2. CASE ~Guards!Paying(k)
    <3>1. ~Guards!Paying(call)
      BY <1>6, <2>2 DEF Guards!Paying
    <3> QED BY <1>1, <1>4, <1>6, <2>2, <3>1, ChargeStays
  <2> QED BY <1>4, <2>1, <2>2
<1> QED BY <1>1, <1>2, <1>3, <1>6, <1>7, <1>8, OnlyMoves

\* The caller is told, and what it was charged is paid.
LEMMA ReturnKeeps ==
    ASSUME GuardsInv, NEW d \in Callers, Guards!Return(d)
    PROVE  GuardsInv'
<1> USE Found, LimitsAre
<1>1. PICK k \in GuardCalls : k = guarded[d]
  OBVIOUS
<1>2. UNCHANGED <<chain, remaining, count, reached>> /\ k.pc = "back" /\ k.at = 0
  BY <1>1 DEF Guards!Return
<1>3. PICK call : guarded' = [guarded EXCEPT ![d] = call] /\ call = [Guards!NoCall EXCEPT !.made = k.made]
  BY <1>1 DEF Guards!Return, Guards!Becomes
<1>4. call \in GuardCalls /\ call.pc = "idle" /\ call.loaded = <<>>
  <2>1. PICK made \in Nat : made = k.made
    BY DEF GuardCalls
  <2>2. call = [Guards!NoCall EXCEPT !.made = made]
    BY <1>3, <2>1
  <2> QED BY <2>2, NoCallIs DEF GuardCalls
<1>5. WellPlaced(call) /\ Charge(call) = 0 /\ Credit(call) = 0
  BY <1>4 DEF WellPlaced, Charge, Credit
<1>6. k.size \in Nat /\ Credit(k) \in Nat
  BY CreditIsNat DEF GuardCalls
<1>7. paid' = (IF Guards!Paying(k) THEN paid + k.size ELSE paid) /\ exceeded' \in BOOLEAN /\ paid \in Nat /\ remaining \in Nat
  BY <1>1 DEF Guards!Return, GuardTypes
<1>8. paid' \in Nat
  BY <1>6, <1>7
<1>9. Guards!Has("budget") => remaining' + paid' + Charge(call) = remaining + paid + Charge(k)
  <2>1. Guards!Has("budget") => Position("budget") \in 1 .. Len(chain)
    BY PositionIs
  <2>2. Guards!Has("budget") => Charge(k) = IF Guards!Paying(k) THEN k.size ELSE 0
    BY <1>2, <2>1 DEF Charge
  <2> QED BY <1>2, <1>5, <1>6, <1>7, <2>2
<1>10. Guards!Has("iterations") =>
         reached' + Credit(call) + Passed * Attempts <= reached + Credit(k) + Passed' * Attempts
  <2>1. PICK n \in Nat : n = Passed * Attempts
    <3>1. \A i, j \in Nat : i * j \in Nat
      OBVIOUS
    <3> QED BY <3>1, CreditIsNat
  <2>2. Passed' = Passed /\ reached \in Nat
    BY <1>2 DEF Passed, GuardTypes
  <2> QED BY <1>2, <1>5, <1>6, <2>1, <2>2
<1>11. remaining' \in Nat /\ count' \in 0 .. MaxIterations + 1 /\ reached' \in Nat
  BY <1>2 DEF GuardTypes
<1> QED BY <1>1, <1>2, <1>3, <1>4, <1>5, <1>7, <1>8, <1>9, <1>10, <1>11, OneGuardedCall

-----------------------------------------------------------------------------
LEMMA GuardsStart ==
    ASSUME Guards!Init
    PROVE  GuardsInv
<1> USE LimitsAre
<1>1. GuardTypes
  <2>1. Guards!NoCall \in GuardCalls
    BY NoCallIs
  <2>2. /\ chain \in Chains /\ remaining = Budget /\ count = 0 /\ guarded = [d \in Callers |-> Guards!NoCall]
        /\ reached = 0 /\ paid = 0 /\ exceeded = FALSE
    BY DEF Guards!Init
  <2>3. guarded \in [Callers -> GuardCalls]
    BY <2>1, <2>2
  <2>4. remaining \in Nat /\ count \in 0 .. MaxIterations + 1 /\ reached \in Nat /\ paid \in Nat
    BY <2>2
  <2>5. exceeded \in BOOLEAN
    BY <2>2
  <2> QED BY <2>2, <2>3, <2>4, <2>5 DEF GuardTypes
<1>2. \A d \in Callers : guarded[d].pc = "idle" /\ guarded[d].loaded = <<>>
  BY NoCallIs DEF Guards!Init
<1>3. \A d \in Callers : WellPlaced(guarded[d])
  BY <1>2 DEF WellPlaced
<1>4. Units(ChargeOfEach) = {} /\ Units(CreditOfEach) = {}
  <2>1. \A d \in Callers : ChargeOfEach[d] = 0 /\ CreditOfEach[d] = 0
    BY <1>2 DEF ChargeOfEach, CreditOfEach, Charge, Credit
  <2> QED BY <2>1, UnitsOfNone
<1>5. IsFiniteSet({}) /\ Cardinality({}) = 0
  BY FS_EmptySet
<1>6. remaining = Budget /\ reached = 0 /\ paid = 0
  BY DEF Guards!Init
<1>7. BudgetAddsUp
  BY <1>4, <1>5, <1>6 DEF BudgetAddsUp
<1>8. ReachedIsPaidFor
  <2>1. PICK n \in Nat : n = Passed * Attempts
    <3>1. \A i, j \in Nat : i * j \in Nat
      OBVIOUS
    <3>2. Passed \in Nat /\ Attempts \in Nat
      BY <1>1 DEF Passed, Attempts, GuardTypes
    <3> QED BY <3>1, <3>2
  <2> QED BY <1>4, <1>5, <1>6, <2>1 DEF ReachedIsPaidFor
<1> QED BY <1>1, <1>3, <1>7, <1>8 DEF GuardsInv

LEMMA GuardsStutter ==
    ASSUME GuardsInv, UNCHANGED Guards!guardVars
    PROVE  GuardsInv'
<1>1. UNCHANGED <<chain, remaining, count, guarded, reached, paid, exceeded>>
  BY DEF Guards!guardVars
<1>2. GuardTypes'
  BY <1>1 DEF GuardTypes, GuardsInv
<1>3. \A d \in Callers : WellPlaced(guarded[d])'
  BY <1>1 DEF GuardsInv, WellPlaced
<1>4. ChargeOfEach' = ChargeOfEach /\ CreditOfEach' = CreditOfEach /\ Passed' = Passed /\ Attempts' = Attempts
  BY <1>1 DEF ChargeOfEach, CreditOfEach, Charge, Credit, Guards!Paying, Guards!RetryIsInside, Guards!Has,
              Position, Guards!PositionOf, Passed, Attempts
<1>5. Units(ChargeOfEach)' = Units(ChargeOfEach) /\ Units(CreditOfEach)' = Units(CreditOfEach)
  BY <1>4 DEF Units
<1>6. ((Guards!Has("budget"))' <=> Guards!Has("budget")) /\ ((Guards!Has("iterations"))' <=> Guards!Has("iterations"))
  BY <1>1 DEF Guards!Has
<1>7. BudgetAddsUp'
  BY <1>1, <1>5, <1>6 DEF BudgetAddsUp, GuardsInv
<1>8. ReachedIsPaidFor'
  BY <1>1, <1>4, <1>5, <1>6 DEF ReachedIsPaidFor, GuardsInv
<1> QED BY <1>2, <1>3, <1>7, <1>8 DEF GuardsInv

\* The invariant of the middleware is inductive.
THEOREM GuardsInvariance ==
    Guards!Init /\ [][Guards!Next]_(Guards!guardVars) => []GuardsInv
<1>1. Guards!Init => GuardsInv
  BY GuardsStart
<1>2. GuardsInv /\ [Guards!Next]_(Guards!guardVars) => GuardsInv'
  <2> SUFFICES ASSUME GuardsInv, Guards!Next PROVE GuardsInv'
    BY GuardsStutter
  <2>1. PICK d \in Callers :
          Guards!Begin(d) \/ Guards!CancelCall(d) \/ Guards!DeadlinePasses(d) \/ Guards!Enter(d) \/ Guards!Answer(d)
          \/ Guards!Leave(d)
    BY DEF Guards!Next
  <2>2. CASE Guards!Begin(d)
    BY <2>2, BeginGuarded
  <2>3. CASE Guards!CancelCall(d) \/ Guards!DeadlinePasses(d)
    BY <2>3, ContextEnds
  <2>4. CASE Guards!Enter(d)
    BY <2>4, EnterBudgetKeeps, EnterIterationsKeeps, EnterTimeoutKeeps, EnterPassingKeeps, ReachKeeps DEF Guards!Enter
  <2>5. CASE Guards!Answer(d)
    BY <2>5, AnswerKeeps
  <2>6. CASE Guards!Leave(d)
    BY <2>6, LoadKeeps, SwapKeeps, LeaveRetryKeeps, WaitedKeeps, LeaveTimeoutKeeps, LeaveRecoverKeeps, LeavePassingKeeps,
       ReturnKeeps DEF Guards!Leave
  <2> QED BY <2>1, <2>2, <2>3, <2>4, <2>5, <2>6
<1> QED BY <1>1, <1>2, PTL

\* While the middleware moves the other layers stand still, and the other way round.
LEMMA GuardsBehave == Spec => Guards!Init /\ [][Guards!Next]_(Guards!guardVars)
<1>1. Init => Guards!Init
  BY DEF Init
<1>2. [Next]_vars => [Guards!Next]_(Guards!guardVars)
  BY DEF Next, InWire, InCalls, InGuards, InStreams, vars, guardVars, Guards!guardVars
<1> QED BY <1>1, <1>2, PTL DEF Spec

LEMMA SameSize == \A S : Guards!Cardinality(S) = Cardinality(S)
  BY DEF Guards!Cardinality, Cardinality

\* What remains of the budget and what was paid make the budget, but for the tokens of calls that were
\* charged and have not returned, however the charges of concurrent calls interleave.
THEOREM BudgetAlwaysAddsUp == Spec => []BudgetIsExact
<1>1. GuardsInv => BudgetIsExact
  <2> SUFFICES ASSUME GuardsInv, Guards!Has("budget")
               PROVE  remaining + paid + Guards!Cardinality(Guards!ChargedTokens) = Budget
    BY DEF BudgetIsExact, Guards!BudgetIsExact
  <2>1. Guards!ChargedTokens = Units(ChargeOfEach)
    <3>1. \A u : u \in Guards!ChargedTokens <=> \E d \in Callers : d \in Guards!Charged /\ u \in {d} \X (1 .. guarded[d].size)
      BY DEF Guards!ChargedTokens, Guards!Charged
    <3>2. \A u : u \in Units(ChargeOfEach) <=> \E d \in Callers : u \in {d} \X (1 .. Charge(guarded[d]))
      BY DEF Units, ChargeOfEach
    <3>3. \A d \in Callers :
            {d} \X (1 .. Charge(guarded[d])) = IF d \in Guards!Charged THEN {d} \X (1 .. guarded[d].size) ELSE {}
      <4>1. \A d \in Callers : Charge(guarded[d]) = IF d \in Guards!Charged THEN guarded[d].size ELSE 0
        BY DEF Charge, Guards!Charged, Position
      <4>2. 1 .. 0 = {}
        OBVIOUS
      <4> QED BY <4>1, <4>2
    <3> QED BY <3>1, <3>2, <3>3
  <2> QED BY <2>1, SameSize DEF GuardsInv, BudgetAddsUp
<1> QED BY <1>1, GuardsInvariance, GuardsBehave, PTL

\* The runnable is reached no oftener than the counter allows, times the attempts when the retry is
\* inside of the counter, however calls, streams and retries interleave.
THEOREM IterationsAreCapped == Spec => []LifetimeCap
<1>1. GuardsInv => LifetimeCap
  <2> SUFFICES ASSUME GuardsInv, Guards!Has("iterations")
               PROVE  reached <= IF Guards!RetryIsInside THEN MaxIterations * MaxAttempts ELSE MaxIterations
    BY DEF LifetimeCap, Guards!LifetimeCap
  <2>1. GuardTypes /\ reached \in Nat /\ Passed \in 0 .. MaxIterations /\ MaxIterations \in Nat /\ MaxAttempts \in Nat
    BY LimitsAre DEF GuardsInv, GuardTypes, Passed
  <2>2. reached + Cardinality(Units(CreditOfEach)) <= Passed * Attempts /\ Cardinality(Units(CreditOfEach)) \in Nat
    BY FS_CardinalityType DEF GuardsInv, ReachedIsPaidFor
  <2>3. \A i, j, m \in Nat : i <= j => i * m <= j * m /\ i * m \in Nat /\ j * m \in Nat
    OBVIOUS
  <2>4. CASE Guards!RetryIsInside
    <3>1. Attempts = MaxAttempts
      BY <2>4 DEF Attempts
    <3> QED BY <2>1, <2>2, <2>3, <2>4, <3>1
  <2>5. CASE ~Guards!RetryIsInside
    <3>1. Attempts = 1 /\ Passed * 1 = Passed
      BY <2>1, <2>5 DEF Attempts
    <3> QED BY <2>1, <2>2, <2>5, <3>1
  <2> QED BY <2>4, <2>5
<1> QED BY <1>1, GuardsInvariance, GuardsBehave, PTL

-----------------------------------------------------------------------------
(* Sequences.                                                              *)

LEMMA LengthIs ==
    ASSUME NEW S, NEW q \in Seq(S)
    PROVE  Len(q) \in Nat /\ DOMAIN q = 1 .. Len(q)
  OBVIOUS

LEMMA AppendedIs ==
    ASSUME NEW S, NEW q \in Seq(S), NEW e \in S
    PROVE  /\ Append(q, e) \in Seq(S) /\ Len(Append(q, e)) = Len(q) + 1
           /\ \A i \in 1 .. Len(q) : Append(q, e)[i] = q[i]
           /\ Append(q, e)[Len(q) + 1] = e
  OBVIOUS

LEMMA JoinedIs ==
    ASSUME NEW S, NEW q \in Seq(S), NEW r \in Seq(S)
    PROVE  /\ q \o r \in Seq(S) /\ Len(q \o r) = Len(q) + Len(r)
           /\ \A i \in 1 .. Len(q) + Len(r) : (q \o r)[i] = IF i <= Len(q) THEN q[i] ELSE r[i - Len(q)]
  OBVIOUS

LEMMA JoinedToNone ==
    ASSUME NEW S, NEW q \in Seq(S)
    PROVE  q \o <<>> = q
  OBVIOUS

LEMMA JoinsAssociate ==
    ASSUME NEW S, NEW q \in Seq(S), NEW r \in Seq(S), NEW t \in Seq(S)
    PROVE  (q \o r) \o t = q \o (r \o t)
  OBVIOUS

LEMMA AppendedIsJoined ==
    ASSUME NEW S, NEW q \in Seq(S), NEW e \in S
    PROVE  Append(q, e) = q \o <<e>>
  OBVIOUS

\* What a receive moves.
LEMMA ReceivedIs ==
    ASSUME NEW S, NEW p \in Seq(S), NEW r \in Seq(S), r # <<>>
    PROVE  Append(p, Head(r)) \o Tail(r) = p \o r /\ Append(p, Head(r)) \in Seq(S) /\ Tail(r) \in Seq(S)
  OBVIOUS

-----------------------------------------------------------------------------
(* ModelWire.  A stream, from the goroutine that reads it to the consumer. *)

WireLines == [kind : LineKinds, text : STRING, used : Nat]
Pieces == [text : STRING \union {Wire!NoText}, used : Nat, done : BOOLEAN, err : BOOLEAN]
Readers == [pc : {"off", "reading", "sending", "closed"}, at : Nat, chunk : Seq(Pieces), used : Nat]

WireTypes ==
    /\ setup.vendor \in Wire!Vendors /\ script.lines \in Seq(WireLines)
    /\ sse \in Readers /\ sse.at <= Len(script.lines)
    /\ channel \in Seq(Pieces) /\ inbox \in Seq(Pieces)

\* Everything the reader has made of its lines, received or not.
Conveyed == (inbox \o channel) \o sse.chunk

\* The pieces with a text in q are those of the first n lines that belong to the answer, in order.
Conveys(q, n) ==
    \E from \in [Nat -> Nat] :
        /\ \A i \in DOMAIN q : q[i].text # Wire!NoText =>
              from[i] \in 1 .. n /\ Wire!Tells(from[i]) /\ q[i].text = script.lines[from[i]].text
        /\ \A i, j \in DOMAIN q : i < j /\ q[i].text # Wire!NoText /\ q[j].text # Wire!NoText => from[i] < from[j]
        /\ \A l \in 1 .. n : Wire!Tells(l) => \E i \in DOMAIN q : q[i].text # Wire!NoText /\ from[i] = l

\* Only the last piece is the end; one without an error leaves no line behind that belongs to the answer.
EndsRight(q, n, pc) ==
    /\ \A i \in DOMAIN q : (q[i].done => i = Len(q)) /\ (q[i].err => q[i].done)
    /\ pc = "closed" => q # <<>> /\ q[Len(q)].done
    /\ pc \in {"off", "reading"} => \A i \in DOMAIN q : ~q[i].done
    /\ (\A i \in DOMAIN q : ~q[i].done) /\ setup.vendor # "google" => \A j \in 1 .. n : script.lines[j].kind # "stop"
    /\ \A i \in DOMAIN q : q[i].done /\ ~q[i].err => \A l \in DOMAIN script.lines : Wire!Tells(l) => l <= n

WirePlaces ==
    /\ IF sse.pc = "sending" THEN Len(sse.chunk) = 1 ELSE sse.chunk = <<>>
    /\ consumer \in {"idle", "waits"} => sse.pc = "off" /\ reply.kind # "stream"
    /\ sse.pc = "off" => reply.kind # "stream" /\ sse = Wire!Off /\ channel = <<>> /\ inbox = <<>>
    /\ consumer = "ended" /\ reply.kind = "stream" => sse.pc = "closed" /\ channel = <<>>

WireInv ==
    /\ WireTypes /\ WirePlaces
    /\ Conveys(Conveyed, sse.at) /\ EndsRight(Conveyed, sse.at, sse.pc)

LEMMA OnePiece ==
    ASSUME NEW p \in Pieces
    PROVE  <<p>> \in Seq(Pieces) /\ Len(<<p>>) = 1 /\ <<p>> # <<>> /\ Head(<<p>>) = p /\ <<p>>[1] = p
  OBVIOUS

LEMMA ConveyedIs ==
    ASSUME WireTypes
    PROVE  Conveyed \in Seq(Pieces) /\ inbox \o channel \in Seq(Pieces)
           /\ (sse.chunk = <<>> => Conveyed = inbox \o channel)
<1>1. sse.chunk \in Seq(Pieces)
  BY DEF WireTypes, Readers
<1>2. inbox \o channel \in Seq(Pieces)
  BY JoinedIs DEF WireTypes
<1> QED BY <1>1, <1>2, JoinedIs, JoinedToNone DEF Conveyed

-----------------------------------------------------------------------------
(* One more line, one more piece.                                          *)

LEMMA SameAnswer ==
    ASSUME UNCHANGED <<setup, script>>, NEW q, NEW n, NEW pc
    PROVE  (Conveys(q, n)' <=> Conveys(q, n)) /\ (EndsRight(q, n, pc)' <=> EndsRight(q, n, pc))
<1>1. \A l : Wire!Tells(l)' <=> Wire!Tells(l)
  BY DEF Wire!Tells
<1> QED BY <1>1 DEF Conveys, EndsRight

LEMMA LinePassed ==
    ASSUME NEW q \in Seq(Pieces), NEW n \in Nat, Conveys(q, n), ~Wire!Tells(n + 1)
    PROVE  Conveys(q, n + 1)
<1>1. \A l \in 1 .. n : l \in 1 .. n + 1
  OBVIOUS
<1>2. \A l \in 1 .. n + 1 : l \in 1 .. n \/ l = n + 1
  OBVIOUS
<1> QED BY <1>1, <1>2 DEF Conveys

LEMMA PieceIsAppended ==
    ASSUME NEW q \in Seq(Pieces), NEW p \in Pieces
    PROVE  /\ Append(q, p) \in Seq(Pieces) /\ Len(q) \in Nat /\ Len(Append(q, p)) = Len(q) + 1
           /\ DOMAIN q = 1 .. Len(q) /\ DOMAIN Append(q, p) = 1 .. Len(q) + 1
           /\ \A i \in 1 .. Len(q) : Append(q, p)[i] = q[i]
           /\ Append(q, p)[Len(q) + 1] = p
  BY AppendedIs, LengthIs

LEMMA SilentPiece ==
    ASSUME NEW q \in Seq(Pieces), NEW n \in Nat, Conveys(q, n), NEW p \in Pieces, p.text = Wire!NoText
    PROVE  Conveys(Append(q, p), n)
<1>0. PICK r, len : r = Append(q, p) /\ len = Len(q)
  OBVIOUS
<1>1. /\ len \in Nat /\ DOMAIN q = 1 .. len /\ DOMAIN r = 1 .. len + 1
      /\ (\A i \in 1 .. len : r[i] = q[i]) /\ r[len + 1] = p
  BY <1>0, PieceIsAppended
<1>2. /\ \A i \in DOMAIN r : r[i].text # Wire!NoText => i \in DOMAIN q
      /\ \A i \in DOMAIN q : i \in DOMAIN r /\ r[i] = q[i]
  <2>1. \A i \in 1 .. len : i \in 1 .. len + 1
    BY <1>1
  <2>2. \A i \in 1 .. len + 1 : i \in 1 .. len \/ i = len + 1
    BY <1>1
  <2> QED BY <1>1, <2>1, <2>2
<1>3. PICK from \in [Nat -> Nat] :
        /\ \A i \in DOMAIN q : q[i].text # Wire!NoText =>
              from[i] \in 1 .. n /\ Wire!Tells(from[i]) /\ q[i].text = script.lines[from[i]].text
        /\ \A i, j \in DOMAIN q : i < j /\ q[i].text # Wire!NoText /\ q[j].text # Wire!NoText => from[i] < from[j]
        /\ \A l \in 1 .. n : Wire!Tells(l) => \E i \in DOMAIN q : q[i].text # Wire!NoText /\ from[i] = l
  BY DEF Conveys
<1>4. \A i \in DOMAIN r : r[i].text # Wire!NoText =>
         from[i] \in 1 .. n /\ Wire!Tells(from[i]) /\ r[i].text = script.lines[from[i]].text
  BY <1>2, <1>3
<1>5. \A i, j \in DOMAIN r : i < j /\ r[i].text # Wire!NoText /\ r[j].text # Wire!NoText => from[i] < from[j]
  BY <1>2, <1>3
<1>6. \A l \in 1 .. n : Wire!Tells(l) => \E i \in DOMAIN r : r[i].text # Wire!NoText /\ from[i] = l
  BY <1>2, <1>3
<1>7. Conveys(r, n)
  BY <1>3, <1>4, <1>5, <1>6 DEF Conveys
<1> QED BY <1>0, <1>7

LEMMA TellingPiece ==
    ASSUME NEW q \in Seq(Pieces), NEW n \in Nat, Conveys(q, n), NEW p \in Pieces, p.text # Wire!NoText,
           NEW m \in Nat, m = n + 1, Wire!Tells(m), p.text = script.lines[m].text
    PROVE  Conveys(Append(q, p), m)
<1>0. PICK r, len, k : r = Append(q, p) /\ len = Len(q) /\ k = len + 1
  OBVIOUS
<1>1. /\ len \in Nat /\ k \in Nat /\ k = len + 1 /\ DOMAIN q = 1 .. len /\ DOMAIN r = 1 .. k
      /\ (\A i \in 1 .. len : r[i] = q[i]) /\ r[k] = p
  BY <1>0, PieceIsAppended
<1>2. /\ \A i \in 1 .. k : i \in 1 .. len \/ i = k
      /\ \A i \in 1 .. len : i \in 1 .. k /\ i \in Nat /\ i # k /\ i < k
      /\ \A l \in 1 .. m : l \in 1 .. n \/ l = m
      /\ \A l \in 1 .. n : l \in 1 .. m /\ l \in Nat /\ l < m
      /\ k \in 1 .. k /\ m \in 1 .. m /\ \A j \in 1 .. len : ~(k < j)
  BY <1>1
<1>3. PICK from \in [Nat -> Nat] :
        /\ \A i \in DOMAIN q : q[i].text # Wire!NoText =>
              from[i] \in 1 .. n /\ Wire!Tells(from[i]) /\ q[i].text = script.lines[from[i]].text
        /\ \A i, j \in DOMAIN q : i < j /\ q[i].text # Wire!NoText /\ q[j].text # Wire!NoText => from[i] < from[j]
        /\ \A l \in 1 .. n : Wire!Tells(l) => \E i \in DOMAIN q : q[i].text # Wire!NoText /\ from[i] = l
  BY DEF Conveys
<1>4. PICK more \in [Nat -> Nat] : more[k] = m /\ \A i \in 1 .. len : more[i] = from[i]
  <2>1. [from EXCEPT ![k] = m] \in [Nat -> Nat] /\ [from EXCEPT ![k] = m][k] = m
        /\ \A i \in Nat : i # k => [from EXCEPT ![k] = m][i] = from[i]
    BY <1>1
  <2> QED BY <1>2, <2>1
<1>5. \A i \in DOMAIN r : r[i].text # Wire!NoText =>
         more[i] \in 1 .. m /\ Wire!Tells(more[i]) /\ r[i].text = script.lines[more[i]].text
  <2>1. ASSUME NEW i \in 1 .. len, r[i].text # Wire!NoText
        PROVE  more[i] \in 1 .. m /\ Wire!Tells(more[i]) /\ r[i].text = script.lines[more[i]].text
    <3>1. i \in DOMAIN q /\ q[i].text # Wire!NoText /\ r[i] = q[i] /\ more[i] = from[i]
      BY <1>1, <1>4, <2>1
    <3> QED BY <1>2, <1>3, <3>1
  <2>2. more[k] \in 1 .. m /\ Wire!Tells(more[k]) /\ r[k].text = script.lines[more[k]].text
    BY <1>1, <1>2, <1>4
  <2> QED BY <1>1, <1>2, <2>1, <2>2
<1>6. \A i, j \in DOMAIN r : i < j /\ r[i].text # Wire!NoText /\ r[j].text # Wire!NoText => more[i] < more[j]
  <2> SUFFICES ASSUME NEW i \in 1 .. k, NEW j \in 1 .. k, i < j, r[i].text # Wire!NoText, r[j].text # Wire!NoText
               PROVE  more[i] < more[j]
    BY <1>1
  <2>1. i \in 1 .. len
    BY <1>1
  <2>2. i \in DOMAIN q /\ q[i].text # Wire!NoText /\ more[i] = from[i] /\ from[i] \in 1 .. n
    BY <1>1, <1>3, <1>4, <2>1
  <2>3. CASE j \in 1 .. len
    <3>1. j \in DOMAIN q /\ q[j].text # Wire!NoText /\ more[j] = from[j]
      BY <1>1, <1>4, <2>3
    <3> QED BY <1>3, <2>2, <3>1
  <2>4. CASE j = k
    BY <1>2, <1>4, <2>2, <2>4
  <2> QED BY <1>2, <2>3, <2>4
<1>7. \A l \in 1 .. m : Wire!Tells(l) => \E i \in DOMAIN r : r[i].text # Wire!NoText /\ more[i] = l
  <2> SUFFICES ASSUME NEW l \in 1 .. m, Wire!Tells(l) PROVE \E i \in DOMAIN r : r[i].text # Wire!NoText /\ more[i] = l
    OBVIOUS
  <2>1. CASE l \in 1 .. n
    <3>1. PICK i \in DOMAIN q : q[i].text # Wire!NoText /\ from[i] = l
      BY <1>3, <2>1
    <3>2. i \in 1 .. len
      BY <1>1, <3>1
    <3>3. i \in DOMAIN r /\ r[i] = q[i] /\ more[i] = l
      BY <1>1, <1>2, <1>4, <3>1, <3>2
    <3> QED BY <3>1, <3>3
  <2>2. CASE l = m
    <3>1. k \in DOMAIN r /\ r[k].text # Wire!NoText /\ more[k] = l
      BY <1>1, <1>2, <1>4, <2>2
    <3> QED BY <3>1
  <2> QED BY <1>2, <2>1, <2>2
<1>8. Conveys(r, m)
  BY <1>5, <1>6, <1>7 DEF Conveys
<1> QED BY <1>0, <1>8

-----------------------------------------------------------------------------
(* The steps.                                                              *)

\* A vendor's reader sends the text of a line and its end, and nothing else that has one.
LEMMA LineIs ==
    ASSUME setup.vendor \in Wire!Vendors, NEW line \in WireLines, NEW used \in Nat,
           NEW handled, handled = Wire!LineOf(line, used)
    PROVE  /\ handled.used \in Nat
           /\ \/ /\ handled.chunk = <<>>
                 /\ line.kind = "text" => line.text = Wire!NoText
                 /\ line.kind = "stop" => setup.vendor = "google"
              \/ \E p \in Pieces :
                    /\ handled.chunk = <<p>> /\ ~p.err
                    /\ p.done <=> line.kind = "stop" /\ setup.vendor # "google"
                    /\ p.text = IF line.kind = "text" THEN line.text ELSE Wire!NoText
<1>1. line.kind \in LineKinds /\ line.text \in STRING /\ line.used \in Nat
  BY DEF WireLines
<1>2. ASSUME NEW text \in STRING \union {Wire!NoText}, NEW n \in Nat
      PROVE  Wire!Chunk(text, n) \in Pieces /\ ~Wire!Chunk(text, n).err /\ ~Wire!Chunk(text, n).done /\ Wire!Chunk(text, n).text = text
  BY <1>2 DEF Wire!Chunk, Pieces
<1>3. ASSUME NEW n \in Nat
      PROVE  Wire!DoneChunk(n) \in Pieces /\ ~Wire!DoneChunk(n).err /\ Wire!DoneChunk(n).done /\ Wire!DoneChunk(n).text = Wire!NoText
  BY <1>3 DEF Wire!DoneChunk, Pieces
<1>4. ASSUME NEW p, NEW n PROVE Wire!Sends(p, n).chunk = <<p>> /\ Wire!Sends(p, n).used = n /\ Wire!Skips(n).chunk = <<>> /\ Wire!Skips(n).used = n
  BY DEF Wire!Sends, Wire!Skips
<1>5. 0 \in Nat /\ Wire!NoText \in STRING \union {Wire!NoText} /\ line.text \in STRING \union {Wire!NoText}
  BY <1>1
<1>6. /\ Wire!Chunk(line.text, line.used) \in Pieces /\ ~Wire!Chunk(line.text, line.used).err
      /\ ~Wire!Chunk(line.text, line.used).done /\ Wire!Chunk(line.text, line.used).text = line.text
      /\ Wire!Chunk(line.text, 0) \in Pieces /\ ~Wire!Chunk(line.text, 0).err
      /\ ~Wire!Chunk(line.text, 0).done /\ Wire!Chunk(line.text, 0).text = line.text
      /\ Wire!Chunk(Wire!NoText, line.used) \in Pieces /\ ~Wire!Chunk(Wire!NoText, line.used).err
      /\ ~Wire!Chunk(Wire!NoText, line.used).done /\ Wire!Chunk(Wire!NoText, line.used).text = Wire!NoText
  BY <1>1, <1>2, <1>5
<1>7. CASE setup.vendor \in {"openai", "azure"}
  <2>1. handled = CASE line.kind = "stop" -> Wire!Sends(Wire!DoneChunk(0), used)
                    [] line.kind = "text" -> Wire!Sends(Wire!Chunk(line.text, line.used), used)
                    [] line.kind \in {"bare", "usage"} -> Wire!Sends(Wire!Chunk(Wire!NoText, line.used), used)
                    [] line.kind = "noise" -> Wire!Skips(used)
    BY <1>7 DEF Wire!LineOf, Wire!Line_openai, Wire!Line_azure
  <2>2. CASE line.kind = "stop"
    <3>1. handled = Wire!Sends(Wire!DoneChunk(0), used)
      BY <2>1, <2>2
    <3> QED BY <1>3, <1>4, <1>5, <1>7, <2>2, <3>1
  <2>3. CASE line.kind = "text"
    <3>1. handled = Wire!Sends(Wire!Chunk(line.text, line.used), used)
      BY <2>1, <2>3
    <3> QED BY <1>4, <1>6, <2>3, <3>1
  <2>4. CASE line.kind \in {"bare", "usage"}
    <3>1. handled = Wire!Sends(Wire!Chunk(Wire!NoText, line.used), used)
      BY <2>1, <2>4
    <3> QED BY <1>4, <1>6, <2>4, <3>1
  <2>5. CASE line.kind = "noise"
    <3>1. handled = Wire!Skips(used)
      BY <2>1, <2>5
    <3> QED BY <1>4, <2>5, <3>1
  <2> QED BY <1>1, <2>2, <2>3, <2>4, <2>5 DEF LineKinds
<1>8. CASE setup.vendor = "anthropic"
  <2>1. handled = CASE line.kind = "stop" -> Wire!Sends(Wire!DoneChunk(used), used)
                    [] line.kind = "text" -> Wire!Sends(Wire!Chunk(line.text, 0), used)
                    [] line.kind = "usage" -> Wire!Skips(line.used)
                    [] line.kind \in {"bare", "noise"} -> Wire!Skips(used)
    BY <1>8 DEF Wire!LineOf, Wire!Line_anthropic
  <2>2. CASE line.kind = "stop"
    <3>1. handled = Wire!Sends(Wire!DoneChunk(used), used)
      BY <2>1, <2>2
    <3> QED BY <1>3, <1>4, <1>8, <2>2, <3>1
  <2>3. CASE line.kind = "text"
    <3>1. handled = Wire!Sends(Wire!Chunk(line.text, 0), used)
      BY <2>1, <2>3
    <3> QED BY <1>4, <1>6, <2>3, <3>1
  <2>4. CASE line.kind \in {"usage", "bare", "noise"}
    <3>1. handled = IF line.kind = "usage" THEN Wire!Skips(line.used) ELSE Wire!Skips(used)
      BY <2>1, <2>4
    <3>2. PICK n \in Nat : handled = Wire!Skips(n)
      BY <1>1, <3>1
    <3> QED BY <1>4, <2>4, <3>2
  <2> QED BY <1>1, <2>2, <2>3, <2>4 DEF LineKinds
<1>9. CASE setup.vendor = "google"
  <2>1. PICK kept \in Nat : handled = IF line.kind = "text" /\ line.text # Wire!NoText
                                      THEN Wire!Sends(Wire!Chunk(line.text, 0), kept) ELSE Wire!Skips(kept)
    BY <1>1, <1>9 DEF Wire!LineOf, Wire!Line_google
  <2>2. CASE line.kind = "text" /\ line.text # Wire!NoText
    <3>1. handled = Wire!Sends(Wire!Chunk(line.text, 0), kept)
      BY <2>1, <2>2
    <3> QED BY <1>4, <1>6, <2>2, <3>1
  <2>3. CASE ~(line.kind = "text" /\ line.text # Wire!NoText)
    <3>1. handled = Wire!Skips(kept)
      BY <2>1, <2>3
    <3> QED BY <1>4, <1>9, <2>3, <3>1
  <2> QED BY <2>2, <2>3
<1> QED BY <1>7, <1>8, <1>9 DEF Wire!Vendors

\* A step that makes no piece and passes no line.
LEMMA WireRests ==
    ASSUME WireInv, UNCHANGED <<setup, script>>, WireTypes', WirePlaces', Conveyed' = Conveyed, sse'.at = sse.at,
           EndsRight(Conveyed, sse.at, sse'.pc)
    PROVE  WireInv'
<1>1. PICK q, n, pc : q = Conveyed /\ n = sse.at /\ pc = sse'.pc
  OBVIOUS
<1>2. Conveys(q, n)' /\ EndsRight(q, n, pc)'
  BY <1>1, SameAnswer DEF WireInv
<1> QED BY <1>1, <1>2 DEF WireInv

LEMMA CallStep ==
    ASSUME WireInv, Wire!Send \/ Wire!Return \/ Wire!Open \/ Wire!Leave \/ Wire!SeeClosed \/ UNCHANGED Wire!wireVars
    PROVE  WireInv'
<1>1. UNCHANGED <<setup, script, channel, inbox>>
  BY DEF Wire!Send, Wire!Return, Wire!Open, Wire!Leave, Wire!SeeClosed, Wire!wireVars
<1>2. CASE UNCHANGED sse
  <2>1. WireTypes'
    BY <1>1, <1>2 DEF WireInv, WireTypes
  <2>2. Conveyed' = Conveyed
    BY <1>1, <1>2 DEF Conveyed
  <2>3. WirePlaces'
    <3>1. CASE Wire!Send
      BY <1>1, <1>2, <3>1 DEF WireInv, WirePlaces, Wire!Send
    <3>2. CASE Wire!Return
      <4>1. reply'.kind # "stream"
        <5>1. Wire!Failed.kind = "error" /\ \A q, n : Wire!Response(q, n).kind = "response"
          BY DEF Wire!Failed, Wire!Response
        <5>2. ASSUME NEW status, NEW answer PROVE Wire!Completed(setup, status, answer).kind # "stream"
          <6>1. setup.vendor \in {"openai", "azure", "anthropic", "google"}
            BY DEF WireInv, WireTypes, Wire!Vendors
          <6>2. /\ Wire!Complete_openai(status, answer).kind # "stream" /\ Wire!Complete_azure(status, answer).kind # "stream"
                /\ Wire!Complete_anthropic(status, answer).kind # "stream" /\ Wire!Complete_google(status, answer).kind # "stream"
            BY <5>1 DEF Wire!Complete_openai, Wire!Complete_azure, Wire!Complete_anthropic, Wire!Complete_google
          <6> QED BY <6>1, <6>2 DEF Wire!Completed
        <5> QED BY <3>2, <5>1, <5>2 DEF Wire!Return
      <4> QED BY <1>1, <1>2, <3>2, <4>1 DEF WireInv, WirePlaces, Wire!Return
    <3>3. CASE Wire!Open
      <4>1. Wire!Failed.kind = "error" /\ Wire!Off.pc = "off" /\ [Wire!Off EXCEPT !.pc = "reading"].pc = "reading"
        BY DEF Wire!Failed, Wire!Off
      <4>2. sse.pc = "off"
        BY <3>3 DEF WireInv, WirePlaces, Wire!Open
      <4>3. reply' = Wire!Failed /\ consumer' = "ended"
        BY <1>2, <3>3, <4>1, <4>2 DEF Wire!Open
      <4> QED BY <1>1, <1>2, <4>1, <4>2, <4>3 DEF WireInv, WirePlaces
    <3>4. CASE Wire!Leave
      BY <1>1, <1>2, <3>4 DEF WireInv, WirePlaces, Wire!Leave
    <3>5. CASE Wire!SeeClosed
      BY <1>1, <1>2, <3>5 DEF WireInv, WirePlaces, Wire!SeeClosed
    <3>6. CASE UNCHANGED Wire!wireVars
      BY <3>6 DEF WireInv, WirePlaces, Wire!wireVars
    <3> QED BY <3>1, <3>2, <3>3, <3>4, <3>5, <3>6
  <2>4. EndsRight(Conveyed, sse.at, sse'.pc)
    BY <1>2 DEF WireInv
  <2> QED BY <1>1, <1>2, <2>1, <2>2, <2>3, <2>4, WireRests
<1>3. CASE Wire!Open /\ sse' # sse
  <2>1. sse' = [Wire!Off EXCEPT !.pc = "reading"] /\ consumer' = "reads"
    BY <1>3 DEF Wire!Open
  <2>2. /\ Wire!Off \in Readers /\ Wire!Off.at = 0 /\ Wire!Off.chunk = <<>>
        /\ sse' \in Readers /\ sse'.pc = "reading" /\ sse'.at = 0 /\ sse'.chunk = <<>>
    <3>1. PICK off : off = Wire!Off
      OBVIOUS
    <3>2. <<>> \in Seq(Pieces)
      OBVIOUS
    <3>3. off \in Readers /\ off.at = 0 /\ off.chunk = <<>>
      BY <3>1, <3>2 DEF Wire!Off, Readers
    <3>4. sse' = [off EXCEPT !.pc = "reading"]
      BY <2>1, <3>1
    <3>5. sse' \in Readers /\ sse'.pc = "reading" /\ sse'.at = off.at /\ sse'.chunk = off.chunk
      BY <3>3, <3>4 DEF Readers
    <3> QED BY <3>1, <3>3, <3>5
  <2>3. sse.pc = "off" /\ sse = Wire!Off
    BY <1>3 DEF WireInv, WirePlaces, Wire!Open
  <2>4. WireTypes' /\ WirePlaces'
    <3>1. 0 <= Len(script.lines)
      BY DEF WireInv, WireTypes
    <3> QED BY <1>1, <2>1, <2>2, <3>1 DEF WireInv, WireTypes, WirePlaces
  <2>5. Conveyed' = Conveyed /\ sse'.at = sse.at
    BY <1>1, <2>2, <2>3 DEF Conveyed
  <2>6. EndsRight(Conveyed, sse.at, "off")
    BY <2>3 DEF WireInv
  <2>7. EndsRight(Conveyed, sse.at, "reading")
    BY <2>6 DEF EndsRight
  <2> QED BY <1>1, <2>2, <2>4, <2>5, <2>7, WireRests
<1> QED BY <1>2, <1>3 DEF Wire!Send, Wire!Return, Wire!Open, Wire!Leave, Wire!SeeClosed, Wire!wireVars

LEMMA ReceiveStep ==
    ASSUME WireInv, Wire!Receive
    PROVE  WireInv'
<1>1. /\ consumer = "reads" /\ UNCHANGED <<setup, script, sse, consumer, reply>> /\ channel # <<>>
      /\ inbox' = Append(inbox, Head(channel)) /\ channel' = Tail(channel)
  BY DEF Wire!Receive
<1>2. inbox' \o channel' = inbox \o channel /\ inbox' \in Seq(Pieces) /\ channel' \in Seq(Pieces)
  BY <1>1, ReceivedIs DEF WireInv, WireTypes
<1>3. WireTypes' /\ WirePlaces'
  BY <1>1, <1>2 DEF WireInv, WireTypes, WirePlaces
<1>4. Conveyed' = Conveyed /\ EndsRight(Conveyed, sse.at, sse'.pc)
  BY <1>1, <1>2 DEF WireInv, Conveyed
<1> QED BY <1>1, <1>3, <1>4, WireRests

\* A piece goes over to the channel.
LEMMA SendStep ==
    ASSUME WireInv, Wire!SendChunk
    PROVE  WireInv'
<1>1. /\ sse.pc = "sending" /\ UNCHANGED <<setup, script, consumer, reply, inbox>> /\ channel' = channel \o sse.chunk
      /\ sse' = [sse EXCEPT !.pc = IF Head(sse.chunk).done THEN "closed" ELSE "reading", !.chunk = <<>>]
  BY DEF Wire!SendChunk
<1>2. sse \in Readers /\ sse.chunk \in Seq(Pieces) /\ Len(sse.chunk) = 1 /\ channel \in Seq(Pieces) /\ inbox \in Seq(Pieces)
  BY <1>1 DEF WireInv, WireTypes, WirePlaces, Readers
<1>3. PICK pc : pc = IF Head(sse.chunk).done THEN "closed" ELSE "reading"
  OBVIOUS
<1>4. sse' \in Readers /\ sse'.pc = pc /\ sse'.at = sse.at /\ sse'.chunk = <<>>
  <2>1. sse' = [sse EXCEPT !.pc = pc, !.chunk = <<>>] /\ pc \in {"closed", "reading"}
    BY <1>1, <1>3
  <2>2. <<>> \in Seq(Pieces)
    OBVIOUS
  <2> QED BY <1>2, <2>1, <2>2 DEF Readers
<1>5. channel' \in Seq(Pieces)
  BY <1>1, <1>2, JoinedIs
<1>6. Conveyed' = Conveyed
  <2>1. (inbox \o channel) \o sse.chunk = inbox \o (channel \o sse.chunk)
    <3>1. \A s, u, v \in Seq(Pieces) : (s \o u) \o v = s \o (u \o v)
      BY JoinsAssociate
    <3> QED BY <1>2, <3>1
  <2>2. inbox \o channel' \in Seq(Pieces)
    BY <1>2, <1>5, JoinedIs
  <2>3. (inbox \o channel') \o <<>> = inbox \o channel'
    BY <2>2, JoinedToNone
  <2> QED BY <1>1, <1>4, <2>1, <2>3 DEF Conveyed
<1>7. WireTypes' /\ WirePlaces'
  <2>1. consumer # "idle" /\ consumer # "waits" /\ ~(consumer = "ended" /\ reply.kind = "stream")
    BY <1>1 DEF WireInv, WirePlaces
  <2>2. pc # "off" /\ pc # "sending"
    BY <1>3
  <2> QED BY <1>1, <1>2, <1>4, <1>5, <2>1, <2>2 DEF WireInv, WireTypes, WirePlaces
<1>8. EndsRight(Conveyed, sse.at, pc)
  <2>1. PICK q, s, r : q = Conveyed /\ s = inbox \o channel /\ r = sse.chunk /\ q = s \o r /\ s \in Seq(Pieces)
    BY ConveyedIs DEF Conveyed, WireInv
  <2>2. q \in Seq(Pieces) /\ Len(q) = Len(s) + 1 /\ q[Len(s) + 1] = r[1] /\ Len(s) \in Nat
    <3>1. r \in Seq(Pieces) /\ Len(r) = 1
      BY <1>2, <2>1
    <3>2. /\ s \o r \in Seq(Pieces) /\ Len(s \o r) = Len(s) + Len(r)
          /\ \A i \in 1 .. Len(s) + Len(r) : (s \o r)[i] = IF i <= Len(s) THEN s[i] ELSE r[i - Len(s)]
      <4>1. \A u, v \in Seq(Pieces) :
              /\ u \o v \in Seq(Pieces) /\ Len(u \o v) = Len(u) + Len(v)
              /\ \A i \in 1 .. Len(u) + Len(v) : (u \o v)[i] = IF i <= Len(u) THEN u[i] ELSE v[i - Len(u)]
        BY JoinedIs
      <4> QED BY <2>1, <3>1, <4>1
    <3>3. PICK m : m = Len(s) /\ m \in Nat
      BY <2>1, LengthIs
    <3>4. m + 1 \in 1 .. m + 1 /\ ~(m + 1 <= m) /\ (m + 1) - m = 1
      BY <3>3
    <3> QED BY <2>1, <3>1, <3>2, <3>3, <3>4
  <2>3. q # <<>> /\ q[Len(q)] = Head(sse.chunk) /\ DOMAIN q = 1 .. Len(q) /\ Len(q) \in Nat
    <3>1. r[1] = Head(r)
      BY <1>2, <2>1
    <3>2. Len(q) \in Nat /\ Len(q) # 0 /\ DOMAIN q = 1 .. Len(q)
      BY <2>2, LengthIs
    <3> QED BY <2>1, <2>2, <3>1, <3>2
  <2>4. EndsRight(q, sse.at, "sending")
    BY <1>1, <2>1 DEF WireInv
  <2>5. \A i \in DOMAIN q : q[i].done => i = Len(q)
    BY <2>4 DEF EndsRight
  <2>6. EndsRight(q, sse.at, pc)
    BY <1>3, <2>3, <2>4, <2>5 DEF EndsRight
  <2> QED BY <2>1, <2>6
<1> QED BY <1>1, <1>4, <1>6, <1>7, <1>8, WireRests

\* A piece is made: of the next line, or of the end.
LEMMA PieceMade ==
    ASSUME WireInv, UNCHANGED <<setup, script, channel, inbox, consumer, reply>>,
           sse.pc = "reading", sse' \in Readers, sse'.pc = "sending", sse'.at <= Len(script.lines),
           NEW p \in Pieces, sse'.chunk = <<p>>, p.err => p.done,
           Conveys(Append(Conveyed, p), sse'.at),
           ~p.done /\ setup.vendor # "google" => \A j \in 1 .. sse'.at : script.lines[j].kind # "stop",
           p.done /\ ~p.err => \A l \in DOMAIN script.lines : Wire!Tells(l) => l <= sse'.at
    PROVE  WireInv'
<1>1. sse.chunk = <<>>
  BY DEF WireInv, WirePlaces
<1>2. PICK q, r, n : q = Conveyed /\ r = Append(q, p) /\ n = sse'.at
  OBVIOUS
<1>3. q \in Seq(Pieces) /\ q = inbox \o channel
  BY <1>1, <1>2, ConveyedIs DEF WireInv
<1>4. Conveyed' = r
  BY <1>2, <1>3, AppendedIsJoined DEF Conveyed
<1>5. WireTypes' /\ WirePlaces'
  <2>1. consumer # "idle" /\ consumer # "waits" /\ ~(consumer = "ended" /\ reply.kind = "stream")
    BY DEF WireInv, WirePlaces
  <2> QED BY <2>1, OnePiece DEF WireInv, WireTypes, WirePlaces
<1>6. EndsRight(r, n, "sending")
  <2>1. \A i \in DOMAIN q : ~q[i].done /\ ~q[i].err
    BY <1>2 DEF WireInv, EndsRight
  <2>2. PICK len, k : len = Len(q) /\ k = len + 1
    OBVIOUS
  <2>3. /\ len \in Nat /\ k \in Nat /\ DOMAIN q = 1 .. len /\ DOMAIN r = 1 .. k /\ Len(r) = k
        /\ (\A i \in 1 .. len : r[i] = q[i]) /\ r[k] = p
    BY <1>2, <1>3, <2>2, PieceIsAppended
  <2>4. \A i \in 1 .. k : i \in 1 .. len \/ i = k
    BY <2>2, <2>3
  <2>5. \A i \in DOMAIN r : i = k \/ (~r[i].done /\ ~r[i].err)
    BY <2>1, <2>3, <2>4
  <2>6. k \in DOMAIN r
    BY <2>2, <2>3
  <2>7. \A i \in DOMAIN r : (r[i].done => i = Len(r)) /\ (r[i].err => r[i].done)
    BY <2>3, <2>5
  <2>8. (\A i \in DOMAIN r : ~r[i].done) /\ setup.vendor # "google" => \A j \in 1 .. n : script.lines[j].kind # "stop"
    BY <1>2, <2>3, <2>6
  <2>9. \A i \in DOMAIN r : r[i].done /\ ~r[i].err => \A l \in DOMAIN script.lines : Wire!Tells(l) => l <= n
    BY <1>2, <2>3, <2>5
  <2> QED BY <2>7, <2>8, <2>9 DEF EndsRight
<1>7. Conveys(r, n)' /\ EndsRight(r, n, "sending")'
  BY <1>2, <1>6, SameAnswer
<1> QED BY <1>2, <1>4, <1>5, <1>7 DEF WireInv

LEMMA EndStep ==
    ASSUME WireInv, Wire!ReadEnd \/ Wire!Timeout
    PROVE  WireInv'
<1>1. PICK p : /\ sse.pc = "reading" /\ sse' = [sse EXCEPT !.pc = "sending", !.chunk = <<p>>]
               /\ p = Wire!ErrChunk \/ (sse.at = Len(script.lines) /\ p = Wire!EndChunk(sse.used))
               /\ UNCHANGED <<setup, script, channel, inbox, consumer, reply>>
  <2>1. CASE Wire!ReadEnd
    <3>1. PICK p : p = IF script.end = "eof" THEN Wire!EndChunk(sse.used) ELSE Wire!ErrChunk
      OBVIOUS
    <3>2. sse.pc = "reading" /\ sse' = [sse EXCEPT !.pc = "sending", !.chunk = <<p>>] /\ sse.at = Len(script.lines)
          /\ UNCHANGED <<setup, script, channel, inbox, consumer, reply>>
      BY <2>1, <3>1 DEF Wire!ReadEnd
    <3> QED BY <3>1, <3>2
  <2>2. CASE Wire!Timeout
    BY <2>2 DEF Wire!Timeout
  <2> QED BY <2>1, <2>2
<1>2. sse \in Readers /\ sse.used \in Nat /\ sse.at \in Nat /\ sse.at <= Len(script.lines) /\ script.lines \in Seq(WireLines)
  BY DEF WireInv, WireTypes, Readers
<1>3. p \in Pieces /\ p.done /\ p.text = Wire!NoText
  <2>1. Wire!ErrChunk \in Pieces /\ Wire!ErrChunk.done /\ Wire!ErrChunk.text = Wire!NoText
    BY DEF Wire!ErrChunk, Pieces
  <2>2. \A n \in Nat : Wire!DoneChunk(n) \in Pieces /\ Wire!DoneChunk(n).done /\ Wire!DoneChunk(n).text = Wire!NoText
    BY DEF Wire!DoneChunk, Pieces
  <2>3. Wire!EndChunk(sse.used) = Wire!DoneChunk(sse.used) \/ Wire!EndChunk(sse.used) = Wire!DoneChunk(0)
    BY DEF Wire!EndChunk
  <2>4. 0 \in Nat
    OBVIOUS
  <2> QED BY <1>1, <1>2, <2>1, <2>2, <2>3, <2>4
<1>4. sse' \in Readers /\ sse'.pc = "sending" /\ sse'.at = sse.at /\ sse'.chunk = <<p>>
  BY <1>1, <1>2, <1>3, OnePiece DEF Readers
<1>5. Conveys(Append(Conveyed, p), sse'.at)
  BY <1>2, <1>3, <1>4, ConveyedIs, SilentPiece DEF WireInv
<1>6. ~p.err => \A l \in DOMAIN script.lines : l <= sse'.at
  <2>1. Wire!ErrChunk.err
    BY DEF Wire!ErrChunk
  <2> QED BY <1>1, <1>2, <1>4, <2>1
<1> QED BY <1>1, <1>2, <1>3, <1>4, <1>5, <1>6, PieceMade

LEMMA LineStep ==
    ASSUME WireInv, Wire!ReadLine
    PROVE  WireInv'
<1>1. PICK n \in Nat : n = sse.at + 1 /\ n \in 1 .. Len(script.lines) /\ n \in DOMAIN script.lines
  BY DEF Wire!ReadLine, WireInv, WireTypes, Readers
<1>2. PICK line, handled : line = script.lines[n] /\ handled = Wire!LineOf(line, sse.used)
  OBVIOUS
<1>3. /\ sse.pc = "reading" /\ UNCHANGED <<setup, script, channel, inbox, consumer, reply>>
      /\ sse' = [pc |-> IF handled.chunk = <<>> THEN "reading" ELSE "sending",
                 at |-> n, chunk |-> handled.chunk, used |-> handled.used]
  BY <1>1, <1>2 DEF Wire!ReadLine
<1>4. setup.vendor \in Wire!Vendors /\ line \in WireLines /\ sse.used \in Nat /\ sse.at \in Nat
  BY <1>1, <1>2 DEF WireInv, WireTypes, Readers
<1>5. PICK q : q = Conveyed /\ q \in Seq(Pieces) /\ Conveys(q, sse.at) /\ EndsRight(q, sse.at, "reading")
  BY <1>3, ConveyedIs DEF WireInv
<1>6. setup.vendor # "google" => \A j \in 1 .. sse.at : script.lines[j].kind # "stop"
  BY <1>5 DEF EndsRight
<1>7. \A j \in 1 .. n : j \in 1 .. sse.at \/ j = n
  BY <1>1, <1>4
<1>8. handled.used \in Nat
  BY <1>2, <1>4, LineIs
<1>9. CASE /\ handled.chunk = <<>>
           /\ line.kind = "text" => line.text = Wire!NoText
           /\ line.kind = "stop" => setup.vendor = "google"
  <2>1. sse' = [pc |-> "reading", at |-> n, chunk |-> <<>>, used |-> handled.used]
    BY <1>3, <1>9
  <2>2. sse' \in Readers /\ sse'.pc = "reading" /\ sse'.at = n /\ sse'.chunk = <<>>
    BY <1>1, <1>8, <2>1 DEF Readers
  <2>3. ~Wire!Tells(n)
    BY <1>2, <1>9 DEF Wire!Tells
  <2>4. Conveys(q, n)
    BY <1>1, <1>4, <1>5, <2>3, LinePassed
  <2>5. EndsRight(q, n, "reading")
    <3>1. \A i \in DOMAIN q : ~q[i].done
      BY <1>5 DEF EndsRight
    <3>2. setup.vendor # "google" => \A j \in 1 .. n : script.lines[j].kind # "stop"
      BY <1>2, <1>6, <1>7, <1>9
    <3> QED BY <1>5, <3>1, <3>2 DEF EndsRight
  <2>6. Conveyed' = q
    BY <1>3, <1>5, <2>2 DEF Conveyed, WireInv, WirePlaces
  <2>7. WireTypes' /\ WirePlaces'
    <3>1. consumer # "idle" /\ consumer # "waits" /\ ~(consumer = "ended" /\ reply.kind = "stream")
      BY <1>3 DEF WireInv, WirePlaces
    <3> QED BY <1>1, <1>3, <2>2, <3>1 DEF WireInv, WireTypes, WirePlaces
  <2>8. Conveys(q, n)' /\ EndsRight(q, n, "reading")'
    BY <1>3, <2>4, <2>5, SameAnswer
  <2> QED BY <2>2, <2>6, <2>7, <2>8 DEF WireInv
<1>10. ASSUME NEW p \in Pieces, handled.chunk = <<p>>, ~p.err,
              p.done <=> line.kind = "stop" /\ setup.vendor # "google",
              p.text = IF line.kind = "text" THEN line.text ELSE Wire!NoText
       PROVE  WireInv'
  <2>1. sse' = [pc |-> "sending", at |-> n, chunk |-> <<p>>, used |-> handled.used]
    BY <1>3, <1>10, OnePiece
  <2>2. sse' \in Readers /\ sse'.pc = "sending" /\ sse'.at = n /\ sse'.chunk = <<p>>
    BY <1>1, <1>8, <2>1, OnePiece DEF Readers
  <2>3. ~p.done /\ setup.vendor # "google" => \A j \in 1 .. n : script.lines[j].kind # "stop"
    BY <1>2, <1>6, <1>7, <1>10
  <2>4. p.done => \A l \in DOMAIN script.lines : Wire!Tells(l) => l <= n
    <3> SUFFICES ASSUME p.done, NEW l \in DOMAIN script.lines, Wire!Tells(l), ~(l <= n) PROVE FALSE
      OBVIOUS
    <3>1. n \in 1 .. l
      <4>1. l \in Nat
        BY DEF WireInv, WireTypes
      <4> QED BY <1>1, <4>1
    <3>2. script.lines[n].kind = "stop" /\ setup.vendor # "google"
      BY <1>2, <1>10
    <3> QED BY <3>1, <3>2 DEF Wire!Tells
  <2>5. Conveys(Append(q, p), n)
    <3>1. CASE p.text # Wire!NoText
      <4>1. line.kind = "text" /\ p.text = line.text /\ line.text # Wire!NoText
        BY <1>10, <3>1
      <4>2. setup.vendor # "google" => \A j \in 1 .. n : script.lines[j].kind # "stop"
        BY <1>2, <1>6, <1>7, <4>1
      <4>3. Wire!Tells(n)
        BY <1>2, <4>1, <4>2 DEF Wire!Tells
      <4> QED BY <1>1, <1>2, <1>4, <1>5, <3>1, <4>1, <4>3, TellingPiece
    <3>2. CASE p.text = Wire!NoText
      <4>1. ~Wire!Tells(n)
        BY <1>2, <1>10, <3>2 DEF Wire!Tells
      <4>2. Conveys(q, n)
        BY <1>1, <1>4, <1>5, <4>1, LinePassed
      <4> QED BY <1>1, <1>5, <3>2, <4>2, SilentPiece
    <3> QED BY <3>1, <3>2
  <2> QED BY <1>1, <1>3, <1>5, <1>10, <2>2, <2>3, <2>4, <2>5, PieceMade
<1>11. \/ /\ handled.chunk = <<>>
          /\ line.kind = "text" => line.text = Wire!NoText
          /\ line.kind = "stop" => setup.vendor = "google"
       \/ \E p \in Pieces :
             /\ handled.chunk = <<p>> /\ ~p.err
             /\ p.done <=> line.kind = "stop" /\ setup.vendor # "google"
             /\ p.text = IF line.kind = "text" THEN line.text ELSE Wire!NoText
  BY <1>2, <1>4, LineIs
<1> QED BY <1>9, <1>10, <1>11

LEMMA WireStart == Wire!Init => WireInv
<1> SUFFICES ASSUME Wire!Init PROVE WireInv
  OBVIOUS
<1>1. setup.vendor \in Wire!Vendors /\ script.lines \in Seq(WireLines)
  BY CasesAssumption DEF Wire!Init, WireLines
<1>2. channel = <<>> /\ inbox = <<>> /\ sse = Wire!Off /\ consumer = "idle" /\ reply.kind # "stream"
  BY DEF Wire!Init, Wire!NoReply
<1>3. <<>> \in Seq(Pieces)
  OBVIOUS
<1>4. Wire!Off \in Readers /\ Wire!Off.at = 0 /\ Wire!Off.chunk = <<>> /\ Wire!Off.pc = "off"
  BY <1>3 DEF Wire!Off, Readers
<1>5. sse \in Readers /\ sse.at = 0 /\ sse.chunk = <<>> /\ sse.pc = "off"
  BY <1>2, <1>4
<1>6. WireTypes
  <2>1. 0 <= Len(script.lines)
    BY <1>1
  <2> QED BY <1>1, <1>2, <1>3, <1>5, <2>1 DEF WireTypes
<1>7. WirePlaces
  BY <1>2, <1>5 DEF WirePlaces
<1>8. Conveyed = <<>>
  BY <1>2, <1>5, JoinedToNone, <1>3 DEF Conveyed
<1>9. PICK q : q = Conveyed /\ DOMAIN q = {}
  BY <1>8
<1>10. Conveys(q, 0)
  <2>1. PICK from \in [Nat -> Nat] : TRUE
    BY [i \in Nat |-> i] \in [Nat -> Nat]
  <2>2. \A l \in 1 .. 0 : FALSE
    OBVIOUS
  <2> QED BY <1>9, <2>1, <2>2 DEF Conveys
<1>11. EndsRight(q, 0, "off")
  BY <1>9 DEF EndsRight
<1> QED BY <1>5, <1>6, <1>7, <1>9, <1>10, <1>11 DEF WireInv

\* The inductive invariant of a streamed answer: what the reader has made of its lines so far.
THEOREM WireInvariance == Wire!Init /\ [][Wire!Next]_(Wire!wireVars) => []WireInv
<1>1. WireInv /\ [Wire!Next]_(Wire!wireVars) => WireInv'
  BY CallStep, LineStep, EndStep, SendStep, ReceiveStep DEF Wire!Next
<1> QED BY <1>1, WireStart, PTL

LEMMA WireIsWhole == WireInv => Wire!EndedIsWhole
<1> SUFFICES ASSUME WireInv, consumer = "ended", reply.kind = "stream"
             PROVE  LET said == {i \in DOMAIN inbox : inbox[i].text # Wire!NoText}
                        answer == {l \in DOMAIN script.lines : Wire!Tells(l)}
                    IN /\ inbox # <<>>
                       /\ \A i \in DOMAIN inbox : inbox[i].done <=> i = Len(inbox)
                       /\ \E from \in [said -> answer] :
                             /\ \A i \in said : inbox[i].text = script.lines[from[i]].text
                             /\ \A i, j \in said : i < j => from[i] < from[j]
                             /\ \A l \in answer : \/ \E i \in said : from[i] = l
                                                  \/ inbox[Len(inbox)].err /\ \A i \in said : from[i] < l
  BY DEF Wire!EndedIsWhole
<1>1. sse.pc = "closed" /\ channel = <<>> /\ sse.chunk = <<>>
  BY DEF WireInv, WirePlaces
<1>2. inbox \in Seq(Pieces) /\ script.lines \in Seq(WireLines) /\ sse.at \in Nat /\ sse.at <= Len(script.lines)
  BY DEF WireInv, WireTypes, Readers
<1>3. Conveyed = inbox
  BY <1>1, <1>2, JoinedToNone DEF Conveyed
<1>4. PICK n \in Nat : n = sse.at /\ Conveys(inbox, n) /\ EndsRight(inbox, n, "closed")
  BY <1>1, <1>2, <1>3 DEF WireInv
<1>5. DOMAIN inbox = 1 .. Len(inbox) /\ Len(inbox) \in Nat /\ DOMAIN script.lines = 1 .. Len(script.lines) /\ Len(script.lines) \in Nat
  BY <1>2, LengthIs
<1>6. inbox # <<>> /\ \A i \in DOMAIN inbox : inbox[i].done <=> i = Len(inbox)
  BY <1>4 DEF EndsRight
<1> DEFINE said == {i \in DOMAIN inbox : inbox[i].text # Wire!NoText}
           answer == {l \in DOMAIN script.lines : Wire!Tells(l)}
<1>7. PICK f \in [Nat -> Nat] :
        /\ \A i \in DOMAIN inbox : inbox[i].text # Wire!NoText =>
              f[i] \in 1 .. n /\ Wire!Tells(f[i]) /\ inbox[i].text = script.lines[f[i]].text
        /\ \A i, j \in DOMAIN inbox : i < j /\ inbox[i].text # Wire!NoText /\ inbox[j].text # Wire!NoText => f[i] < f[j]
        /\ \A l \in 1 .. n : Wire!Tells(l) => \E i \in DOMAIN inbox : inbox[i].text # Wire!NoText /\ f[i] = l
  BY <1>4 DEF Conveys
<1>8. \A i \in 1 .. n : i \in DOMAIN script.lines
  <2>1. PICK m : m = Len(script.lines)
    OBVIOUS
  <2>2. m \in Nat /\ n <= m /\ DOMAIN script.lines = 1 .. m
    BY <1>2, <1>4, <1>5, <2>1
  <2> QED BY <2>2
<1>9. \A i \in said : f[i] \in 1 .. n /\ f[i] \in answer
  BY <1>7, <1>8
<1>10. PICK g \in [said -> answer] : \A i \in said : g[i] = f[i]
  <2>1. [i \in said |-> f[i]] \in [said -> answer] /\ \A j \in said : [i \in said |-> f[i]][j] = f[j]
    BY <1>9
  <2> QED BY <2>1
<1>11. \A i \in said : inbox[i].text = script.lines[g[i]].text
  BY <1>7, <1>10
<1>12. \A i, j \in said : i < j => g[i] < g[j]
  BY <1>7, <1>10
<1>13. ASSUME NEW l \in answer
       PROVE  (\E i \in said : g[i] = l) \/ (inbox[Len(inbox)].err /\ \A i \in said : g[i] < l)
  <2>1. CASE l \in 1 .. n
    BY <1>7, <1>10, <1>13, <2>1
  <2>2. CASE l \notin 1 .. n
    <3>1. l \in Nat /\ n < l
      <4>1. PICK m : m = Len(script.lines)
        OBVIOUS
      <4>2. l \in 1 .. m /\ m \in Nat
        BY <1>5, <1>13, <4>1
      <4> QED BY <2>2, <4>2
    <3>2. inbox[Len(inbox)].err
      <4>1. Len(inbox) \in DOMAIN inbox /\ inbox[Len(inbox)].done
        BY <1>2, <1>4, <1>5, <1>6 DEF EndsRight
      <4>2. ~(l <= n)
        BY <3>1
      <4> QED BY <1>4, <1>13, <4>1, <4>2 DEF EndsRight
    <3>3. \A i \in said : g[i] < l
      BY <1>9, <1>10, <3>1
    <3> QED BY <3>2, <3>3
  <2> QED BY <2>1, <2>2
<1> QED BY <1>6, <1>10, <1>11, <1>12, <1>13

LEMMA WireBehaves == Spec => Wire!Init /\ [][Wire!Next]_(Wire!wireVars)
<1>1. Init => Wire!Init
  BY DEF Init
<1>2. [Next]_vars => [Wire!Next]_(Wire!wireVars)
  BY DEF Next, vars, InWire, InCalls, InGuards, InStreams, wireVars, Wire!wireVars
<1> QED BY <1>1, <1>2, PTL DEF Spec

\* readSSEStream and its consumer, for each vendor: a stream received to its end has one done chunk, the
\* last; without an error in it the texts are the whole answer, with one they are a beginning of it.
THEOREM StreamsEndWhole == Spec => []EndedIsWhole
<1>1. WireInv => EndedIsWhole
  BY WireIsWhole DEF EndedIsWhole
<1> QED BY <1>1, WireInvariance, WireBehaves, PTL

-----------------------------------------------------------------------------
(* ModelWire.  A request, from the canonical one to the vendor's body.     *)

\* Of some numbers, one is the lowest.
LEMMA ALowestIs ==
    ASSUME NEW S \in SUBSET Nat, IsFiniteSet(S), S # {}
    PROVE  \E m \in S : \A k \in S : m <= k
<1>. DEFINE Has(A) == \E m \in A : \A k \in A : m <= k
            T == {A \in FiniteSubsetsOf(S) : A # {} /\ ~Has(A)}
<1>1. SUFFICES ASSUME T # {} PROVE FALSE
  <2>1. S \in FiniteSubsetsOf(S)
    BY DEF FiniteSubsetsOf
  <2> QED BY <1>1, <2>1
<1>2. IsWellFoundedOn(StrictSubsetOrdering(S), FiniteSubsetsOf(S))
  BY FS_StrictSubsetOrderingWellFounded
<1>3. PICK A \in T : \A B \in T : ~(<<B, A>> \in StrictSubsetOrdering(S))
  <2>1. T \subseteq FiniteSubsetsOf(S)
    OBVIOUS
  <2>. HIDE DEF T
  <2> QED BY <1>1, <1>2, <2>1, WFMin
<1>4. A \subseteq S /\ IsFiniteSet(A) /\ A # {} /\ ~Has(A)
  BY DEF FiniteSubsetsOf
<1>5. PICK one \in A : TRUE
  BY <1>4
<1>. DEFINE B == A \ {one}
<1>6. B \in FiniteSubsetsOf(S) /\ B # A
  BY <1>4, <1>5, FS_RemoveElement DEF FiniteSubsetsOf
<1>7. <<B, A>> \in StrictSubsetOrdering(S)
  BY <1>4, <1>6 DEF StrictSubsetOrdering
<1>8. B = {} \/ Has(B)
  BY <1>3, <1>6, <1>7
<1>9. Has(A)
  <2>1. CASE B = {}
    <3>1. A = {one} /\ one \in Nat
      BY <1>4, <1>5, <2>1
    <3> QED BY <3>1
  <2>2. CASE Has(B)
    <3>1. PICK m \in B : \A k \in B : m <= k
      BY <2>2
    <3>2. m \in Nat /\ one \in Nat /\ \A k \in A : k \in Nat /\ (k = one \/ m <= k)
      BY <1>4, <1>5, <3>1
    <3>3. CASE m <= one
      BY <3>1, <3>2, <3>3
    <3>4. CASE one <= m
      <4>1. \A k \in A : one <= k
        BY <3>2, <3>4
      <4> QED BY <1>5, <4>1
    <3> QED BY <3>2, <3>3, <3>4
  <2> QED BY <1>8, <2>1, <2>2
<1>9a. ~Has(A)
  BY <1>4
<1> QED BY <1>9, <1>9a

\* Going through a list of n from its first value on, by the steps of G.
Forward(n, V, first, G) == \E f \in [0..n -> V] : f[0] = first /\ \A i \in 1..n : f[i] = G[i][f[i - 1]]

LEMMA ForwardIs ==
    ASSUME NEW n \in Nat, NEW V, NEW first \in V, NEW G \in [1..n -> [V -> V]]
    PROVE  Forward(n, V, first, G)
<1>. DEFINE Goes(i, f) == f[0] = first /\ \A j \in 1..i : f[j] = G[j][f[j - 1]]
            Bad == {i \in 0..n : ~\E f \in [0..n -> V] : Goes(i, f)}
<1>1. SUFFICES ASSUME Bad # {} PROVE FALSE
  <2>1. n \notin Bad => Forward(n, V, first, G)
    BY DEF Forward
  <2>. HIDE DEF Bad
  <2> QED BY <1>1, <2>1
<1>2. PICK i \in Bad : \A j \in Bad : i <= j
  <2>1. Bad \in SUBSET Nat /\ IsFiniteSet(Bad)
    <3>1. Bad \in SUBSET (0..n) /\ 0..n \subseteq Nat
      OBVIOUS
    <3>. HIDE DEF Bad
    <3>2. IsFiniteSet(0..n)
      BY FS_Interval
    <3>3. IsFiniteSet(Bad)
      BY <3>1, <3>2, FS_Subset
    <3> QED BY <3>1, <3>3
  <2>. HIDE DEF Bad
  <2> QED BY <1>1, <2>1, ALowestIs
<1>3. i # 0
  <2>1. [j \in 0..n |-> first] \in [0..n -> V]
    OBVIOUS
  <2>2. Goes(0, [j \in 0..n |-> first])
    OBVIOUS
  <2> QED BY <2>1, <2>2
<1>4. PICK f \in [0..n -> V] : Goes(i - 1, f)
  <2>1. i \in 1..n /\ i - 1 \in 0..n /\ ~(i <= i - 1)
    BY <1>2, <1>3
  <2>2. i - 1 \notin Bad
    <3>. HIDE DEF Bad
    <3> QED BY <1>2, <2>1
  <2> QED BY <2>1, <2>2
<1>. DEFINE g == [f EXCEPT ![i] = G[i][f[i - 1]]]
<1>5. g \in [0..n -> V]
  BY <1>3
<1>6. Goes(i, g)
  BY <1>3, <1>4
<1> QED BY <1>5, <1>6

\* The loop of buildWireRequest, message by message.
Parts2(S) == [system : Seq(S), turns : Seq(S)]
PartsWith(p, m) ==
    IF Wire!IsSystem(m) THEN [p EXCEPT !.system = Append(@, m)] ELSE [p EXCEPT !.turns = Append(@, m)]

LEMMA PartedGoes ==
    ASSUME NEW S, NEW messages \in Seq(S), NEW n \in Nat, Len(messages) = n
    PROVE  \E w \in [0..n -> Parts2(S)] :
              /\ Wire!Parted(messages) = w[n]
              /\ w[0] = [system |-> <<>>, turns |-> <<>>]
              /\ \A i \in 1..n : w[i] = PartsWith(w[i - 1], messages[i])
<1>. DEFINE Step(g) == [i \in 0..Len(messages) |->
                          IF i = 0 THEN [system |-> <<>>, turns |-> <<>>]
                          ELSE IF Wire!IsSystem(messages[i]) THEN [g[i - 1] EXCEPT !.system = Append(@, messages[i])]
                          ELSE [g[i - 1] EXCEPT !.turns = Append(@, messages[i])]]
            V == Parts2(S)
            first == [system |-> <<>>, turns |-> <<>>]
            G == [i \in 1..n |-> [p \in V |-> PartsWith(p, messages[i])]]
<1>1. first \in V /\ \A i \in 1..n : messages[i] \in S
  BY DEF Parts2
<1>2. \A i \in 1..n, p \in V : PartsWith(p, messages[i]) \in V
  <2>1. ASSUME NEW i \in 1..n, NEW p \in V PROVE PartsWith(p, messages[i]) \in V
    <3>1. Append(p.system, messages[i]) \in Seq(S) /\ Append(p.turns, messages[i]) \in Seq(S)
      BY <1>1 DEF Parts2
    <3> QED BY <3>1 DEF PartsWith, Parts2
  <2> QED BY <2>1
<1>3. G \in [1..n -> [V -> V]] /\ \A i \in 1..n, p \in V : G[i][p] = PartsWith(p, messages[i])
  <2>. HIDE DEF V
  <2> QED BY <1>2
<1>4. PICK f \in [0..n -> V] : f[0] = first /\ \A i \in 1..n : f[i] = G[i][f[i - 1]]
  <2>. HIDE DEF V, G, first
  <2>1. Forward(n, V, first, G)
    BY <1>1, <1>3, ForwardIs
  <2> QED BY <2>1 DEF Forward
<1>5. \A g : Step(g) = [i \in 0..n |-> IF i = 0 THEN first ELSE PartsWith(g[i - 1], messages[i])]
  BY DEF PartsWith
<1>6. \A i \in 1..n : f[i] = PartsWith(f[i - 1], messages[i])
  <2>1. \A i \in 1..n : i - 1 \in 0..n
    OBVIOUS
  <2>. HIDE DEF V, G, first
  <2> QED BY <1>3, <1>4, <2>1
<1>7. f = Step(f)
  <2>1. f = [i \in 0..n |-> f[i]]
    <3>. HIDE DEF V, G, first
    <3> QED BY <1>4
  <2>2. [i \in 0..n |-> f[i]] = [i \in 0..n |-> IF i = 0 THEN first ELSE PartsWith(f[i - 1], messages[i])]
    <3>. HIDE DEF V, G, first
    <3> QED BY <1>4, <1>6
  <2>. HIDE DEF V, G, first, Step
  <2> QED BY <1>5, <2>1, <2>2
<1>8. PICK w : w = CHOOSE g : g = Step(g)
  OBVIOUS
<1>9. w = Step(w)
  <2>. HIDE DEF Step
  <2> QED BY <1>7, <1>8
<1>10. Wire!Parted(messages) = w[n]
  <2>1. Wire!Parted(messages) = (CHOOSE g : g = Step(g))[Len(messages)]
    BY DEF Wire!Parted
  <2>. HIDE DEF Step
  <2> QED BY <1>8, <2>1
<1>11. w[0] = first /\ DOMAIN w = 0..n /\ w = [i \in 0..n |-> w[i]]
       /\ \A i \in 1..n : w[i] = PartsWith(w[i - 1], messages[i])
  <2>1. w = [i \in 0..n |-> IF i = 0 THEN first ELSE PartsWith(w[i - 1], messages[i])]
    <3>. HIDE DEF Step, first
    <3> QED BY <1>5, <1>9
  <2>2. PICK h : h = [i \in 0..n |-> IF i = 0 THEN first ELSE PartsWith(w[i - 1], messages[i])]
    OBVIOUS
  <2>3. /\ h[0] = first /\ DOMAIN h = 0..n /\ h = [i \in 0..n |-> h[i]]
        /\ \A i \in 1..n : h[i] = PartsWith(w[i - 1], messages[i])
    <3>. HIDE DEF first
    <3> QED BY <2>2
  <2> QED BY <2>1, <2>2, <2>3
<1>. DEFINE Bad == {i \in 0..n : ~(w[i] \in V)}
<1>12. Bad = {}
  <2>1. SUFFICES ASSUME Bad # {} PROVE FALSE
    OBVIOUS
  <2>2. Bad \in SUBSET Nat /\ IsFiniteSet(Bad)
    <3>1. Bad \in SUBSET (0..n) /\ 0..n \subseteq Nat
      OBVIOUS
    <3>. HIDE DEF Bad
    <3>2. IsFiniteSet(0..n)
      BY FS_Interval
    <3>3. IsFiniteSet(Bad)
      BY <3>1, <3>2, FS_Subset
    <3> QED BY <3>1, <3>3
  <2>3. PICK i \in Bad : \A j \in Bad : i <= j
    <3>. HIDE DEF Bad
    <3> QED BY <2>1, <2>2, ALowestIs
  <2>. HIDE DEF first, V
  <2>4. i # 0 /\ i \in 0..n /\ ~(w[i] \in V)
    BY <1>1, <1>11
  <2>5. i \in 1..n /\ i - 1 \in 0..n /\ ~(i <= i - 1)
    BY <2>4
  <2>6. i - 1 \notin Bad
    <3>. HIDE DEF Bad
    <3> QED BY <2>3, <2>5
  <2>7. w[i - 1] \in V
    BY <2>5, <2>6
  <2> QED BY <1>2, <1>11, <2>4, <2>5, <2>7
<1>13. w \in [0..n -> V]
  <2>. HIDE DEF first, V
  <2>1. \A i \in 0..n : w[i] \in V
    BY <1>12
  <2>2. [i \in 0..n |-> w[i]] \in [0..n -> V]
    BY <2>1
  <2> QED BY <1>11, <2>2
<1>. HIDE DEF Step
<1> QED BY <1>10, <1>11, <1>13

\* What is matched stays matched when one more is put at the end of both.
LEMMA MatchGrows ==
    ASSUME NEW S, NEW from, NEW P \in SUBSET Nat, NEW to \in Seq(S), NEW i \in Nat,
           \A k \in P : k < i, from[i] \in S,
           Wire!Matches(from, P, to, DOMAIN to)
    PROVE  Wire!Matches(from, P \union {i}, Append(to, from[i]), DOMAIN Append(to, from[i]))
<1>1. PICK n \in Nat : n = Len(to) /\ DOMAIN to = 1..n
  OBVIOUS
<1>2. PICK f \in [P -> 1..n] : /\ \A k \in P : to[f[k]] = from[k]
                               /\ \A k, l \in P : k < l => f[k] < f[l]
                               /\ \A q \in 1..n : \E k \in P : f[k] = q
  BY <1>1 DEF Wire!Matches
<1>3. PICK more : more = Append(to, from[i])
  OBVIOUS
<1>4. DOMAIN more = 1..(n + 1) /\ more[n + 1] = from[i] /\ \A q \in 1..n : more[q] = to[q]
  BY <1>1, <1>3
<1>. DEFINE g == [k \in P \union {i} |-> IF k = i THEN n + 1 ELSE f[k]]
<1>5. /\ g \in [P \union {i} -> 1..(n + 1)] /\ g[i] = n + 1
      /\ \A k \in P : g[k] = f[k] /\ f[k] \in 1..n
  BY <1>2
<1>. HIDE DEF g
<1>6. \A k \in P \union {i} : more[g[k]] = from[k]
  BY <1>2, <1>4, <1>5
<1>7. \A k, l \in P \union {i} : k < l => g[k] < g[l]
  <2>1. ASSUME NEW k \in P \union {i}, NEW l \in P \union {i}, k < l PROVE g[k] < g[l]
    <3>1. k \in P
      BY <2>1
    <3>2. CASE l \in P
      BY <1>2, <1>5, <2>1, <3>1, <3>2
    <3>3. CASE l = i
      BY <1>5, <3>1, <3>3
    <3> QED BY <3>2, <3>3
  <2> QED BY <2>1
<1>8. \A q \in 1..(n + 1) : \E k \in P \union {i} : g[k] = q
  <2>1. ASSUME NEW q \in 1..(n + 1) PROVE \E k \in P \union {i} : g[k] = q
    <3>1. CASE q = n + 1
      BY <1>5, <3>1
    <3>2. CASE q # n + 1
      <4>1. q \in 1..n
        BY <3>2
      <4> QED BY <1>2, <1>5, <4>1
    <3> QED BY <3>1, <3>2
  <2> QED BY <2>1
<1>9. Wire!Matches(from, P \union {i}, more, 1..(n + 1))
  <2>1. PICK N : N = 1..(n + 1)
    OBVIOUS
  <2>2. PICK M : M = P \union {i}
    OBVIOUS
  <2>3. /\ g \in [M -> N]
        /\ \A k \in M : more[g[k]] = from[k]
        /\ \A k, l \in M : k < l => g[k] < g[l]
        /\ \A q \in N : \E k \in M : g[k] = q
    BY <1>5, <1>6, <1>7, <1>8, <2>1, <2>2
  <2>4. Wire!Matches(from, M, more, N)
    BY <2>3 DEF Wire!Matches
  <2> QED BY <2>1, <2>2, <2>4
<1> QED BY <1>3, <1>4, <1>9

\* Nothing matches nothing, and every list matches itself.
LEMMA NothingMatches ==
    ASSUME NEW from, NEW to
    PROVE  Wire!Matches(from, {}, to, {})
<1>. DEFINE f == [k \in {} |-> 0]
<1>1. f \in [{} -> {}]
  OBVIOUS
<1> QED BY <1>1 DEF Wire!Matches

LEMMA AListMatchesItself ==
    ASSUME NEW from, NEW P \in SUBSET Nat
    PROVE  Wire!Matches(from, P, from, P)
<1>. DEFINE f == [k \in P |-> k]
<1>1. f \in [P -> P] /\ \A k \in P : f[k] = k
  OBVIOUS
<1>. HIDE DEF f
<1> QED BY <1>1 DEF Wire!Matches

\* What is read of two matching lists matches, when it is the same of the same message.
LEMMA ReadingsMatch ==
    ASSUME NEW from, NEW P, NEW to, NEW Q, Wire!Matches(from, P, to, Q), NEW from2, NEW to2,
           \A k \in P, q \in Q : from[k] = to[q] => from2[k] = to2[q]
    PROVE  Wire!Matches(from2, P, to2, Q)
<1>1. PICK f \in [P -> Q] : /\ \A k \in P : to[f[k]] = from[k]
                            /\ \A k, l \in P : k < l => f[k] < f[l]
                            /\ \A q \in Q : \E k \in P : f[k] = q
  BY DEF Wire!Matches
<1>2. \A k \in P : to2[f[k]] = from2[k]
  <2>1. \A k \in P : f[k] \in Q
    BY <1>1
  <2> QED BY <1>1, <2>1
<1> QED BY <1>1, <1>2 DEF Wire!Matches

\* A place of the one list is that of something of the other.
LEMMA MatchesBack ==
    ASSUME NEW from, NEW P, NEW to, NEW Q, Wire!Matches(from, P, to, Q), NEW q \in Q
    PROVE  \E k \in P : to[q] = from[k]
BY DEF Wire!Matches

\* The parts of a conversation are its system messages and its turns, in their order.
LEMMA PartedIs ==
    ASSUME NEW S, NEW messages \in Seq(S)
    PROVE  /\ Wire!Parted(messages) \in Parts2(S)
           /\ Wire!Matches(messages, Wire!Turns(messages),
                           Wire!Parted(messages).turns, DOMAIN Wire!Parted(messages).turns)
           /\ Wire!Matches(messages, Wire!Systems(messages),
                           Wire!Parted(messages).system, DOMAIN Wire!Parted(messages).system)
<1>1. PICK n \in Nat : n = Len(messages) /\ DOMAIN messages = 1..n
  OBVIOUS
<1>2. PICK w \in [0..n -> Parts2(S)] :
              /\ Wire!Parted(messages) = w[n]
              /\ w[0] = [system |-> <<>>, turns |-> <<>>]
              /\ \A i \in 1..n : w[i] = PartsWith(w[i - 1], messages[i])
  BY <1>1, PartedGoes
<1>. DEFINE Said(i) == {k \in 1..i : ~Wire!IsSystem(messages[k])}
            Set(i) == {k \in 1..i : Wire!IsSystem(messages[k])}
            Stands(i) == /\ Wire!Matches(messages, Said(i), w[i].turns, DOMAIN w[i].turns)
                         /\ Wire!Matches(messages, Set(i), w[i].system, DOMAIN w[i].system)
            Bad == {i \in 0..n : ~Stands(i)}
<1>3. Bad = {}
  <2>1. SUFFICES ASSUME Bad # {} PROVE FALSE
    OBVIOUS
  <2>2. Bad \in SUBSET Nat /\ IsFiniteSet(Bad)
    <3>1. Bad \in SUBSET (0..n) /\ 0..n \subseteq Nat
      OBVIOUS
    <3>. HIDE DEF Bad
    <3>2. IsFiniteSet(0..n)
      BY FS_Interval
    <3>3. IsFiniteSet(Bad)
      BY <3>1, <3>2, FS_Subset
    <3> QED BY <3>1, <3>3
  <2>3. PICK i \in Bad : \A j \in Bad : i <= j
    <3>. HIDE DEF Bad
    <3> QED BY <2>1, <2>2, ALowestIs
  <2>4. i \in 0..n /\ ~Stands(i)
    OBVIOUS
  <2>5. i # 0
    <3>1. Said(0) = {} /\ Set(0) = {}
      OBVIOUS
    <3>2. w[0].turns = <<>> /\ w[0].system = <<>> /\ DOMAIN (<<>>) = {}
      BY <1>2
    <3>3. Stands(0)
      <4>. HIDE DEF Said, Set
      <4> QED BY <3>1, <3>2, NothingMatches
    <3>. HIDE DEF Stands
    <3> QED BY <2>4, <3>3
  <2>6. i \in 1..n /\ i - 1 \in 0..n /\ ~(i <= i - 1)
    BY <2>4, <2>5
  <2>7. Stands(i - 1)
    <3>1. i - 1 \notin Bad
      <4>. HIDE DEF Bad
      <4> QED BY <2>3, <2>6
    <3>. HIDE DEF Stands
    <3> QED BY <2>6, <3>1
  <2>8. /\ w[i - 1] \in Parts2(S) /\ w[i] = PartsWith(w[i - 1], messages[i]) /\ messages[i] \in S
        /\ w[i - 1].turns \in Seq(S) /\ w[i - 1].system \in Seq(S)
    <3>1. w[i - 1] \in Parts2(S)
      BY <1>2, <2>6
    <3>2. messages[i] \in S
      BY <1>1, <2>6
    <3>3. w[i] = PartsWith(w[i - 1], messages[i])
      BY <1>2, <2>6
    <3>4. PICK p : p = w[i - 1]
      OBVIOUS
    <3>5. p.turns \in Seq(S) /\ p.system \in Seq(S)
      BY <3>1, <3>4 DEF Parts2
    <3> QED BY <3>1, <3>2, <3>3, <3>4, <3>5
  <2>9. i \in Nat /\ Said(i - 1) \in SUBSET Nat /\ Set(i - 1) \in SUBSET Nat
        /\ (\A k \in Said(i - 1) : k < i) /\ (\A k \in Set(i - 1) : k < i)
    BY <2>6
  <2>10. \A k : k \in 1..i <=> k \in 1..(i - 1) \/ k = i
    BY <2>6
  <2>11. CASE Wire!IsSystem(messages[i])
    <3>1. Said(i) = Said(i - 1) /\ Set(i) = Set(i - 1) \union {i}
      BY <2>10, <2>11
    <3>2. w[i].turns = w[i - 1].turns /\ w[i].system = Append(w[i - 1].system, messages[i])
      BY <2>8, <2>11 DEF PartsWith, Parts2
    <3>3. Wire!Matches(messages, Set(i - 1), w[i - 1].system, DOMAIN w[i - 1].system)
          /\ Wire!Matches(messages, Said(i - 1), w[i - 1].turns, DOMAIN w[i - 1].turns)
      BY <2>7
    <3>. HIDE DEF Said, Set
    <3>4. Wire!Matches(messages, Set(i - 1) \union {i}, Append(w[i - 1].system, messages[i]),
                       DOMAIN Append(w[i - 1].system, messages[i]))
      BY <2>8, <2>9, <3>3, MatchGrows
    <3> QED BY <2>4, <3>1, <3>2, <3>3, <3>4
  <2>12. CASE ~Wire!IsSystem(messages[i])
    <3>1. Set(i) = Set(i - 1) /\ Said(i) = Said(i - 1) \union {i}
      BY <2>10, <2>12
    <3>2. w[i].system = w[i - 1].system /\ w[i].turns = Append(w[i - 1].turns, messages[i])
      BY <2>8, <2>12 DEF PartsWith, Parts2
    <3>3. Wire!Matches(messages, Set(i - 1), w[i - 1].system, DOMAIN w[i - 1].system)
          /\ Wire!Matches(messages, Said(i - 1), w[i - 1].turns, DOMAIN w[i - 1].turns)
      BY <2>7
    <3>. HIDE DEF Said, Set
    <3>4. Wire!Matches(messages, Said(i - 1) \union {i}, Append(w[i - 1].turns, messages[i]),
                       DOMAIN Append(w[i - 1].turns, messages[i]))
      BY <2>8, <2>9, <3>3, MatchGrows
    <3> QED BY <2>4, <3>1, <3>2, <3>3, <3>4
  <2> QED BY <2>11, <2>12
<1>4. Stands(n) /\ n \in 0..n
  <2>1. n \in 0..n
    OBVIOUS
  <2>. HIDE DEF Stands
  <2> QED BY <1>3, <2>1
<1>5. Said(n) = Wire!Turns(messages) /\ Set(n) = Wire!Systems(messages)
  BY <1>1 DEF Wire!Turns, Wire!Systems
<1>6. Wire!Parted(messages) = w[n] /\ w[n] \in Parts2(S)
  BY <1>2, <1>4
<1>. HIDE DEF Said, Set
<1> QED BY <1>4, <1>5, <1>6

\* A message of a conversation.
Message == [role : Roles, text : STRING]
IsRequest(r) == r.messages \in Seq(Message) /\ r.limit \in Seq(Nat)

\* What a body must be for a request.
Faithful(s, r, body) ==
    LET said == r.messages
    IN /\ Wire!Matches(Wire!Voices(said), Wire!Turns(said), Wire!Voices(body.turns), Wire!Turns(body.turns))
       /\ IF Wire!Systems(body.turns) = {}
          THEN Wire!Matches(Wire!Texts(said), Wire!Systems(said), body.system, DOMAIN body.system)
          ELSE /\ Wire!Matches(Wire!Texts(said), Wire!Systems(said), Wire!Texts(body.turns), Wire!Systems(body.turns))
               /\ body.system = <<>>
       /\ body.limit = IF r.limit # <<>> THEN r.limit[1] ELSE IF s.limit # 0 THEN s.limit ELSE Wire!DefaultLimit

LEMMA LimitIs ==
    ASSUME NEW s, NEW r, IsRequest(r)
    PROVE  Wire!Limit(s, r) = IF r.limit # <<>> THEN r.limit[1] ELSE IF s.limit # 0 THEN s.limit ELSE Wire!DefaultLimit
BY DEF Wire!Limit, IsRequest

\* OpenAI and Azure are sent the messages as they are.
LEMMA ThePlainBodyIsFaithful ==
    ASSUME NEW s, NEW r, IsRequest(r), NEW body,
           body.turns = r.messages, body.system = <<>>, body.limit = Wire!Limit(s, r)
    PROVE  Faithful(s, r, body)
<1>. DEFINE said == r.messages
<1>1. Wire!Turns(said) \in SUBSET Nat /\ Wire!Systems(said) \in SUBSET Nat /\ DOMAIN (<<>>) = {}
  BY DEF Wire!Turns, Wire!Systems, IsRequest
<1>2. Wire!Matches(Wire!Voices(said), Wire!Turns(said), Wire!Voices(said), Wire!Turns(said))
  BY <1>1, AListMatchesItself
<1>3. Wire!Matches(Wire!Texts(said), Wire!Systems(said), Wire!Texts(said), Wire!Systems(said))
  BY <1>1, AListMatchesItself
<1>4. Wire!Systems(said) = {} => Wire!Matches(Wire!Texts(said), Wire!Systems(said), body.system, DOMAIN body.system)
  BY <1>1, NothingMatches
<1>5. body.limit = IF r.limit # <<>> THEN r.limit[1] ELSE IF s.limit # 0 THEN s.limit ELSE Wire!DefaultLimit
  BY LimitIs
<1> QED BY <1>2, <1>3, <1>4, <1>5 DEF Faithful

\* The others are sent the parts, each turn in its own voice.
LEMMA ThePartedBodyIsFaithful ==
    ASSUME NEW s, NEW r, IsRequest(r), NEW body, NEW turns,
           body.turns = turns, body.system = Wire!Texts(Wire!Parted(r.messages).system),
           body.limit = Wire!Limit(s, r),
           DOMAIN turns = DOMAIN Wire!Parted(r.messages).turns,
           \A k \in DOMAIN turns :
               LET m == Wire!Parted(r.messages).turns[k]
               IN m \in Message /\ ~Wire!IsSystem(m) =>
                    /\ turns[k].text = m.text /\ ~Wire!IsSystem(turns[k])
                    /\ Wire!IsAssistant(turns[k].role) = Wire!IsAssistant(m.role)
    PROVE  Faithful(s, r, body)
<1>1. PICK said : said = r.messages /\ said \in Seq(Message)
  BY DEF IsRequest
<1>2. PICK p : p = Wire!Parted(said)
  OBVIOUS
<1>3. /\ p \in Parts2(Message)
      /\ Wire!Matches(said, Wire!Turns(said), p.turns, DOMAIN p.turns)
      /\ Wire!Matches(said, Wire!Systems(said), p.system, DOMAIN p.system)
  BY <1>1, <1>2, PartedIs
<1>4. /\ \A k \in Wire!Turns(said) : k \in DOMAIN said /\ said[k] \in Message /\ ~Wire!IsSystem(said[k])
      /\ \A k \in Wire!Systems(said) : k \in DOMAIN said
  BY <1>1 DEF Wire!Turns, Wire!Systems
<1>5. \A k \in DOMAIN turns : p.turns[k] \in Message /\ ~Wire!IsSystem(p.turns[k])
  <2>1. ASSUME NEW k \in DOMAIN p.turns PROVE p.turns[k] \in Message /\ ~Wire!IsSystem(p.turns[k])
    <3>1. \E l \in Wire!Turns(said) : p.turns[k] = said[l]
      BY <1>3, MatchesBack
    <3> QED BY <1>4, <3>1
  <2> QED BY <1>1, <1>2, <2>1
<1>6. \A k \in DOMAIN turns : /\ turns[k].text = p.turns[k].text /\ ~Wire!IsSystem(turns[k])
                              /\ Wire!IsAssistant(turns[k].role) = Wire!IsAssistant(p.turns[k].role)
  BY <1>1, <1>2, <1>5
<1>7. Wire!Systems(turns) = {} /\ Wire!Turns(turns) = DOMAIN p.turns /\ DOMAIN turns = DOMAIN p.turns
  BY <1>1, <1>2, <1>6 DEF Wire!Systems, Wire!Turns
<1>8. Wire!Matches(Wire!Voices(said), Wire!Turns(said), Wire!Voices(turns), Wire!Turns(turns))
  <2>1. ASSUME NEW k \in Wire!Turns(said), NEW q \in DOMAIN p.turns, said[k] = p.turns[q]
        PROVE  Wire!Voices(said)[k] = Wire!Voices(turns)[q]
    <3>1. Wire!Voices(said)[k] = <<Wire!IsAssistant(said[k].role), said[k].text>>
      BY <1>4 DEF Wire!Voices
    <3>2. Wire!Voices(turns)[q] = <<Wire!IsAssistant(turns[q].role), turns[q].text>>
      BY <1>7 DEF Wire!Voices
    <3>3. Wire!IsAssistant(turns[q].role) = Wire!IsAssistant(p.turns[q].role) /\ turns[q].text = p.turns[q].text
      BY <1>6, <1>7
    <3> QED BY <2>1, <3>1, <3>2, <3>3
  <2>2. Wire!Matches(Wire!Voices(said), Wire!Turns(said), Wire!Voices(turns), DOMAIN p.turns)
    BY <1>3, <2>1, ReadingsMatch
  <2> QED BY <1>7, <2>2
<1>9. Wire!Matches(Wire!Texts(said), Wire!Systems(said), Wire!Texts(p.system), DOMAIN Wire!Texts(p.system))
  <2>1. ASSUME NEW k \in Wire!Systems(said), NEW q \in DOMAIN p.system, said[k] = p.system[q]
        PROVE  Wire!Texts(said)[k] = Wire!Texts(p.system)[q]
    BY <1>4, <2>1 DEF Wire!Texts
  <2>2. Wire!Matches(Wire!Texts(said), Wire!Systems(said), Wire!Texts(p.system), DOMAIN p.system)
    BY <1>3, <2>1, ReadingsMatch
  <2>3. DOMAIN Wire!Texts(p.system) = DOMAIN p.system
    BY DEF Wire!Texts
  <2> QED BY <2>2, <2>3
<1>10. body.limit = IF r.limit # <<>> THEN r.limit[1] ELSE IF s.limit # 0 THEN s.limit ELSE Wire!DefaultLimit
  BY LimitIs
<1> QED BY <1>1, <1>2, <1>7, <1>8, <1>9, <1>10 DEF Faithful

\* The same for each vendor.
LEMMA BodiesAreFaithful ==
    ASSUME NEW s, NEW r, IsRequest(r), s.vendor \in Wire!Vendors
    PROVE  Faithful(s, r, Wire!WireOf(s, r))
<1>1. CASE s.vendor = "openai"
  <2>1. PICK body : body = Wire!Wire_openai(s, r)
    OBVIOUS
  <2>2. body.turns = r.messages /\ body.system = <<>> /\ body.limit = Wire!Limit(s, r)
    BY <2>1 DEF Wire!Wire_openai, Wire!Native_openai
  <2>3. Faithful(s, r, body)
    BY <2>2, ThePlainBodyIsFaithful
  <2>4. Wire!WireOf(s, r) = Wire!Wire_openai(s, r)
    BY <1>1 DEF Wire!WireOf
  <2> QED BY <2>1, <2>3, <2>4
<1>2. CASE s.vendor = "azure"
  <2>1. PICK body : body = Wire!Wire_azure(s, r)
    OBVIOUS
  <2>2. body.turns = r.messages /\ body.system = <<>> /\ body.limit = Wire!Limit(s, r)
    BY <2>1 DEF Wire!Wire_azure, Wire!Native_azure
  <2>3. Faithful(s, r, body)
    BY <2>2, ThePlainBodyIsFaithful
  <2>4. Wire!WireOf(s, r) = Wire!Wire_azure(s, r)
    BY <1>2 DEF Wire!WireOf
  <2> QED BY <2>1, <2>3, <2>4
<1>3. CASE s.vendor = "anthropic"
  <2>1. PICK body : body = Wire!Wire_anthropic(s, r)
    OBVIOUS
  <2>2. PICK turns : turns = Wire!Parted(r.messages).turns
    OBVIOUS
  <2>3. body.turns = turns /\ body.system = Wire!Texts(Wire!Parted(r.messages).system) /\ body.limit = Wire!Limit(s, r)
    BY <2>1, <2>2 DEF Wire!Wire_anthropic, Wire!Native_anthropic
  <2>4. Faithful(s, r, body)
    BY <2>2, <2>3, ThePartedBodyIsFaithful
  <2>5. Wire!WireOf(s, r) = Wire!Wire_anthropic(s, r)
    BY <1>3 DEF Wire!WireOf
  <2> QED BY <2>1, <2>4, <2>5
<1>4. CASE s.vendor = "google"
  <2>1. PICK body : body = Wire!Wire_google(s, r)
    OBVIOUS
  <2>2. PICK turns : turns = Wire!Renamed(Wire!Parted(r.messages).turns)
    OBVIOUS
  <2>3. body.turns = turns /\ body.system = Wire!Texts(Wire!Parted(r.messages).system) /\ body.limit = Wire!Limit(s, r)
    BY <2>1, <2>2 DEF Wire!Wire_google, Wire!Native_google
  <2>4. DOMAIN turns = DOMAIN Wire!Parted(r.messages).turns
    BY <2>2 DEF Wire!Renamed
  <2>5. ASSUME NEW k \in DOMAIN turns, NEW m, m = Wire!Parted(r.messages).turns[k],
               m \in Message, ~Wire!IsSystem(m)
        PROVE  /\ turns[k].text = m.text /\ ~Wire!IsSystem(turns[k])
               /\ Wire!IsAssistant(turns[k].role) = Wire!IsAssistant(m.role)
    <3>1. turns[k] = [m EXCEPT !.role = Wire!Role_google(m.role)]
      BY <2>2, <2>5 DEF Wire!Renamed
    <3>2. turns[k].text = m.text /\ turns[k].role = Wire!Role_google(m.role) /\ m.role \in Roles
      BY <2>5, <3>1 DEF Message
    <3> QED BY <2>5, <3>2 DEF Wire!Role_google, Wire!IsSystem, Wire!IsAssistant, Roles
  <2>6. Faithful(s, r, body)
    BY <2>3, <2>4, <2>5, ThePartedBodyIsFaithful
  <2>7. Wire!WireOf(s, r) = Wire!Wire_google(s, r)
    BY <1>4 DEF Wire!WireOf
  <2> QED BY <2>1, <2>6, <2>7
<1> QED BY <1>1, <1>2, <1>3, <1>4 DEF Wire!Vendors

\* What a call has sent is the body for its request.
SentInv ==
    /\ setup.vendor \in Wire!Vendors /\ IsRequest(request)
    /\ consumer # "idle" => wire = Wire!WireOf(setup, request)

\* No step changes the request, and the body is made from it in the one that sends it.
THEOREM SentInvariance == Wire!Init /\ [][Wire!Next]_(Wire!wireVars) => []SentInv
<1>1. Wire!Init => SentInv
  <2>. SUFFICES ASSUME Wire!Init PROVE SentInv
    OBVIOUS
  <2>1. PICK k \in Cases : setup = k.setup /\ request = k.request
    BY DEF Wire!Init
  <2>2. setup.vendor \in Wire!Vendors /\ IsRequest(request)
    BY <2>1, CasesAssumption DEF IsRequest, Message
  <2>3. consumer = "idle"
    BY DEF Wire!Init
  <2> QED BY <2>2, <2>3 DEF SentInv
<1>2. SentInv /\ [Wire!Next]_(Wire!wireVars) => SentInv'
  <2>. SUFFICES ASSUME SentInv, [Wire!Next]_(Wire!wireVars) PROVE SentInv'
    OBVIOUS
  <2>1. setup' = setup /\ request' = request
        /\ (consumer' # "idle" => wire' = Wire!WireOf(setup, request))
    <3>1. CASE Wire!Send
      BY <3>1 DEF Wire!Send
    <3>2. CASE Wire!Next /\ ~Wire!Send
      <4>1. setup' = setup /\ request' = request /\ wire' = wire /\ (consumer' # "idle" => consumer # "idle")
        BY <3>2 DEF Wire!Next, Wire!Return, Wire!Open, Wire!ReadLine, Wire!ReadEnd, Wire!Timeout,
                    Wire!SendChunk, Wire!Receive, Wire!SeeClosed, Wire!Leave
      <4> QED BY <4>1 DEF SentInv
    <3>3. CASE UNCHANGED Wire!wireVars
      BY <3>3 DEF Wire!wireVars, SentInv
    <3> QED BY <3>1, <3>2, <3>3
  <2>2. Wire!WireOf(setup', request') = Wire!WireOf(setup, request)
    BY <2>1
  <2> QED BY <2>1, <2>2 DEF SentInv
<1> QED BY <1>1, <1>2, PTL

\* buildWireRequest of each vendor: the model is sent every turn of the request, in its order and its
\* voice, all of the system texts in theirs, and the limit of the request or of the configuration.
THEOREM RequestsAreFaithful == Spec => []WireIsFaithful
<1>1. SentInv => WireIsFaithful
  <2>. SUFFICES ASSUME SentInv, consumer # "idle" PROVE Wire!WireIsFaithful
    BY DEF WireIsFaithful, Wire!WireIsFaithful
  <2>1. Faithful(setup, request, wire)
    BY BodiesAreFaithful DEF SentInv
  <2> QED BY <2>1 DEF Faithful, Wire!WireIsFaithful
<1> QED BY <1>1, SentInvariance, WireBehaves, PTL
=============================================================================
