----------------------------- MODULE ModelWire -----------------------------
(***************************************************************************)
(* One call of an LLM provider over HTTP: the canonical request translated *)
(* to the vendor's body, the answer decoded, or the lines of a streamed    *)
(* answer read by a goroutine that hands chunks over a buffered channel to *)
(* a consumer who may stop receiving at any time.  The vendors are OpenAI, *)
(* Azure OpenAI, Anthropic and Google.                                     *)
(*                                                                         *)
(* A text is a member of a small set, "" the absent one.  The server is    *)
(* external: it answers with a status and a body, and sends any script of  *)
(* lines that ends, breaks off or stalls.                                  *)
(***************************************************************************)
EXTENDS Naturals, FiniteSets, Sequences

CONSTANTS Cases,     \* [setup, request, script] of the calls:
                     \*   setup [vendor, key, endpoint, deployment, model, tier, limit]
                     \*   request [messages, limit (<<>> or <<n>>), temperature, stream]
                     \*   script [lines, end], end one of "eof", "broken", "stall"
          Answers,   \* bodies of unstreamed answers: [json, parts, used]
          Capacity   \* of the channel of chunks, 16 in the code

VARIABLES setup,     \* the configuration the provider was built from
          request, wire,   \* the canonical request and the body sent for it
          reply,     \* what the call returned: an error, a response or a stream
          script,    \* what the server sends when it streams
          sse,       \* the goroutine of readSSEStream: [pc, at, chunk, used]
          channel,   \* chunks sent and not yet received
          inbox,     \* chunks the consumer has received
          consumer   \* "idle", "waits", "reads", "left", "ended"

wireVars == <<setup, request, wire, reply, script, sse, channel, inbox, consumer>>

NoText == ""
DefaultLimit == 1024
Limit(s, r) == IF r.limit # <<>> THEN Head(r.limit) ELSE IF s.limit = 0 THEN DefaultLimit ELSE s.limit

-----------------------------------------------------------------------------
(* Construction: a key is required, the tier selects the model when none   *)
(* is named, an unknown tier the fast one.                                 *)

Tiers == {"fast", "smart", "reasoning"}
ModelOf(s) == IF s.model # "" THEN s.model ELSE IF s.tier \in Tiers THEN s.tier ELSE "fast"

New_openai(s) == s.key # ""
New_anthropic(s) == s.key # ""
New_google(s) == s.key # ""
New_azure(s) == s.key # "" /\ s.endpoint # "" /\ s.deployment # ""

Builds(s) == CASE s.vendor = "openai"    -> New_openai(s)
               [] s.vendor = "azure"     -> New_azure(s)
               [] s.vendor = "anthropic" -> New_anthropic(s)
               [] s.vendor = "google"    -> New_google(s)

-----------------------------------------------------------------------------
(* Translation of a request.  turns: what is sent as the conversation;     *)
(* system: what is sent beside it.                                         *)

IsSystem(m) == m.role = "system"
Texts(messages) == [i \in DOMAIN messages |-> messages[i].text]
Role_google(role) == IF role = "assistant" THEN "model" ELSE "user"

\* The loop that parts the system messages from the turns.
Parted(messages) ==
    LET parted[i \in 0..Len(messages)] ==
            IF i = 0 THEN [system |-> <<>>, turns |-> <<>>]
            ELSE IF IsSystem(messages[i]) THEN [parted[i - 1] EXCEPT !.system = Append(@, messages[i])]
            ELSE [parted[i - 1] EXCEPT !.turns = Append(@, messages[i])]
    IN parted[Len(messages)]

\* For Google, a speaker is the model or the user.
Renamed(messages) == [i \in DOMAIN messages |-> [messages[i] EXCEPT !.role = Role_google(@)]]

Native_openai(messages) == messages
Native_azure(messages) == messages
Native_anthropic(messages) == Parted(messages).turns
\* Mutant of Native_google: the system prompt stays in the conversation.
Native_googleAll(messages) == Renamed(messages)

Native_google(messages) == Renamed(Parted(messages).turns)

Wire_openai(s, r) ==
    [model |-> ModelOf(s), limit |-> Limit(s, r),
     temperature |-> r.temperature, system |-> <<>>, turns |-> Native_openai(r.messages)]

Wire_azure(s, r) ==
    [model |-> s.deployment, limit |-> Limit(s, r),
     temperature |-> r.temperature, system |-> <<>>, turns |-> Native_azure(r.messages)]

Wire_anthropic(s, r) ==
    [model |-> ModelOf(s), limit |-> Limit(s, r),
     temperature |-> NoText, system |-> Texts(Parted(r.messages).system),
     turns |-> Native_anthropic(r.messages)]

Wire_google(s, r) ==
    [model |-> ModelOf(s), limit |-> Limit(s, r),
     temperature |-> r.temperature, system |-> Texts(Parted(r.messages).system),
     turns |-> Native_google(r.messages)]

WireOf(s, r) == CASE s.vendor = "openai"    -> Wire_openai(s, r)
                  [] s.vendor = "azure"     -> Wire_azure(s, r)
                  [] s.vendor = "anthropic" -> Wire_anthropic(s, r)
                  [] s.vendor = "google"    -> Wire_google(s, r)

-----------------------------------------------------------------------------
(* Unstreamed answers: the parts of a body that carry text.  OpenAI and    *)
(* Azure list alternatives and the first is taken; the others send one     *)
(* answer in blocks.                                                       *)

NoReply == [kind |-> "none", parts |-> <<>>, used |-> 0]
Stream == [kind |-> "stream", parts |-> <<>>, used |-> 0]
Failed == [kind |-> "error", parts |-> <<>>, used |-> 0]
Response(parts, used) == [kind |-> "response", parts |-> parts, used |-> used]
IsText(part) == part.type = "text"
Contents(parts) == [i \in DOMAIN parts |-> parts[i].text]

FirstChoice(parts) == IF parts = <<>> THEN <<>> ELSE <<parts[1].text>>
CheckStatus(status) == status = 200

Complete_openai(status, a) ==
    IF ~CheckStatus(status) \/ ~a.json THEN Failed ELSE Response(FirstChoice(a.parts), a.used)
Complete_azure(status, a) ==
    IF ~CheckStatus(status) \/ ~a.json THEN Failed ELSE Response(FirstChoice(a.parts), a.used)
Complete_anthropic(status, a) ==
    IF ~CheckStatus(status) \/ ~a.json THEN Failed
    ELSE Response(Contents(SelectSeq(a.parts, IsText)), a.used)
Complete_google(status, a) ==
    IF ~CheckStatus(status) \/ ~a.json THEN Failed ELSE Response(Contents(a.parts), a.used)

Completed(s, status, a) ==
    CASE s.vendor = "openai"    -> Complete_openai(status, a)
      [] s.vendor = "azure"     -> Complete_azure(status, a)
      [] s.vendor = "anthropic" -> Complete_anthropic(status, a)
      [] s.vendor = "google"    -> Complete_google(status, a)

-----------------------------------------------------------------------------
(* Streamed answers.  A line is [kind, text, used]; kind "text" carries a  *)
(* piece, "bare" an event without one, "usage" the token count, "stop" the *)
(* vendor's end marker, "noise" a line that is not data or does not parse. *)

Chunk(text, used) == [text |-> text, used |-> used, done |-> FALSE, err |-> FALSE]
DoneChunk(used) == [text |-> NoText, used |-> used, done |-> TRUE, err |-> FALSE]
ErrChunk == [text |-> NoText, used |-> 0, done |-> TRUE, err |-> TRUE]

\* What a reader does with a line: the chunk it sends, if any, the usage it keeps.
Sends(chunk, used) == [chunk |-> <<chunk>>, used |-> used]
Skips(used) == [chunk |-> <<>>, used |-> used]

Line_openai(line, used) ==
    CASE line.kind = "stop" -> Sends(DoneChunk(0), used)
      [] line.kind = "text" -> Sends(Chunk(line.text, line.used), used)
      [] line.kind \in {"bare", "usage"} -> Sends(Chunk(NoText, line.used), used)
      [] line.kind = "noise" -> Skips(used)

Line_azure(line, used) ==
    CASE line.kind = "stop" -> Sends(DoneChunk(0), used)
      [] line.kind = "text" -> Sends(Chunk(line.text, line.used), used)
      [] line.kind \in {"bare", "usage"} -> Sends(Chunk(NoText, line.used), used)
      [] line.kind = "noise" -> Skips(used)

\* Mutant of Line_anthropic: the event with the usage is taken for the last.
Line_anthropicStops(line, used) ==
    CASE line.kind \in {"usage", "stop"} -> Sends(DoneChunk(line.used), used)
      [] line.kind = "text" -> Sends(Chunk(line.text, 0), used)
      [] line.kind \in {"bare", "noise"} -> Skips(used)

Line_anthropic(line, used) ==
    CASE line.kind = "stop" -> Sends(DoneChunk(used), used)
      [] line.kind = "text" -> Sends(Chunk(line.text, 0), used)
      [] line.kind = "usage" -> Skips(line.used)
      [] line.kind \in {"bare", "noise"} -> Skips(used)

\* Gemini has no end marker: a line like another vendor's does not parse.
Line_google(line, used) ==
    LET kept == IF line.kind \in {"text", "bare", "usage"} /\ line.used > 0 THEN line.used ELSE used
    IN IF line.kind = "text" /\ line.text # NoText THEN Sends(Chunk(line.text, 0), kept)
       ELSE Skips(kept)

LineOf(line, used) ==
    CASE setup.vendor = "openai"    -> Line_openai(line, used)
      [] setup.vendor = "azure"     -> Line_azure(line, used)
      [] setup.vendor = "anthropic" -> Line_anthropic(line, used)
      [] setup.vendor = "google"    -> Line_google(line, used)

\* The final chunk at a clean end of the body without an end marker.
EndChunk(used) == IF setup.vendor \in {"anthropic", "google"} THEN DoneChunk(used) ELSE DoneChunk(0)

-----------------------------------------------------------------------------
Off == [pc |-> "off", at |-> 0, chunk |-> <<>>, used |-> 0]

NoWire == [model |-> "", limit |-> 0, temperature |-> "", system |-> <<>>, turns |-> <<>>]

Init ==
    /\ \E c \in Cases :
         Builds(c.setup) /\ setup = c.setup /\ request = c.request /\ script = c.script
    /\ wire = NoWire /\ reply = NoReply
    /\ sse = Off /\ channel = <<>> /\ inbox = <<>> /\ consumer = "idle"

\* Complete and StreamComplete: translate and send the request.
Send ==
    /\ consumer = "idle"
    /\ wire' = WireOf(setup, request)
    /\ consumer' = "waits"
    /\ UNCHANGED <<setup, request, reply, script, sse, channel, inbox>>

\* Complete returns: the answer decoded, or an error of the connection, the status, the body.
Return ==
    /\ consumer = "waits" /\ ~request.stream
    /\ \/ \E status \in {200, 429, 500}, a \in Answers : reply' = Completed(setup, status, a)
       \/ reply' = Failed
    /\ consumer' = "ended"
    /\ UNCHANGED <<setup, request, wire, script, sse, channel, inbox>>

\* StreamComplete returns: an error, or a channel a new goroutine sends on.
Open ==
    /\ consumer = "waits" /\ request.stream
    /\ \/ /\ reply' = Stream
          /\ sse' = [Off EXCEPT !.pc = "reading"] /\ consumer' = "reads"
       \/ reply' = Failed /\ sse' = sse /\ consumer' = "ended"
    /\ UNCHANGED <<setup, request, wire, script, channel, inbox>>

\* The scanner returns a line and the reader handles it, up to the send that may block.
ReadLine ==
    /\ sse.pc = "reading" /\ sse.at < Len(script.lines)
    /\ LET handled == LineOf(script.lines[sse.at + 1], sse.used)
       IN sse' = [pc |-> IF handled.chunk = <<>> THEN "reading" ELSE "sending",
                  at |-> sse.at + 1, chunk |-> handled.chunk, used |-> handled.used]
    /\ UNCHANGED <<setup, request, wire, reply, script, channel, inbox, consumer>>

\* The scanner stops: cleanly, or with the error of a broken connection.
ReadEnd ==
    /\ sse.pc = "reading" /\ sse.at = Len(script.lines) /\ script.end \in {"eof", "broken"}
    /\ sse' = [sse EXCEPT !.pc = "sending",
                          !.chunk = <<IF script.end = "eof" THEN EndChunk(sse.used) ELSE ErrChunk>>]
    /\ UNCHANGED <<setup, request, wire, reply, script, channel, inbox, consumer>>

\* Mutant of Timeout: it covers the header of the answer alone.
TimeoutOfHeader ==
    /\ sse.pc = "connecting"
    /\ sse' = [sse EXCEPT !.pc = "sending", !.chunk = <<ErrChunk>>]
    /\ UNCHANGED <<setup, request, wire, reply, script, channel, inbox, consumer>>

\* The timeout of the HTTP client covers the body: it breaks off a read, never a send.
Timeout ==
    /\ sse.pc = "reading"
    /\ sse' = [sse EXCEPT !.pc = "sending", !.chunk = <<ErrChunk>>]
    /\ UNCHANGED <<setup, request, wire, reply, script, channel, inbox, consumer>>

\* ch <- chunk: the done chunk returns from the reader, which closes the channel.
SendChunk ==
    /\ sse.pc = "sending" /\ Len(channel) < Capacity
    /\ channel' = channel \o sse.chunk
    /\ sse' = [sse EXCEPT !.pc = IF Head(sse.chunk).done THEN "closed" ELSE "reading", !.chunk = <<>>]
    /\ UNCHANGED <<setup, request, wire, reply, script, inbox, consumer>>

Receive ==
    /\ consumer = "reads" /\ channel # <<>>
    /\ inbox' = Append(inbox, Head(channel)) /\ channel' = Tail(channel)
    /\ UNCHANGED <<setup, request, wire, reply, script, sse, consumer>>

\* The range over the channel ends when it is closed and empty.
SeeClosed ==
    /\ consumer = "reads" /\ channel = <<>> /\ sse.pc = "closed"
    /\ consumer' = "ended"
    /\ UNCHANGED <<setup, request, wire, reply, script, sse, channel, inbox>>

\* The consumer stops receiving before the end.
Leave ==
    /\ consumer = "reads"
    /\ consumer' = "left"
    /\ UNCHANGED <<setup, request, wire, reply, script, sse, channel, inbox>>

Next == Send \/ Return \/ Open \/ ReadLine \/ ReadEnd \/ Timeout \/ SendChunk \/ Receive \/ SeeClosed \/ Leave

\* Both ends are scheduled and a stalled read is timed out.  Nothing makes a consumer leave.
Fairness ==
    /\ WF_wireVars(Send) /\ WF_wireVars(Return) /\ WF_wireVars(Open)
    /\ WF_wireVars(ReadLine \/ ReadEnd \/ SendChunk) /\ WF_wireVars(Timeout)
    /\ WF_wireVars(Receive \/ SeeClosed)

Spec == Init /\ [][Next]_wireVars
FairSpec == Spec /\ Fairness

-----------------------------------------------------------------------------
IsAssistant(role) == role \in {"assistant", "model"}
Voices(messages) == [i \in DOMAIN messages |-> <<IsAssistant(messages[i].role), messages[i].text>>]
Systems(messages) == {i \in DOMAIN messages : IsSystem(messages[i])}
Turns(messages) == DOMAIN messages \ Systems(messages)

\* What b has at the places Q is what a has at the places P, in the same order.
Matches(a, P, b, Q) ==
    \E to \in [P -> Q] :
        /\ \A i \in P : b[to[i]] = a[i]
        /\ \A i, j \in P : i < j => to[i] < to[j]
        /\ \A k \in Q : \E i \in P : to[i] = k

\* Whatever the vendor, the model is sent the conversation of the request, nobody's turn dropped,
\* moved or put in another mouth, all of its system texts in order, beside the conversation or in
\* it, and the limit of the request or else of the configuration.  (The temperature is not
\* forwarded to Anthropic.)
WireIsFaithful ==
    consumer # "idle" =>
        LET said == request.messages
        IN /\ Matches(Voices(said), Turns(said), Voices(wire.turns), Turns(wire.turns))
           /\ IF Systems(wire.turns) = {} THEN Matches(Texts(said), Systems(said), wire.system, DOMAIN wire.system)
              ELSE /\ Matches(Texts(said), Systems(said), Texts(wire.turns), Systems(wire.turns))
                   /\ wire.system = <<>>
           /\ wire.limit = IF request.limit # <<>> THEN request.limit[1]
                           ELSE IF setup.limit # 0 THEN setup.limit ELSE DefaultLimit

\* A line of a script that carries a piece of the answer: it is not behind the vendor's end marker.
Tells(l) ==
    /\ script.lines[l].kind = "text" /\ script.lines[l].text # NoText
    /\ setup.vendor = "google" \/ \A j \in 1..l : script.lines[j].kind # "stop"

\* A consumer who receives to the end gets one done chunk, the last one; without an error in it
\* the texts received are the whole answer, with one they are the beginning of it.
EndedIsWhole ==
    (consumer = "ended" /\ reply.kind = "stream") =>
        LET said == {i \in DOMAIN inbox : inbox[i].text # NoText}
            answer == {l \in DOMAIN script.lines : Tells(l)}
        IN /\ inbox # <<>>
           /\ \A i \in DOMAIN inbox : inbox[i].done <=> i = Len(inbox)
           /\ \E from \in [said -> answer] :
                 /\ \A i \in said : inbox[i].text = script.lines[from[i]].text
                 /\ \A i, j \in said : i < j => from[i] < from[j]
                 /\ \A l \in answer : \/ \E i \in said : from[i] = l
                                      \/ inbox[Len(inbox)].err /\ \A i \in said : from[i] < l

\* No reader waits for ever on the network, and one that waits on the channel has been left alone
\* by its consumer with the channel full.
ReadersEnd ==
    <>[](sse.pc \in {"off", "closed"} \/ (sse.pc = "sending" /\ consumer = "left" /\ Len(channel) = Capacity))
=============================================================================
