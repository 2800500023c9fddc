---------------------------- MODULE PromptFiles ----------------------------
(***************************************************************************)
(* The file store of prompt fragments, reloaded while it is in use, and    *)
(* the composer that renders templates from it.                            *)
(*                                                                         *)
(* NewFSStore watches the directory, reads it, and starts watchLoop, which *)
(* takes one event at a time: it reads the file, puts the fragment into    *)
(* the in-memory backend and hands it to the watchers of its slug, each    *)
(* behind a buffered channel that drops what does not fit.  Render fetches *)
(* the fragments of a template concurrently.                               *)
(*                                                                         *)
(* A file is named after its slug; what it contains is the number of the   *)
(* edit that wrote it.  Editors and the kernel's events are external:      *)
(* every change is an event, in order and none lost.                       *)
(***************************************************************************)
EXTENDS Naturals, FiniteSets, Sequences, SequencesExt

CONSTANTS Slugs, MaxEdits,
          Watchers, Capacity,   \* subscribers, and the room in a channel: 4 in the code
          Composers, Templates  \* callers of Render, and the slug sequences they render

VARIABLES disk,       \* slug -> [n, whole]: the edit in the file (0: no file), and if it is written out
          edits,
          watched,    \* the directory is watched
          events,     \* [slug, kind] of the changes not yet taken
          mem,        \* slug -> the edit in the MemoryBackend, 0 for none
          loader,     \* the constructor, then watchLoop: [pc, todo, slug, n]
          watchers,   \* watcher -> its channel: [slug, queue, since, last, missed]
          renders     \* composer -> its call: [refs, from, work, failed, pc]

promptVars == <<disk, edits, watched, events, mem, loader, watchers, renders>>

-----------------------------------------------------------------------------
NoFile == [n |-> 0, whole |-> FALSE]
Unsubscribed == <<>>
NoRender == [pc |-> "idle", refs |-> <<>>, from |-> <<>>, work |-> <<>>, failed |-> FALSE]

Init ==
    /\ disk \in [Slugs -> {NoFile, [n |-> 1, whole |-> TRUE]}]
    /\ edits = 1 /\ watched = FALSE /\ events = <<>>
    /\ mem = [s \in Slugs |-> 0]
    /\ loader = [pc |-> "watch", todo |-> {}, slug |-> {}, n |-> 0]
    /\ watchers = [w \in Watchers |-> Unsubscribed]
    /\ renders = [c \in Composers |-> NoRender]

Open == loader.pc \notin {"watch", "list", "scan"}

-----------------------------------------------------------------------------
(* Editors.                                                                *)

Change(s, file, kind) ==
    /\ disk' = [disk EXCEPT ![s] = file]
    /\ events' = IF watched THEN Append(events, [slug |-> s, kind |-> kind]) ELSE events
    /\ UNCHANGED <<watched, mem, loader, watchers, renders>>

\* A file is written in place, in two steps, or replaced by another one, or removed.
BeginWrite(s) ==
    /\ edits < MaxEdits /\ edits' = edits + 1
    /\ Change(s, [n |-> edits', whole |-> FALSE], IF disk[s].n = 0 THEN "create" ELSE "write")

EndWrite(s) ==
    /\ disk[s].n > 0 /\ ~disk[s].whole /\ edits' = edits
    /\ Change(s, [disk[s] EXCEPT !.whole = TRUE], "write")

Replace(s) ==
    /\ edits < MaxEdits /\ edits' = edits + 1
    /\ Change(s, [n |-> edits', whole |-> TRUE], "create")

RemoveFile(s) ==
    /\ disk[s].n > 0 /\ edits < MaxEdits /\ edits' = edits + 1
    /\ Change(s, NoFile, "remove")

-----------------------------------------------------------------------------
(* NewFSStore: the watch comes first, then the directory.                  *)

Loader(l) ==
    /\ loader' = l
    /\ UNCHANGED <<disk, edits, renders>>

AddWatch ==
    /\ loader.pc = "watch"
    /\ watched' = TRUE
    /\ Loader([loader EXCEPT !.pc = "list"])
    /\ UNCHANGED <<events, mem, watchers>>

ReadDir ==
    /\ loader.pc = "list"
    /\ Loader([loader EXCEPT !.pc = "scan", !.todo = {s \in Slugs : disk[s].n > 0}])
    /\ UNCHANGED <<watched, events, mem, watchers>>

\* A file that is gone or does not parse is left out.
LoadFile(s) == IF disk[s].whole THEN disk[s].n ELSE 0
Put(s, n) == [mem EXCEPT ![s] = n]

ScanFile(s) ==
    /\ loader.pc = "scan" /\ s \in loader.todo
    /\ mem' = IF LoadFile(s) > 0 THEN Put(s, LoadFile(s)) ELSE mem
    /\ Loader([loader EXCEPT !.todo = @ \ {s}])
    /\ UNCHANGED <<watched, events, watchers>>

EndScan ==
    /\ loader.pc = "scan" /\ loader.todo = {}
    /\ Loader([loader EXCEPT !.pc = "wait"])
    /\ UNCHANGED <<watched, events, mem, watchers>>

-----------------------------------------------------------------------------
(* watchLoop.                                                              *)

\* Mutant of Handles: an editor that replaces the file goes unnoticed.
HandlesWrites(kind) == kind = "write"

Handles(kind) == kind \in {"write", "create"}

TakeEvent ==
    /\ loader.pc = "wait" /\ events # <<>>
    /\ events' = Tail(events)
    /\ Loader(IF Handles(Head(events).kind) THEN [loader EXCEPT !.pc = "load", !.slug = {Head(events).slug}]
              ELSE loader)
    /\ UNCHANGED <<watched, mem, watchers>>

TheSlug == CHOOSE s \in loader.slug : TRUE

ReloadFile ==
    /\ loader.pc = "load"
    /\ LET n == LoadFile(TheSlug)
       IN Loader(IF n > 0 THEN [loader EXCEPT !.pc = "put", !.n = n]
                 ELSE [loader EXCEPT !.pc = "wait", !.slug = {}])
    /\ UNCHANGED <<watched, events, mem, watchers>>

PutReloaded ==
    /\ loader.pc = "put"
    /\ mem' = Put(TheSlug, loader.n)
    /\ Loader([loader EXCEPT !.pc = "notify"])
    /\ UNCHANGED <<watched, events, watchers>>

\* A send that would block is not made.
Told(channel, n) ==
    IF Len(channel.queue) < Capacity
    THEN [channel EXCEPT !.queue = Append(@, n), !.missed = FALSE]
    ELSE [channel EXCEPT !.missed = TRUE]

Notify ==
    /\ loader.pc = "notify"
    /\ watchers' = [w \in Watchers |->
                      IF watchers[w] # Unsubscribed /\ watchers[w].slug = TheSlug
                      THEN Told(watchers[w], loader.n) ELSE watchers[w]]
    /\ Loader([loader EXCEPT !.pc = "wait", !.slug = {}, !.n = 0])
    /\ UNCHANGED <<watched, events, mem>>

-----------------------------------------------------------------------------
(* Subscribers.  The end of a subscription's context removes and closes    *)
(* its channel under the lock that Notify holds.                           *)

Subscriber(w, channel) ==
    /\ watchers' = [watchers EXCEPT ![w] = channel]
    /\ UNCHANGED <<disk, edits, watched, events, mem, loader, renders>>

Watch(w, s) ==
    /\ Open /\ watchers[w] = Unsubscribed
    /\ Subscriber(w, [slug |-> s, queue |-> <<>>, since |-> mem[s], last |-> mem[s], missed |-> FALSE])

ReceiveUpdate(w) ==
    /\ watchers[w] # Unsubscribed /\ watchers[w].queue # <<>>
    /\ Subscriber(w, [watchers[w] EXCEPT !.queue = Tail(@), !.last = Head(watchers[w].queue)])

CloseWatch(w) == watchers[w] # Unsubscribed /\ Subscriber(w, Unsubscribed)

-----------------------------------------------------------------------------
(* PromptComposer.Render.                                                  *)

Composer(c, render) ==
    /\ renders' = [renders EXCEPT ![c] = render]
    /\ UNCHANGED <<disk, edits, watched, events, mem, loader, watchers>>

\* The references whose conditions hold, in their order.
InOrder(holds) ==
    {order \in [1..Cardinality(holds) -> holds] : \A i, j \in DOMAIN order : i < j => order[i] < order[j]}

BeginRender(c) ==
    /\ Open /\ renders[c].pc = "idle"
    /\ \E t \in Templates : \E holds \in SUBSET DOMAIN t \ {{}} : \E order \in InOrder(holds) :
         LET refs == [i \in DOMAIN order |-> t[order[i]]]
         IN Composer(c, [NoRender EXCEPT !.pc = "fetch", !.refs = refs,
                                         !.from = [i \in DOMAIN refs |-> mem[refs[i]]],
                                         !.work = [i \in DOMAIN refs |-> <<>>]])

Missing(render) == {i \in DOMAIN render.work : render.work[i] = <<>>}

\* Mutant of Place: fragments are collected as they arrive.
PlaceNext(render, i) == CHOOSE j \in Missing(render) : \A k \in Missing(render) : j <= k

Place(render, i) == i

\* The goroutine of reference i: the fragment is there and has its variables, or the call fails
\* (the others go on, in the memory backend, whatever becomes of their context).
Fetch(c, i) ==
    /\ renders[c].pc = "fetch" /\ i \in Missing(renders[c])
    /\ LET fragment == <<renders[c].refs[i], mem[renders[c].refs[i]]>>
       IN \/ /\ fragment[2] > 0
             /\ Composer(c, [renders[c] EXCEPT !.work[Place(renders[c], i)] = fragment])
          \/ Composer(c, [renders[c] EXCEPT !.work[Place(renders[c], i)] = fragment, !.failed = TRUE])

\* All goroutines have returned; rendering may still fail.
Join(c) ==
    /\ renders[c].pc = "fetch" /\ Missing(renders[c]) = {}
    /\ \/ ~renders[c].failed /\ Composer(c, [renders[c] EXCEPT !.pc = "rendered"])
       \/ Composer(c, NoRender)

EndRender(c) == renders[c].pc = "rendered" /\ Composer(c, NoRender)

Next ==
    \/ \E s \in Slugs : BeginWrite(s) \/ EndWrite(s) \/ Replace(s) \/ RemoveFile(s) \/ ScanFile(s)
    \/ AddWatch \/ ReadDir \/ EndScan
    \/ TakeEvent \/ ReloadFile \/ PutReloaded \/ Notify
    \/ \E w \in Watchers : ReceiveUpdate(w) \/ CloseWatch(w) \/ \E s \in Slugs : Watch(w, s)
    \/ \E c \in Composers : BeginRender(c) \/ Join(c) \/ EndRender(c)
                            \/ \E i \in DOMAIN renders[c].work : Fetch(c, i)

Spec == Init /\ [][Next]_promptVars

-----------------------------------------------------------------------------
\* Renders apart: what they hold comes from the templates.
TypeOK ==
    /\ disk \in [Slugs -> [n : Nat, whole : BOOLEAN]]
    /\ edits \in Nat /\ watched \in BOOLEAN
    /\ events \in Seq([slug : Slugs, kind : {"create", "write", "remove"}])
    /\ mem \in [Slugs -> Nat]
    /\ loader \in [pc : {"watch", "list", "scan", "wait", "load", "put", "notify"},
                   todo : SUBSET Slugs, slug : SUBSET Slugs, n : Nat]
    /\ watchers \in [Watchers -> {Unsubscribed} \union
                         [slug : Slugs, queue : Seq(Nat), since : Nat, last : Nat, missed : BOOLEAN]]

Settled == loader.pc = "wait" /\ events = <<>>

\* Once all events are handled the store serves what is in the files, also what was written while it
\* was being opened or while another change was being loaded; and a subscriber has been sent the
\* latest change since it subscribed, unless its channel was full just then.
ChangesArrive ==
    Settled =>
        /\ \A s \in Slugs : disk[s].whole => mem[s] = disk[s].n
        /\ \A w \in Watchers :
              (watchers[w] # Unsubscribed /\ ~watchers[w].missed /\ mem[watchers[w].slug] # watchers[w].since) =>
                  Last(<<watchers[w].last>> \o watchers[w].queue) = mem[watchers[w].slug]

\* What is rendered is the template's fragments in the template's order, however their fetches
\* overtook one another, each as it was at some time during the call.
RendersAreOrdered ==
    \A c \in Composers :
        renders[c].pc = "rendered" =>
            \A i \in DOMAIN renders[c].refs :
                /\ renders[c].work[i][1] = renders[c].refs[i]
                /\ renders[c].work[i][2] \in renders[c].from[i]..mem[renders[c].refs[i]]
=============================================================================
