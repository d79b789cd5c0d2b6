------------------------------ MODULE Session -------------------------------
(***************************************************************************)
(* One session between two hosts (sapphire-framework-session/src:          *)
(* session.rs, live.rs, writer.rs, incoming.rs): the initial exchange, in  *)
(* which each side sends the pages the other lacks, asks for the content   *)
(* they need and answers what it is asked, and the live phase after it.    *)
(*                                                                         *)
(* Each side has a read loop and a writer task.  The loop queues what it   *)
(* sends on one of two unbounded queues, and the writer prefers the urgent *)
(* one.  Frames arrive in the order they were written.                     *)
(*                                                                         *)
(* What a page does to the replica is module Replica's subject; here a     *)
(* page is the set of contents it refers to, and a content stands for its  *)
(* hash.  A page waits in the queue with the small contents that go ahead  *)
(* of it, whose order among themselves is left open.  A blob is one chunk. *)
(* Size limits are left out.                                               *)
(***************************************************************************)
EXTENDS Integers, SequencesExt

CONSTANTS
  Sides,        \* the two hosts
  Hashes,       \* contents
  NoHash,       \* no blob open, or none being sent
  Delta,        \* per side: the pages it has for the other
  Small,        \* the contents sent inline, ahead of their page (INLINE_LIMIT)
  Holds,        \* per side: the contents its files hold when the session starts
  Owed,         \* per side: what an earlier session never got it (`unavailable`)
  Batches,      \* per side: what it commits, and pushes, once the session is live
  WireSize,     \* how many frames the stream holds before a write waits
  MaxEdits,     \* bound: contents that users take away while the session runs
  MaxFailures   \* bound: streams cut, timeouts, and live sessions dropped

ASSUME SessionAssumption ==
  /\ \E x, y \in Sides : x # y /\ Sides = {x, y}
  /\ IsFiniteSet(Hashes)
  /\ NoHash \notin Hashes /\ Small \subseteq Hashes
  /\ Delta \in [Sides -> Seq(SUBSET Hashes)] /\ Batches \in [Sides -> Seq(SUBSET Hashes)]
  /\ Holds \in [Sides -> SUBSET Hashes] /\ Owed \in [Sides -> SUBSET Hashes]
  /\ WireSize \in Nat \ {0} /\ MaxEdits \in Nat /\ MaxFailures \in Nat

VARIABLES
  once,       \* the sides that run_session and close after the exchange; others go live
  compatible, \* whether the two speak one format, of one workspace
  loop,       \* per side: what its read loop knows
  urgent,     \* per side: control messages to write, ahead of the rest
  bulk,       \* per side: blobs, pages and Done, in order
  sending,    \* per side: the blob its writer is in the middle of
  wire,       \* per side: the frames written and not yet read by the other
  open,       \* per side: whether its writer still runs
  held,       \* per side: the contents it has, in files or staged
  live,       \* per side: what its live phase knows
  lost,       \* per side: the contents whose file a user has changed or deleted
  failures    \* how many streams were cut, timeouts passed and live sessions dropped

queues == <<urgent, bulk, sending, wire, open>>
vars == <<once, compatible, loop, urgent, bulk, sending, wire, open, held, live, lost, failures>>

Peer(s) == CHOOSE t \in Sides : t # s

\* Messages and frames.
Hello == [kind |-> "hello"]
Refused == [kind |-> "refused"]
Done == [kind |-> "done"]
Settled == [kind |-> "settled"]
Updates(page) == [kind |-> "updates", page |-> page]
Live(page) == [kind |-> "live", page |-> page]
Want(h) == [kind |-> "want", hash |-> h]
Missing(h) == [kind |-> "missing", hash |-> h]
Aborted(h) == [kind |-> "aborted", hash |-> h]
BlobStart(h) == [kind |-> "start", hash |-> h]
BlobChunk == [kind |-> "chunk"]
BlobEnd == [kind |-> "end"]

\* What is queued in order, besides Done: a blob, written as start, chunk and end, and a
\* page behind the contents it inlines.
Blob(h) == [kind |-> "blob", hash |-> h]
Page(page, inline) == [kind |-> "updates", page |-> page, inline |-> inline]

\* The read loop is waiting for a Hello, in the exchange, live, ended (a live reader
\* is gone, its LiveSession is not), dropped or closing (the writer finishes what is
\* queued), or over; `stop` says how the exchange ended.
NewLoop == [pc |-> "hello", stop |-> "none", pages |-> 0, wanted |-> {}, lacked |-> {},
            peerDone |-> FALSE, peerSettled |-> FALSE, settled |-> FALSE, blob |-> NoHash]

\* `open` is what is_open says; `announced` and `lacked` (what the peer did not have)
\* are history.
NewLive == [open |-> FALSE, pushed |-> 0, wanted |-> {}, pending |-> {}, announced |-> {}, lacked |-> {}]

\* A writer in no blob; in one, `read` says whether its bytes were read, and right.
NotSending == [hash |-> NoHash, read |-> "no"]

Init ==
  /\ once \in SUBSET Sides
  /\ compatible \in BOOLEAN
  /\ loop = [s \in Sides |-> NewLoop]
  /\ urgent = [s \in Sides |-> <<Hello>>]
  /\ bulk = [s \in Sides |-> <<>>]
  /\ sending = [s \in Sides |-> NotSending]
  /\ wire = [s \in Sides |-> <<>>]
  /\ open = [s \in Sides |-> TRUE]
  /\ held = Holds
  /\ live = [s \in Sides |-> NewLive]
  /\ lost = [s \in Sides |-> {}]
  /\ failures = 0

-----------------------------------------------------------------------------
(* The writer task *)

\* Outbox::send: pages, Done and blobs keep their order; control messages go ahead.
Send(s, controls, entries) ==
  /\ urgent' = [urgent EXCEPT ![s] = @ \o controls]
  /\ bulk' = [bulk EXCEPT ![s] = @ \o entries]

\* s has left the stream, so a write to it fails.
HasLeft(s) == loop[s].pc \in {"ended", "over"} /\ ~open[s]

CanWrite(s) == open[s] /\ Len(wire[s]) < WireSize /\ ~HasLeft(Peer(s))

Write(s, frame) == wire' = [wire EXCEPT ![s] = Append(@, frame)]

\* Between blobs, and until the bytes of one are on the wire.
WriteUrgent(s) ==
  /\ CanWrite(s) /\ urgent[s] # <<>> /\ sending[s].read = "no"
  /\ Write(s, Head(urgent[s]))
  /\ urgent' = [urgent EXCEPT ![s] = Tail(@)]
  /\ UNCHANGED <<once, compatible, loop, bulk, sending, open, held, live, lost, failures>>

\* The contents that go out before anything else of a queued entry.
Contents(m) == IF m.kind = "blob" THEN {m.hash} ELSE IF m.kind = "updates" THEN m.inline ELSE {}

WritesBulk(s) == CanWrite(s) /\ urgent[s] = <<>> /\ bulk[s] # <<>> /\ sending[s] = NotSending

WriteBulk(s) ==
  LET m == Head(bulk[s]) IN
  /\ WritesBulk(s) /\ Contents(m) = {}
  /\ Write(s, IF m.kind = "updates" THEN Updates(m.page) ELSE Done)
  /\ bulk' = [bulk EXCEPT ![s] = Tail(@)]
  /\ UNCHANGED <<once, compatible, loop, urgent, sending, open, held, live, lost, failures>>

StartBlob(s, h) ==
  LET m == Head(bulk[s]) IN
  /\ WritesBulk(s) /\ h \in Contents(m)
  /\ bulk' = IF m.kind = "blob" THEN [bulk EXCEPT ![s] = Tail(@)]
                                ELSE [bulk EXCEPT ![s][1].inline = @ \ {h}]
  /\ \/ /\ Write(s, BlobStart(h))
        /\ sending' = [sending EXCEPT ![s] = [hash |-> h, read |-> "no"]]
     \/ /\ h \notin held[s]     \* the file cannot be opened
        /\ Write(s, Missing(h))
        /\ UNCHANGED sending
  /\ UNCHANGED <<once, compatible, loop, urgent, open, held, live, lost, failures>>

WriteChunk(s) ==
  /\ CanWrite(s) /\ urgent[s] = <<>>
  /\ sending[s] # NotSending /\ sending[s].read = "no"
  /\ Write(s, BlobChunk)
  /\ sending' = [sending EXCEPT ![s].read =
                   IF sending[s].hash \in held[s] THEN "right" ELSE "wrong"]
  /\ UNCHANGED <<once, compatible, loop, urgent, bulk, open, held, live, lost, failures>>

\* What was read is the content, or the file has changed under it.
WriteEnd(s) ==
  /\ CanWrite(s) /\ sending[s].read # "no"
  /\ Write(s, IF sending[s].read = "right" THEN BlobEnd ELSE Aborted(sending[s].hash))
  /\ sending' = [sending EXCEPT ![s] = NotSending]
  /\ UNCHANGED <<once, compatible, loop, urgent, bulk, open, held, live, lost, failures>>

\* The writer is gone, and what is queued with it.
StopWriter(s) ==
  /\ open' = [open EXCEPT ![s] = FALSE]
  /\ urgent' = [urgent EXCEPT ![s] = <<>>]
  /\ bulk' = [bulk EXCEPT ![s] = <<>>]
  /\ sending' = [sending EXCEPT ![s] = NotSending]

Drained(s) == urgent[s] = <<>> /\ bulk[s] = <<>> /\ sending[s] = NotSending

WriteFails(s) ==
  /\ open[s] /\ ~Drained(s) /\ HasLeft(Peer(s))
  /\ StopWriter(s)
  /\ UNCHANGED <<once, compatible, loop, wire, held, live, lost, failures>>

-----------------------------------------------------------------------------
(* The exchange's read loop *)

\* The loop stops, and the writer is aborted.
StopLoop(s, why) ==
  /\ loop' = [loop EXCEPT ![s].pc = "over", ![s].stop = why]
  /\ StopWriter(s)

Incoming(s) == wire[Peer(s)]

Took(s) == wire' = [wire EXCEPT ![Peer(s)] = Tail(@)]

\* A Hello: the replica's pages are built and queued, each behind the small contents
\* it refers to.
Inline(s, page) == page \cap Small \cap held[s]

\* A mutant of Outgoing: Done is queued before the pages.
OutgoingDoneFirst(s) ==
  [i \in 1..Len(Delta[s]) + 1 |->
     IF i > 1 THEN Page(Delta[s][i - 1], Inline(s, Delta[s][i - 1])) ELSE Done]

Outgoing(s) ==
  [i \in 1..Len(Delta[s]) + 1 |->
     IF i <= Len(Delta[s]) THEN Page(Delta[s][i], Inline(s, Delta[s][i])) ELSE Done]

ReadHello(s) ==
  /\ loop[s].pc = "hello" /\ Incoming(s) # <<>> /\ Head(Incoming(s)) = Hello
  /\ Took(s)
  /\ IF compatible
       THEN IF open[s]
              THEN /\ Send(s, <<>>, Outgoing(s))
                   /\ loop' = [loop EXCEPT ![s].pc = "exchange"]
                   /\ UNCHANGED <<sending, open>>
              ELSE StopLoop(s, "gone")
       ELSE /\ Send(s, <<Refused>>, <<>>)
            /\ loop' = [loop EXCEPT ![s].pc = "closing", ![s].stop = "refused"]
            /\ UNCHANGED <<sending, open>>
  /\ UNCHANGED <<once, compatible, held, live, lost, failures>>

\* A mutant of Complete: the peer may still want something.
CompleteUnsettled(l) == l.peerDone /\ l.wanted = {}

\* Nothing more can come up for this side to do.
Complete(l) == l.peerDone /\ l.peerSettled /\ l.wanted = {}

\* The next frame of the exchange is there to be read.
Reads(s, kind) ==
  /\ loop[s].pc = "exchange" /\ ~Complete(loop[s])
  /\ Incoming(s) # <<>> /\ Head(Incoming(s)).kind = kind

\* Once the peer is done and this side wants nothing, it settles.
Settles(l) == l.peerDone /\ l.wanted = {} /\ ~l.settled

\* The loop has handled a frame: it knows l, and sends what it has to.
Handled(s, l, controls, entries) ==
  LET out == IF Settles(l) THEN Append(controls, Settled) ELSE controls
  IN  /\ Took(s)
      /\ IF (out # <<>> \/ entries # <<>>) /\ ~open[s]
           THEN StopLoop(s, "gone")
           ELSE /\ loop' = [loop EXCEPT ![s] = [l EXCEPT !.settled = @ \/ Settles(l)]]
                /\ Send(s, out, entries)
                /\ UNCHANGED <<sending, open>>
      /\ UNCHANGED <<once, compatible, lost, failures>>

Wants(hashes) == [i \in 1..Cardinality(hashes) |-> Want(SetToSeq(hashes)[i])]

\* A page is applied, and what it needs and is not asked for yet is asked for.
ReadUpdates(s) ==
  /\ Reads(s, "updates")
  /\ LET asked == (Head(Incoming(s)).page \ held[s]) \ loop[s].wanted
     IN  Handled(s, [loop[s] EXCEPT !.pages = @ + 1, !.wanted = @ \cup asked], Wants(asked), <<>>)
  /\ UNCHANGED <<held, live>>

\* What earlier sessions never got is asked for again.
ReadDone(s) ==
  /\ Reads(s, "done")
  /\ LET asked == ((Owed[s] \ held[s]) \ loop[s].lacked) \ loop[s].wanted
     IN  Handled(s, [loop[s] EXCEPT !.peerDone = TRUE, !.wanted = @ \cup asked], Wants(asked), <<>>)
  /\ UNCHANGED <<held, live>>

ReadSettled(s) ==
  /\ Reads(s, "settled")
  /\ Handled(s, [loop[s] EXCEPT !.peerSettled = TRUE], <<>>, <<>>)
  /\ UNCHANGED <<held, live>>

\* `answer`: the content, or Missing.
Answers(s, h) == IF h \in held[s] THEN <<Blob(h)>> ELSE <<>>
Denials(s, h) == IF h \in held[s] THEN <<>> ELSE <<Missing(h)>>

ReadWant(s) ==
  /\ Reads(s, "want")
  /\ LET h == Head(Incoming(s)).hash
     IN  Handled(s, loop[s], Denials(s, h), Answers(s, h))
  /\ UNCHANGED <<held, live>>

ReadMissing(s) ==
  /\ Reads(s, "missing")
  /\ LET h == Head(Incoming(s)).hash
     IN  Handled(s, [loop[s] EXCEPT !.wanted = @ \ {h}, !.lacked = @ \cup {h}], <<>>, <<>>)
  /\ UNCHANGED <<held, live>>

ReadAborted(s) ==
  /\ Reads(s, "aborted") /\ Head(Incoming(s)).hash = loop[s].blob
  /\ LET h == loop[s].blob
     IN  Handled(s, [loop[s] EXCEPT !.wanted = @ \ {h}, !.lacked = @ \cup {h},
                                    !.blob = NoHash], <<>>, <<>>)
  /\ UNCHANGED <<held, live>>

ReadBlobStart(s) ==
  /\ Reads(s, "start") /\ loop[s].blob = NoHash
  /\ Handled(s, [loop[s] EXCEPT !.blob = Head(Incoming(s)).hash], <<>>, <<>>)
  /\ UNCHANGED <<held, live>>

ReadBlobChunk(s) ==
  /\ Reads(s, "chunk") /\ loop[s].blob # NoHash
  /\ Handled(s, loop[s], <<>>, <<>>)
  /\ UNCHANGED <<held, live>>

\* The content is complete, and staged.
ReadBlobEnd(s) ==
  /\ Reads(s, "end") /\ loop[s].blob # NoHash
  /\ held' = [held EXCEPT ![s] = @ \cup {loop[s].blob}]
  /\ Handled(s, [loop[s] EXCEPT !.wanted = @ \ {loop[s].blob}, !.blob = NoHash], <<>>, <<>>)
  /\ UNCHANGED live

ReadExchange(s) ==
  \/ ReadUpdates(s) \/ ReadDone(s) \/ ReadSettled(s)
  \/ ReadWant(s) \/ ReadMissing(s) \/ ReadAborted(s)
  \/ ReadBlobStart(s) \/ ReadBlobChunk(s) \/ ReadBlobEnd(s)

\* The stream has ended.
StreamEnded(s) == Incoming(s) = <<>> /\ ~open[Peer(s)]

\* An exchange, or a wait for the Hello, commits nothing.
ReadEnd(s) ==
  /\ loop[s].pc = "hello" \/ (loop[s].pc = "exchange" /\ ~Complete(loop[s]))
  /\ StreamEnded(s)
  /\ StopLoop(s, "gone")
  /\ UNCHANGED <<once, compatible, wire, held, live, lost, failures>>

-----------------------------------------------------------------------------
(* After the exchange *)

\* The loop breaks; the replica is materialised and committed; a one-shot session
\* then lets its writer finish, the other goes live.
Commit(s) ==
  /\ loop[s].pc = "exchange" /\ Complete(loop[s])
  /\ loop' = [loop EXCEPT ![s].stop = "complete",
                          ![s].pc = IF s \in once THEN "closing" ELSE "live"]
  /\ live' = [live EXCEPT ![s].open = s \notin once]
  /\ UNCHANGED <<once, compatible, queues, held, lost, failures>>

\* A mutant of Close: what is queued is dropped.
CloseAtOnce(s) ==
  /\ loop[s].pc = "closing"
  /\ StopLoop(s, loop[s].stop)
  /\ UNCHANGED <<once, compatible, wire, held, live, lost, failures>>

\* close and refuse, and a dropped LiveSession: the writer has written all there was,
\* or has failed.
Close(s) ==
  /\ loop[s].pc \in {"closing", "dropped"}
  /\ Drained(s) \/ ~open[s]
  /\ StopLoop(s, loop[s].stop)
  /\ UNCHANGED <<once, compatible, wire, held, live, lost, failures>>

\* push: what this host commits next, in files it has.
Push(s) ==
  LET n == live[s].pushed + 1 IN
  /\ live[s].open /\ open[s] /\ n <= Len(Batches[s])
  /\ live' = [live EXCEPT ![s].pushed = n]
  /\ held' = [held EXCEPT ![s] = @ \cup Batches[s][n]]
  /\ Send(s, <<Live(Batches[s][n])>>, <<>>)
  /\ UNCHANGED <<once, compatible, loop, sending, wire, open, lost, failures>>

ReadsLive(s, kind) ==
  loop[s].pc = "live" /\ Incoming(s) # <<>> /\ Head(Incoming(s)).kind = kind

\* The live reader is gone; is_open says so, unless the task returned before it could.
\* The writer is the LiveSession's, and stays.
EndLive(s, returned) ==
  /\ loop' = [loop EXCEPT ![s].pc = "ended"]
  /\ live' = [live EXCEPT ![s].open = returned]

\* The live loop has handled a frame: it knows l, and announces what waits for
\* nothing any more.  If what it has to send cannot be sent, it ends.
HandledLive(s, l, blob, controls, entries, returns) ==
  LET ready == { b \in l.pending : b.outstanding = {} }
  IN  /\ Took(s)
      /\ IF (controls # <<>> \/ entries # <<>>) /\ ~open[s]
           THEN EndLive(s, returns) /\ UNCHANGED <<urgent, bulk, sending, open>>
           ELSE /\ live' = [live EXCEPT ![s] =
                     [l EXCEPT !.pending = @ \ ready,
                               !.announced = @ \cup { b.page : b \in ready }]]
                /\ loop' = [loop EXCEPT ![s].blob = blob]
                /\ Send(s, controls, entries)
                /\ UNCHANGED <<sending, open>>
      /\ UNCHANGED <<once, compatible, lost, failures>>

\* A mutant of ReadLive: a batch waits only for what it asked for itself.
ReadLiveAsked(s) ==
  /\ ReadsLive(s, "live")
  /\ LET page  == Head(Incoming(s)).page
         asked == (page \ held[s]) \ live[s].wanted
     IN  HandledLive(s, [live[s] EXCEPT
                           !.wanted = @ \cup asked,
                           !.pending = @ \cup {[page |-> page, outstanding |-> asked]}],
                     loop[s].blob, Wants(asked), <<>>, TRUE)
  /\ UNCHANGED held

ReadLive(s) ==
  /\ ReadsLive(s, "live")
  /\ LET page    == Head(Incoming(s)).page
         missing == page \ held[s]
         asked   == missing \ live[s].wanted
     IN  HandledLive(s, [live[s] EXCEPT
                           !.wanted = @ \cup missing,
                           !.pending = @ \cup {[page |-> page, outstanding |-> missing]}],
                     loop[s].blob, Wants(asked), <<>>, TRUE)
  /\ UNCHANGED held

LiveWant(s) ==
  /\ ReadsLive(s, "want")
  /\ LET h == Head(Incoming(s)).hash
     IN  HandledLive(s, live[s], loop[s].blob, Denials(s, h), Answers(s, h), FALSE)
  /\ UNCHANGED held

\* A mutant of Remember: the batches that wait for h are forgotten.
RememberWanted(l, h) == [l EXCEPT !.wanted = @ \ {h}]

\* remember: h is answered, and no batch waits for it.
Remember(l, h) ==
  [l EXCEPT !.wanted = @ \ {h},
            !.pending = { [b EXCEPT !.outstanding = @ \ {h}] : b \in l.pending }]

LiveLacked(s) ==
  LET h == Head(Incoming(s)).hash IN
  /\ \/ ReadsLive(s, "missing") /\ HandledLive(s, [Remember(live[s], h) EXCEPT
                                     !.lacked = @ \cup {h}], loop[s].blob, <<>>, <<>>, FALSE)
     \/ /\ ReadsLive(s, "aborted") /\ h = loop[s].blob
        /\ HandledLive(s, [Remember(live[s], h) EXCEPT !.lacked = @ \cup {h}], NoHash, <<>>, <<>>, FALSE)
  /\ UNCHANGED held

LiveBlob(s) ==
  \/ /\ ReadsLive(s, "start") /\ loop[s].blob = NoHash
     /\ HandledLive(s, live[s], Head(Incoming(s)).hash, <<>>, <<>>, FALSE)
     /\ UNCHANGED held
  \/ /\ ReadsLive(s, "chunk") /\ loop[s].blob # NoHash
     /\ HandledLive(s, live[s], loop[s].blob, <<>>, <<>>, FALSE)
     /\ UNCHANGED held
  \/ /\ ReadsLive(s, "end") /\ loop[s].blob # NoHash
     /\ held' = [held EXCEPT ![s] = @ \cup {loop[s].blob}]
     /\ HandledLive(s, Remember(live[s], loop[s].blob), NoHash, <<>>, <<>>, FALSE)

LiveEnd(s) ==
  /\ loop[s].pc = "live" /\ StreamEnded(s)
  /\ EndLive(s, FALSE)
  /\ UNCHANGED <<once, compatible, queues, held, lost, failures>>

\* The LiveSession is dropped: its reader is aborted, its writer finishes.
Drop(s) ==
  /\ \/ loop[s].pc = "live" /\ failures < MaxFailures /\ failures' = failures + 1
     \/ loop[s].pc = "ended" /\ UNCHANGED failures
  /\ loop' = [loop EXCEPT ![s].pc = "dropped"]
  /\ live' = [live EXCEPT ![s].open = FALSE]
  /\ UNCHANGED <<once, compatible, queues, held, lost>>

-----------------------------------------------------------------------------
(* The world outside *)

\* A user changes or deletes the only file that held h, a content written here.
Lose(s, h) ==
  /\ Cardinality(UNION { lost[t] : t \in Sides }) < MaxEdits
  /\ h \in held[s] \ lost[s]
  /\ h \in Holds[s] \cup UNION { Batches[s][i] : i \in 1..live[s].pushed }
  /\ held' = [held EXCEPT ![s] = @ \ {h}]
  /\ lost' = [lost EXCEPT ![s] = @ \cup {h}]
  /\ UNCHANGED <<once, compatible, loop, queues, live, failures>>

\* The stream breaks: both writers are lost, and what is on it may be.
Cut ==
  /\ failures < MaxFailures
  /\ \E s \in Sides : open[s]
  /\ failures' = failures + 1
  /\ wire' \in {wire, [s \in Sides |-> <<>>]}
  /\ open' = [s \in Sides |-> FALSE]
  /\ urgent' = [s \in Sides |-> <<>>] /\ bulk' = [s \in Sides |-> <<>>]
  /\ sending' = [s \in Sides |-> NotSending]
  /\ UNCHANGED <<once, compatible, loop, held, live, lost>>

\* HELLO_TIMEOUT, IDLE_TIMEOUT: this side gives up.  `refuse` waits without a limit.
Timeout(s) ==
  /\ failures < MaxFailures
  /\ loop[s].pc \in {"hello", "exchange", "closing"} /\ loop[s].stop # "refused"
  /\ failures' = failures + 1
  /\ StopLoop(s, IF loop[s].pc = "closing" THEN loop[s].stop ELSE "timeout")
  /\ UNCHANGED <<once, compatible, wire, held, live, lost>>

-----------------------------------------------------------------------------

WriterStep(s) ==
  \/ WriteUrgent(s) \/ WriteBulk(s) \/ WriteChunk(s) \/ WriteEnd(s) \/ WriteFails(s)
  \/ \E h \in Hashes : StartBlob(s, h)

LoopStep(s) ==
  \/ ReadHello(s) \/ ReadExchange(s) \/ ReadEnd(s) \/ Commit(s) \/ Close(s)
  \/ ReadLive(s) \/ LiveWant(s) \/ LiveLacked(s) \/ LiveBlob(s) \/ LiveEnd(s)

Next ==
  \/ \E s \in Sides : WriterStep(s) \/ LoopStep(s) \/ Push(s) \/ Drop(s) \/ Timeout(s)
  \/ \E s \in Sides, h \in Hashes : Lose(s, h)
  \/ Cut

Spec == Init /\ [][Next]_vars

\* Both tasks of a side are scheduled, and a host pushes what it has committed.
FairSpec ==
  Spec /\ \A s \in Sides : WF_vars(WriterStep(s)) /\ WF_vars(LoopStep(s)) /\ WF_vars(Push(s))

-----------------------------------------------------------------------------
(* Properties *)

Frames ==
  {Hello, Refused, Done, Settled, BlobChunk, BlobEnd}
    \cup { Updates(page) : page \in SUBSET Hashes } \cup { Live(page) : page \in SUBSET Hashes }
    \cup { Want(h) : h \in Hashes } \cup { Missing(h) : h \in Hashes }
    \cup { Aborted(h) : h \in Hashes } \cup { BlobStart(h) : h \in Hashes }

Entries ==
  {Done} \cup { Blob(h) : h \in Hashes }
    \cup { Page(page, inline) : page \in SUBSET Hashes, inline \in SUBSET Hashes }

TypeOK ==
  /\ once \subseteq Sides /\ compatible \in BOOLEAN /\ failures \in 0..MaxFailures
  /\ \A s \in Sides :
       /\ loop[s].pc \in {"hello", "exchange", "live", "ended", "dropped", "closing", "over"}
       /\ loop[s].stop \in {"none", "complete", "gone", "refused", "timeout"}
       /\ loop[s].wanted \cup loop[s].lacked \subseteq Hashes
       /\ loop[s].pages \in 0..Len(Delta[Peer(s)])
       /\ Range(urgent[s]) \cup Range(wire[s]) \subseteq Frames
       /\ Range(bulk[s]) \subseteq Entries
       /\ Len(wire[s]) <= WireSize
       /\ sending[s].hash \in Hashes \cup {NoHash} /\ loop[s].blob \in Hashes \cup {NoHash}
       /\ held[s] \cup lost[s] \subseteq Hashes /\ open[s] \in BOOLEAN

\* Two hosts that run this code never call each other's frames a protocol error: no
\* Live push before the exchange is over on both sides, no exchange frame after it,
\* one blob at a time, and an abort only of the open one (Stop::Protocol, Incoming).
PeersComply ==
  \A s \in Sides :
    Incoming(s) # <<>> =>
      LET f == Head(Incoming(s)) IN
      /\ loop[s].pc = "hello" => f = Hello
      /\ loop[s].pc = "exchange" /\ ~Complete(loop[s]) => f.kind \notin {"hello", "live", "refused"}
      /\ loop[s].pc = "live" =>
           f.kind \notin {"hello", "refused", "updates", "done", "settled"}
      /\ loop[s].pc = "live" \/ (loop[s].pc = "exchange" /\ ~Complete(loop[s])) =>
           /\ f.kind = "start" => loop[s].blob = NoHash
           /\ f.kind \in {"chunk", "end"} => loop[s].blob # NoHash
           /\ f.kind = "aborted" => f.hash = loop[s].blob

\* A session commits the peer's vector only after every page of the peer is applied,
\* and everything a page refers to or an earlier session is owed was had, was asked
\* for and not to be had, or was taken away by a user here.
CommitsWhatItHas ==
  \A s \in Sides : loop[s].stop = "complete" =>
    /\ loop[s].pages = Len(Delta[Peer(s)])
    /\ (UNION Range(Delta[Peer(s)])) \cup Owed[s] \subseteq held[s] \cup lost[s] \cup loop[s].lacked

\* After Settled a side asks for nothing: the peer may close.
SettledAsksNothing ==
  [][\A s \in Sides : loop[s].settled /\ loop[s].pc = "exchange"
                        => loop'[s].wanted \subseteq loop[s].wanted]_vars

\* On a stream that holds, no side finds the other gone: whoever completes first
\* still delivers what the other is waiting for (close drains the writer).  A small
\* content that is lost while pages that inline it wait is left out: see SettledIsAnswered.
Steady == failures = 0 /\ \A s \in Sides : lost[s] \cap Small = {}

NobodyStranded == Steady => \A s \in Sides : loop[s].stop # "gone"

\* A side settles once every content it asked for has been answered (Settled's comment,
\* session.rs).  Not so: a small content that is lost after two pages inlined it is denied
\* once ahead of each, and the second denial passes for the answer to what the first
\* page asked.  NeverStranded then fails too, where several are lost.
SettledIsAnswered ==
  \A s \in Sides : loop[s].settled /\ loop[s].stop = "none" =>
    \A f \in Range(urgent[s]) \cup Range(wire[s]) : f.kind # "want"

NeverStranded == failures = 0 => \A s \in Sides : loop[s].stop # "gone"

\* A batch is announced to subscribers, who forward it, only once its content is here
\* or the peer has said it has none.
AnnouncedIsServed ==
  \A s \in Sides : \A page \in live[s].announced :
    page \subseteq held[s] \cup lost[s] \cup live[s].lacked

\* is_open is FALSE once the reader is gone, so that the next fan-out or walk of
\* dial_loop notices and the pair gets a new session.
EndedIsNoticed == \A s \in Sides : loop[s].pc = "ended" => ~live[s].open

\* On a stream that holds, both sides complete the exchange, and while neither closes,
\* what each pushes is announced by the other (as long as NeverStranded holds).
Caught(s) ==
  /\ loop[s].stop = "complete"
  /\ once = {} => Range(Batches[Peer(s)]) \subseteq live[s].announced

BothCatchUp ==
  [](failures = 0) /\ compatible => <>(\A s \in Sides : Caught(s))
=============================================================================
