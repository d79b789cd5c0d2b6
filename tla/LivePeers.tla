----------------------------- MODULE LivePeers ------------------------------
(***************************************************************************)
(* The live sessions of one workspace (sapphire-framework-server/src/sync: *)
(* live.rs, topology.rs and the parts of mod.rs that dial, accept, fan out *)
(* and forward), on all hosts of a workgroup.                              *)
(*                                                                         *)
(* A stream is dialled by one host and accepted by another.  Each end runs *)
(* the exchange, joins its host's table, catches the peer up and forwards  *)
(* what it receives.  What module Session says of the exchange is taken as *)
(* given: each end offers what the other's Hello lacks, and both go live.  *)
(*                                                                         *)
(* A replica is, per path, the vector of the versions it has joined (by    *)
(* SameSeenSameVersions of module Replica that is the path's state), and   *)
(* its own vector, which only its writes and a finished exchange advance.  *)
(* A batch of updates is a function from its paths to their vectors.       *)
(* Content is a path's being in Large: its batch is announced only when    *)
(* the content has been answered.                                          *)
(*                                                                         *)
(* Left out: several workspaces (each has its own table), the backoff of a *)
(* failed dial (a dial may happen late), indexing and embedding.           *)
(***************************************************************************)
EXTENDS VersionVectors, Sequences

CONSTANTS
  Setups,       \* the instances a behaviour may be of: a function from their names
  NoDevice      \* no such hub

\* One instance: its hosts and files, what happens there, and the bounds.
IsSetup(x) ==
  /\ x.hosts \subseteq Replicas
  /\ x.paths \subseteq Nat /\ IsFiniteSet(x.paths)  \* files; a path orders like its number
  /\ x.large \subseteq x.paths   \* the paths whose content takes time to come across
  /\ x.edits \in [x.hosts -> [x.paths -> Nat]]  \* how often users edit each path
  /\ x.open \in Seq([from : x.hosts, to : x.hosts])  \* the streams there are from the start
  \* What the election answers, one after the other.
  /\ x.roles \in Seq([primary : x.hosts \cup {NoDevice}, secondary : x.hosts \cup {NoDevice}])
  /\ x.roles # <<>>
  /\ x.queue \in Nat \ {0}       \* batches waiting for a session's reader (LIVE_QUEUE)
  /\ x.streams \in Nat \ {0} /\ Len(x.open) <= x.streams  \* bound: streams that exist at a time
  /\ {x.calls, x.cuts} \subseteq Nat  \* bounds: dials by sync_now, cut streams

ASSUME LivePeersAssumption ==
  NoDevice \notin Replicas /\ \A n \in DOMAIN Setups : IsSetup(Setups[n])

Tasks == {"loop", "now"}       \* dial_loop and sync_now

VARIABLES
  setup,     \* the instance this behaviour is of
  reported,  \* per host: which of Roles its bridge reports
  view,      \* per host: which of Roles its bridge last answered (last_peers), 0 for none
  edited,    \* per host: the paths changed on disk and not yet recorded
  budget,    \* per host and path: the edits its users may still make
  know,      \* per host and path: the joined versions
  vv,        \* per host: the replica's vector
  outgoing,  \* per host: the batches about to be fanned out, each with its source
  chosen,    \* per host: the dials decided on (peer not in the table) and not yet claimed
  dialing,   \* per host: the dials under way, each with the task that claimed it
  closing,   \* per host: the roles under which it is about to close skipped sessions, or 0
  sessions,  \* per host and peer: the stream of its session, or 0
  stream,    \* per stream: who dialled whom, and whether it is broken
  end,       \* per stream and host: that end of it
  calls,     \* how many dials sync_now has decided on
  cuts       \* how often the network has cut a stream

replicas == <<edited, budget, know, vv>>
vars == <<setup, reported, view, edited, budget, know, vv, outgoing, chosen, dialing, closing,
          sessions, stream, end, calls, cuts>>

Hosts == Setups[setup].hosts
Paths == Setups[setup].paths
Large == Setups[setup].large
Roles == Setups[setup].roles
Ids == 1..Setups[setup].streams
AllIds == UNION {1..Setups[n].streams : n \in DOMAIN Setups}
-----------------------------------------------------------------------------
\* The link rule (topology.rs).

NoRoles == [primary |-> NoDevice, secondary |-> NoDevice]
RolesOf(n) == IF n = 0 THEN NoRoles ELSE Roles[n]
Hub(r, h) == h \in {r.primary, r.secondary}
Star(r) == r.primary # NoDevice

Link(me, peer, r) ==
  IF Star(r) /\ ~Hub(r, me) /\ ~Hub(r, peer) THEN "skip"
  ELSE IF me < peer THEN "dial" ELSE "await"

MayCloseSkipped(me, n, open) ==
  n = 0 \/ Hub(RolesOf(n), me) \/ \E d \in open : Hub(RolesOf(n), d)
-----------------------------------------------------------------------------
\* Ends of streams.  pc: parked (dialled, not yet accepted), hello (in the exchange),
\* offered (its pages are sent), live, gone.  task: what the host still does with the
\* session: insert it, catch the peer up, then read and forward.
NoBatch == [p \in {} |-> NoVersions]

NoEnd == [pc |-> "none", task |-> "none", said |-> NoVersions, sent |-> NoVersions,
          delta |-> NoBatch, peerVV |-> NoVersions, inbox |-> <<>>, waiting |-> {},
          subscribed |-> FALSE, heard |-> <<>>]

Other(i, h) == IF stream[i].from = h THEN stream[i].to ELSE stream[i].from
EndsOf(i) == {stream[i].from, stream[i].to} \ {NoDevice}

\* A closed session in the table is the same as none: is_open is asked wherever one is used.
IsOpen(i, h) == i # 0 /\ end[i][h].pc = "live"
Has(h, d) == IsOpen(sessions[h][d], h)

\* An end that is over: what was announced is still forwarded.
Over(e) == [NoEnd EXCEPT !.pc = "gone", !.task = e.task, !.subscribed = e.subscribed, !.heard = e.heard]
Forgotten(i, h) ==
  [sessions EXCEPT ![h] = [d \in Hosts |-> IF @[d] = i THEN 0 ELSE @[d]]]
Devices(h) == {d \in Hosts : Has(h, d)}

\* What a replica sends to a peer that has merged v (Replica::delta_for).
DeltaFor(h, v) == [p \in {q \in Paths : ~Covers(v, know[h][q])} |-> know[h][p]]

\* What is known once batch b is merged, path by path.
Joined(k, b) == [p \in Paths |-> IF p \in DOMAIN b THEN MergeVV(k[p], b[p]) ELSE k[p]]

\* Local writes to `ps`, recorded in path order: each takes the next dot.
Recorded(h, k, ps) ==
  [p \in Paths |->
     IF p \in ps
     THEN AddDot(k[p], [replica |-> h,
                        counter |-> vv[h][h] + Cardinality({q \in ps : q <= p})])
     ELSE k[p]]
OwnVV(h, ps) == [vv[h] EXCEPT ![h] = @ + Cardinality(ps)]

\* apply: an unrecorded edit of a path that is brought is recorded first.
Apply(h, b) ==
  LET ps == edited[h] \cap DOMAIN b IN
  /\ know' = [know EXCEPT ![h] = Joined(Recorded(h, @, ps), b)]
  /\ edited' = [edited EXCEPT ![h] = @ \ ps]

Init ==
  LET Open0 == Setups[setup].open
      Between(h, d) == {i \in DOMAIN Open0 : {Open0[i].from, Open0[i].to} = {h, d}}
      live == [NoEnd EXCEPT !.pc = "live", !.task = "read", !.subscribed = TRUE] IN
  /\ setup \in DOMAIN Setups
  /\ reported = [h \in Hosts |-> 1] /\ view = [h \in Hosts |-> IF Open0 = <<>> THEN 0 ELSE 1]
  /\ edited = [h \in Hosts |-> {}] /\ budget = Setups[setup].edits
  /\ know = [h \in Hosts |-> [p \in Paths |-> NoVersions]]
  /\ vv = [h \in Hosts |-> NoVersions]
  /\ outgoing = [h \in Hosts |-> {}] /\ chosen = [h \in Hosts |-> {}]
  /\ dialing = [h \in Hosts |-> {}] /\ closing = [h \in Hosts |-> 0]
  /\ sessions = [h \in Hosts |-> [d \in Hosts |->
       IF Between(h, d) = {} THEN 0 ELSE CHOOSE i \in Between(h, d) : TRUE]]
  /\ stream = [i \in Ids |-> IF i \in DOMAIN Open0
                             THEN [from |-> Open0[i].from, to |-> Open0[i].to, broken |-> FALSE]
                             ELSE [from |-> NoDevice, to |-> NoDevice, broken |-> FALSE]]
  /\ end = [i \in Ids |-> [h \in Hosts |->
       IF i \in DOMAIN Open0 /\ h \in {Open0[i].from, Open0[i].to} THEN live ELSE NoEnd]]
  /\ calls = 0 /\ cuts = 0
-----------------------------------------------------------------------------
\* Commits and fan-out.

\* A user changes a file.
Edit(h, p) ==
  /\ budget[h][p] > 0 /\ p \notin edited[h]
  /\ edited' = [edited EXCEPT ![h] = @ \cup {p}]
  /\ budget' = [budget EXCEPT ![h][p] = @ - 1]
  /\ UNCHANGED <<setup, reported, view, know, vv, outgoing, chosen, dialing, closing, sessions,
                 stream, end, calls, cuts>>

\* The scan after a write or a watcher's report; the sessions are told once the replica
\* is unlocked.
Scan(h) ==
  LET k == Recorded(h, know[h], edited[h]) IN
  /\ edited[h] # {}
  /\ know' = [know EXCEPT ![h] = k]
  /\ vv' = [vv EXCEPT ![h] = OwnVV(h, edited[h])]
  /\ outgoing' = [outgoing EXCEPT ![h] = @ \cup
       {[batch |-> [p \in edited[h] |-> k[p]], source |-> NoDevice]}]
  /\ edited' = [edited EXCEPT ![h] = {}]
  /\ UNCHANGED <<setup, reported, view, budget, chosen, dialing, closing, sessions, stream, end, calls, cuts>>

\* What the far end of i receives when h pushes `batch`.
Pushed(e, i, h, batch) ==
  [e EXCEPT ![i][Other(i, h)].inbox = IF end[i][Other(i, h)].pc = "gone" THEN @
                                      ELSE Append(@, batch)]

FanOutTo(h, o) ==
  {d \in Hosts : /\ d # o.source /\ Has(h, d)
                 /\ \E p \in DOMAIN o.batch : ~Covers(end[sessions[h][d]][h].peerVV, o.batch[p])}

FanOut(h) ==
  \E o \in outgoing[h] :
    LET to == FanOutTo(h, o) IN
    /\ outgoing' = [outgoing EXCEPT ![h] = @ \ {o}]
    /\ end' = [i \in Ids |-> [g \in Hosts |->
         IF \E d \in to : sessions[h][d] = i /\ g = d /\ end[i][g].pc # "gone"
         THEN [end[i][g] EXCEPT !.inbox = Append(@, o.batch)] ELSE end[i][g]]]
    /\ UNCHANGED <<setup, replicas, reported, view, chosen, dialing, closing, sessions, stream, calls, cuts>>
-----------------------------------------------------------------------------
\* Dialling and accepting.

\* The roles its bridge reports change.
Elect(h) ==
  /\ reported[h] < Len(Roles)
  /\ reported' = [reported EXCEPT ![h] = @ + 1]
  /\ UNCHANGED <<setup, replicas, view, outgoing, chosen, dialing, closing, sessions, stream, end, calls, cuts>>

\* A walk asks for the peers and finds one to dial that has no session.  The dial loop
\* dials one peer after the other.
Choose(h, t, d) ==
  /\ d # h /\ <<t, d>> \notin chosen[h]
  /\ t = "loop" => \A e \in Hosts : <<t, e>> \notin chosen[h] \cup dialing[h]
  /\ t = "now" => calls < Setups[setup].calls
  /\ calls' = IF t = "now" THEN calls + 1 ELSE calls
  /\ Link(h, d, RolesOf(reported[h])) = "dial"
  /\ ~Has(h, d)
  /\ view' = [view EXCEPT ![h] = reported[h]]
  /\ chosen' = [chosen EXCEPT ![h] = @ \cup {<<t, d>>}]
  /\ UNCHANGED <<setup, replicas, reported, outgoing, dialing, closing, sessions, stream, end, cuts>>

\* The bridge answers a walk that finds nobody to dial.
Ask(h) ==
  /\ view[h] # reported[h]
  /\ view' = [view EXCEPT ![h] = reported[h]]
  /\ UNCHANGED <<setup, replicas, reported, outgoing, chosen, dialing, closing, sessions, stream, end,
                 calls, cuts>>

\* Nothing refers to stream i any more.
Free(i) ==
  \A h \in Hosts : /\ end[i][h].pc \in {"none", "gone"} /\ end[i][h].task \in {"none", "read"}
                   /\ end[i][h].heard = <<>>

\* It claims the dial and the bridge opens a stream; the Hello goes out.
Dial(h, t, d) ==
  \E i \in Ids :
    /\ <<t, d>> \in chosen[h] /\ \A u \in Tasks : <<u, d>> \notin dialing[h]
    /\ Free(i) /\ \A j \in Ids : j < i => ~Free(j)
    /\ chosen' = [chosen EXCEPT ![h] = @ \ {<<t, d>>}]
    /\ dialing' = [dialing EXCEPT ![h] = @ \cup {<<t, d>>}]
    /\ stream' = [stream EXCEPT ![i] = [from |-> h, to |-> d, broken |-> FALSE]]
    /\ end' = [end EXCEPT ![i][h] = [NoEnd EXCEPT !.pc = "hello", !.said = vv[h]],
                          ![i][d] = [NoEnd EXCEPT !.pc = "parked"]]
    /\ UNCHANGED <<setup, replicas, reported, view, outgoing, closing, sessions, calls, cuts>>

\* The peer is being dialled already, or no stream could be opened.
DialNothing(h, t, d) ==
  /\ <<t, d>> \in chosen[h]
  /\ chosen' = [chosen EXCEPT ![h] = @ \ {<<t, d>>}]
  /\ UNCHANGED <<setup, replicas, reported, view, outgoing, dialing, closing, sessions, stream, end, calls, cuts>>

\* The end of a session or of an attempt at h: its claim on the dial goes with it.
Released(i, h) ==
  IF stream[i].from = h /\ end[i][h].task # "read"
  THEN [dialing EXCEPT ![h] = {c \in @ : c[2] # stream[i].to}] ELSE dialing

Accept(i, h) ==
  /\ end[i][h].pc = "parked" /\ ~stream[i].broken
  /\ Link(h, stream[i].from, RolesOf(view[h])) # "skip"
  /\ end' = [end EXCEPT ![i][h].pc = "hello", ![i][h].said = vv[h]]
  /\ UNCHANGED <<setup, replicas, reported, view, outgoing, chosen, dialing, closing, sessions, stream, calls, cuts>>

\* should_skip: both are outside the star, by the roles last answered here.
Skip(i, h) ==
  /\ end[i][h].pc = "parked" /\ ~stream[i].broken
  /\ Link(h, stream[i].from, RolesOf(view[h])) = "skip"
  /\ end' = [end EXCEPT ![i][h].pc = "gone"]
  /\ stream' = [stream EXCEPT ![i].broken = TRUE]
  /\ UNCHANGED <<setup, replicas, reported, view, outgoing, chosen, dialing, closing, sessions, calls, cuts>>

\* The exchange: pages for the other's Hello, then both sides commit and go live.
Offer(i, h) ==
  /\ end[i][h].pc = "hello" /\ end[i][Other(i, h)].pc \in {"hello", "offered"}
  /\ end' = [end EXCEPT ![i][h].pc = "offered", ![i][h].sent = vv[h],
                        ![i][h].delta = DeltaFor(h, end[i][Other(i, h)].said)]
  /\ UNCHANGED <<setup, replicas, reported, view, outgoing, chosen, dialing, closing, sessions, stream, calls, cuts>>

\* A mutant of PeerVVAtLive: the vector of now, not the one the pages were drawn up from.
PeerVVOfNow(i, h) == MergeVV(end[i][Other(i, h)].said, vv[h])

\* What a peer has once the exchange is over: what it said, and what it was sent.
PeerVVAtLive(i, h) == MergeVV(end[i][Other(i, h)].said, end[i][h].sent)

\* A mutant of Claimed: the vector the peer has by now.
ClaimedOfNow(i, h) == vv[Other(i, h)]

\* What h has merged with the exchange: what the peer said before it drew up its pages.
Claimed(i, h) == end[i][Other(i, h)].said

GoLive(i, h) ==
  LET peer == end[i][Other(i, h)]
      ps == edited[h] \cap DOMAIN peer.delta IN
  /\ end[i][h].pc = "offered" /\ peer.pc \in {"offered", "live"}
  /\ Apply(h, peer.delta)
  /\ vv' = [vv EXCEPT ![h] = MergeVV(OwnVV(h, ps), Claimed(i, h))]
  /\ LET mine == [end[i][h] EXCEPT !.pc = "live", !.task = "insert",
                                   !.peerVV = PeerVVAtLive(i, h)]
         done(e) == [e EXCEPT !.said = NoVersions, !.sent = NoVersions, !.delta = NoBatch] IN
     end' = [end EXCEPT ![i] = IF peer.pc = "offered" THEN [@ EXCEPT ![h] = mine]
                               ELSE [@ EXCEPT ![h] = done(mine), ![Other(i, h)] = done(peer)]]
  /\ UNCHANGED <<setup, budget, reported, view, outgoing, chosen, dialing, closing, sessions, stream, calls, cuts>>

\* A mutant of Keeps: the end that dialled keeps its stream.
KeepsDialled(i, h) == stream[i].from = h

\* The stream whose dialler has the lower id stays.
Keeps(i, h) == (h < Other(i, h)) = (stream[i].from = h)

\* The table: the stream that stays replaces whatever session the peer had; the one that
\* loses is dropped.
Insert(i, h) ==
  LET d == Other(i, h)
      old == sessions[h][d]
      drop == IF old \in Ids \ {i} THEN {old} ELSE {} IN
  /\ end[i][h].task = "insert"
  /\ \/ /\ Keeps(i, h)
        /\ sessions' = [sessions EXCEPT ![h][d] = IF IsOpen(i, h) THEN i ELSE 0]
        /\ end' = [j \in Ids |->
             IF j = i THEN [end[i] EXCEPT ![h].task = "catch_up", ![h].subscribed = TRUE]
             ELSE IF j \in drop THEN [end[j] EXCEPT ![h] = Over(@)] ELSE end[j]]
        /\ stream' = [j \in Ids |-> IF j \in drop THEN [stream[j] EXCEPT !.broken = TRUE]
                                    ELSE stream[j]]
        /\ UNCHANGED dialing
     \/ /\ ~Keeps(i, h)
        /\ end' = [end EXCEPT ![i][h] = [Over(@) EXCEPT !.task = "none"]]
        /\ stream' = [stream EXCEPT ![i].broken = TRUE]
        /\ dialing' = Released(i, h)
        /\ UNCHANGED sessions
  /\ UNCHANGED <<setup, replicas, reported, view, outgoing, chosen, closing, calls, cuts>>

\* A mutant of Lacks: nothing is looked up.
LacksNothing(h, j) == NoBatch

\* What the peer of h's stream j has not been told.
Lacks(h, j) == IF j = 0 THEN NoBatch ELSE DeltaFor(h, end[j][h].peerVV)

\* Whatever session the table has for the peer by now is told what it lacks.
CatchUp(i, h) ==
  LET d == Other(i, h)
      j == sessions[h][d]
      delta == Lacks(h, j)
      read == [end EXCEPT ![i][h].task = "read"] IN
  /\ end[i][h].task = "catch_up"
  /\ end' = IF DOMAIN delta # {} /\ IsOpen(j, h) THEN Pushed(read, j, h, delta) ELSE read
  /\ dialing' = Released(i, h)
  /\ UNCHANGED <<setup, replicas, reported, view, outgoing, chosen, closing, sessions, stream, calls, cuts>>
-----------------------------------------------------------------------------
\* The live phase.

\* A batch announced to the reader, if it has subscribed; the oldest goes if it is slow.
Announce(e, b) ==
  IF ~e.subscribed THEN e
  ELSE [e EXCEPT !.heard = Append(IF Len(@) = Setups[setup].queue THEN Tail(@) ELSE @, b)]

Receive(i, h) ==
  LET b == Head(end[i][h].inbox)
      ps == edited[h] \cap DOMAIN b
      slow == \E p \in DOMAIN b \cap Large : ~Covers(know[h][p], b[p])
      e == [end[i][h] EXCEPT !.inbox = Tail(@),
              !.peerVV = [r \in Replicas |-> LET ns == {b[p][r] : p \in DOMAIN b} \cup {@[r]}
                                          IN CHOOSE n \in ns : \A m \in ns : m <= n]] IN
  /\ end[i][h].pc = "live" /\ end[i][h].inbox # <<>>
  /\ Apply(h, b)
  /\ vv' = [vv EXCEPT ![h] = OwnVV(h, ps)]
  /\ end' = [end EXCEPT ![i][h] = IF slow THEN [e EXCEPT !.waiting = @ \cup {b}]
                                  ELSE Announce(e, b)]
  /\ UNCHANGED <<setup, budget, reported, view, outgoing, chosen, dialing, closing, sessions, stream, calls, cuts>>

\* The content a batch waited for has come, or nobody has it.
Answered(i, h) ==
  \E b \in end[i][h].waiting :
    /\ end[i][h].pc = "live"
    /\ end' = [end EXCEPT ![i][h] = Announce([end[i][h] EXCEPT !.waiting = @ \ {b}], b)]
    /\ UNCHANGED <<setup, replicas, reported, view, outgoing, chosen, dialing, closing, sessions,
                   stream, calls, cuts>>

\* spawn_reader: forward to everyone but the source.
Forward(i, h) ==
  /\ end[i][h].task = "read" /\ end[i][h].heard # <<>>
  /\ end' = [end EXCEPT ![i][h].heard = Tail(@)]
  /\ outgoing' = [outgoing EXCEPT ![h] = @ \cup
       {[batch |-> Head(end[i][h].heard), source |-> Other(i, h)]}]
  /\ UNCHANGED <<setup, replicas, reported, view, chosen, dialing, closing, sessions, stream, calls, cuts>>
-----------------------------------------------------------------------------
\* Endings.

\* The walk sees that it may close what the star does not need, then closes it.
CheckSkipped(h) ==
  /\ MayCloseSkipped(h, reported[h], Devices(h))
  /\ \E d \in Hosts : sessions[h][d] # 0 /\ Link(h, d, RolesOf(reported[h])) = "skip"
  /\ closing[h] = 0
  /\ view' = [view EXCEPT ![h] = reported[h]]
  /\ closing' = [closing EXCEPT ![h] = reported[h]]
  /\ UNCHANGED <<setup, replicas, reported, outgoing, chosen, dialing, sessions, stream, end, calls, cuts>>

CloseSkipped(h) ==
  LET shut == {d \in Hosts : sessions[h][d] # 0 /\ Link(h, d, RolesOf(closing[h])) = "skip"}
      gone == {sessions[h][d] : d \in shut} IN
  /\ closing[h] # 0
  /\ closing' = [closing EXCEPT ![h] = 0]
  /\ sessions' = [sessions EXCEPT ![h] = [d \in Hosts |-> IF d \in shut THEN 0 ELSE @[d]]]
  /\ end' = [i \in Ids |-> IF i \in gone THEN [end[i] EXCEPT ![h] = Over(@)] ELSE end[i]]
  /\ stream' = [i \in Ids |-> IF i \in gone THEN [stream[i] EXCEPT !.broken = TRUE] ELSE stream[i]]
  /\ UNCHANGED <<setup, replicas, reported, view, outgoing, chosen, dialing, calls, cuts>>

\* The network cuts a stream.
Cut(i) ==
  /\ cuts < Setups[setup].cuts /\ stream[i].from # NoDevice /\ ~stream[i].broken
  /\ cuts' = cuts + 1
  /\ stream' = [stream EXCEPT ![i].broken = TRUE]
  /\ UNCHANGED <<setup, replicas, reported, view, outgoing, chosen, dialing, closing, sessions, end, calls>>

\* An end notices: the live reader stops, or the exchange or the accept fails.
Notice(i, h) ==
  /\ stream[i].broken /\ end[i][h].pc \notin {"none", "gone"}
  /\ end' = [end EXCEPT ![i][h] = Over(@)]
  /\ sessions' = Forgotten(i, h)
  /\ dialing' = IF end[i][h].pc = "live" THEN dialing ELSE Released(i, h)
  /\ UNCHANGED <<setup, replicas, reported, view, outgoing, chosen, closing, stream, calls, cuts>>
-----------------------------------------------------------------------------
StreamStep(i, h) ==
  \/ Accept(i, h) \/ Skip(i, h) \/ Offer(i, h) \/ GoLive(i, h) \/ Insert(i, h) \/ CatchUp(i, h)
  \/ Receive(i, h) \/ Answered(i, h) \/ Forward(i, h) \/ Notice(i, h)

Next ==
  \/ \E h \in Hosts :
       \/ \E p \in Paths : Edit(h, p)
       \/ Scan(h) \/ FanOut(h) \/ Elect(h) \/ Ask(h) \/ CheckSkipped(h) \/ CloseSkipped(h)
       \/ \E t \in Tasks, d \in Hosts : Choose(h, t, d) \/ Dial(h, t, d) \/ DialNothing(h, t, d)
  \/ \E i \in Ids : Cut(i) \/ \E h \in Hosts : h \in EndsOf(i) /\ StreamStep(i, h)

Spec == Init /\ [][Next]_vars

\* Tasks run on; the watcher and the server's writes scan; the dial loop walks for ever and,
\* dialling again and again, opens a stream again and again; roles settle.
Fairness ==
  /\ \A h \in Replicas :
       /\ WF_vars(h \in Hosts /\ Scan(h)) /\ WF_vars(h \in Hosts /\ FanOut(h))
       /\ WF_vars(h \in Hosts /\ Elect(h)) /\ WF_vars(h \in Hosts /\ Ask(h))
       /\ WF_vars(h \in Hosts /\ CheckSkipped(h)) /\ WF_vars(h \in Hosts /\ CloseSkipped(h))
       /\ \A d \in {g \in Replicas : h < g} :
            /\ WF_vars(d \in Hosts /\ Choose(h, "loop", d))
            /\ SF_vars(d \in Hosts /\ Dial(h, "loop", d))
            /\ \A t \in Tasks : WF_vars(d \in Hosts /\ DialNothing(h, t, d))
  /\ \A i \in AllIds, h \in Replicas : WF_vars(i \in Ids /\ h \in EndsOf(i) /\ StreamStep(i, h))

FairSpec == Spec /\ Fairness
-----------------------------------------------------------------------------
\* Every host's table names streams of its own, and a claim on a dial is a stream of it.
TypeOK ==
  /\ view \in [Hosts -> 0..Len(Roles)] /\ closing \in [Hosts -> 0..Len(Roles)]
  /\ sessions \in [Hosts -> [Hosts -> {0} \cup Ids]]
  /\ know \in [Hosts -> [Paths -> VersionVector]] /\ vv \in [Hosts -> VersionVector]
  /\ \A h, d \in Hosts : /\ sessions[h][d] # 0 => EndsOf(sessions[h][d]) = {h, d}
                         /\ (\E t \in Tasks : <<t, d>> \in dialing[h]) =>
                              \E i \in Ids : stream[i].from = h /\ stream[i].to = d /\ ~Free(i)

\* The peer's vector of a session covers only what the peer has joined or this stream is
\* bringing it ("Everything the peer is known to have", live.rs): fan_out and catch_up leave
\* out what it covers.
Coming(i, h) ==
  IF end[i][h].pc = "offered" THEN {end[i][Other(i, h)].delta}
  ELSE {end[i][h].inbox[n] : n \in DOMAIN end[i][h].inbox}

PeerVVIsHonest ==
  \A i \in Ids, h \in Hosts :
    LET peer == Other(i, h) IN
    IsOpen(i, h) /\ end[i][peer].pc # "gone" =>
      \A p \in Paths : Covers(end[i][h].peerVV, know[h][p]) =>
        \A r \in Replicas :
          \/ know[h][p][r] <= know[peer][p][r]
          \/ \E b \in Coming(i, peer) : p \in DOMAIN b /\ know[h][p][r] <= b[p][r]

Matched(a, b) ==
  /\ sessions[a][b] # 0 /\ sessions[a][b] = sessions[b][a]
  /\ IsOpen(sessions[a][b], a) /\ IsOpen(sessions[a][b], b)

\* However dials cross, replace each other, are refused on stale roles or are cut, every
\* pair that links comes to keep one stream, the same at both ends, and every pair outside
\* the star comes to keep none.
SettlesOnOneStream ==
  <>[](\A a, b \in Hosts :
         a < b => IF Link(a, b, RolesOf(Len(Roles))) = "skip" THEN ~Has(a, b) /\ ~Has(b, a)
                  ELSE Matched(a, b))

\* Every recorded edit reaches every host.
Delivered ==
  <>[](\A a, b \in Hosts : edited[a] = {} /\ know[a] = know[b])

\* What the hosts know and claim; hosts and paths that the instance lacks do nothing.
AllPaths == UNION {Setups[n].paths : n \in DOMAIN Setups}

Knowledge ==
  [h \in Replicas |-> [p \in AllPaths |->
     IF h \in Hosts /\ p \in Paths THEN know[h][p] ELSE NoVersions]]

Vectors == [h \in Replicas |-> IF h \in Hosts THEN vv[h] ELSE NoVersions]

Durable == INSTANCE Replication WITH Paths <- AllPaths, know <- Knowledge, vv <- Vectors

\* Exchanges, catching up, fan-out and forwarding, in any order and over streams that break,
\* only ever spread the writes there are, and a replica claims none that it lacks (commit_session).
SpreadsWrites == Durable!Spec
=============================================================================
