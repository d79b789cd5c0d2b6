----------------------------- MODULE DataPlane ------------------------------
(***************************************************************************)
(* How a peer's stream reaches the app server that owns its workspace      *)
(* (sapphire-framework-bridge: data.rs inbound, Tickets; control.rs        *)
(* register, Owners, Session, Wakes, serve_connection).                    *)
(*                                                                         *)
(* Three things run side by side in the bridge: the inbound loop, which    *)
(* parks one stream at a time and announces it to the owner; the register  *)
(* handler of each control connection; and the loop that serves each       *)
(* connection, which drops its registration when the connection ends.      *)
(* They share the tickets, the owners and the routes, each behind a lock   *)
(* of its own that is held for one step only.                              *)
(*                                                                         *)
(* One application with one workspace; every peer is a member and dials    *)
(* again whenever its stream ends.  Left out: the bytes that are copied,   *)
(* pairing and hello streams, and the workgroup's own workspace.           *)
(***************************************************************************)
EXTENDS Naturals, FiniteSets

CONSTANTS
  Peers,      \* devices that ask for the workspace
  MaxConns,   \* bound: control connections of the app server
  MaxStops,   \* bound: times the app server stops
  Registered, \* whether the server has registered before the bridge's start
  Wakes,      \* whether the bridge starts the server (wake_on_sync, Spawned)
  Instances   \* who dials and what may be late or fail: the sets of which a behaviour has one each

ASSUME DataPlaneAssumption ==
  /\ IsFiniteSet(Peers) /\ MaxConns \in Nat /\ MaxStops \in Nat /\ Wakes \in BOOLEAN
  /\ Registered \in BOOLEAN
  /\ Instances \subseteq [peers : SUBSET Peers, faults : SUBSET {"late_end", "late_handler", "publish"}]

Conns == 1..MaxConns

VARIABLES
  instance,   \* the instance this behaviour is of
  server,     \* the app server: "down", "starting", "up"
  stops,      \* how often it has stopped
  conn,       \* per control connection: "none", "open", "ended", "gone"
  reg,        \* per connection: where its register handler is
  recorded,   \* the connections whose Session has the application
  drained,    \* per connection: the streams its handler is announcing
  route,      \* whether the table has the workspace
  owner,      \* the connection that Owners has for the application, 0 for none
  ticket,     \* per peer: "none", "dialled", "parked", "claimed"
  held,       \* the streams whose announcement waits with them
  loop,       \* the inbound loop: its step, its stream and the handle it found
  inbox,      \* per connection: announcements the server has not taken yet
  mayWake     \* whether WAKE_INTERVAL has passed since the last attempt

vars == <<instance, server, stops, conn, reg, recorded, drained, route, owner, ticket, held, loop, inbox,
          mayWake>>
app == <<instance, server, stops>>
control == <<conn, reg, recorded, drained, route, owner>>

Faults == instance.faults

Init ==
  /\ instance \in Instances
  /\ server = (IF Registered THEN "down" ELSE "starting") /\ stops = 0
  /\ conn = [c \in Conns |-> "none"] /\ reg = [c \in Conns |-> "none"] /\ recorded = {}
  /\ drained = [c \in Conns |-> {}] /\ route = Registered /\ owner = 0
  /\ ticket = [p \in Peers |-> "none"] /\ held = {}
  /\ loop = [pc |-> "accept", s |-> {}, peer |-> 0]
  /\ inbox = [c \in Conns |-> {}] /\ mayWake = TRUE
-----------------------------------------------------------------------------
\* The inbound loop.

Dial(p) ==
  /\ p \in instance.peers /\ ticket[p] = "none" /\ ticket' = [ticket EXCEPT ![p] = "dialled"]
  /\ UNCHANGED <<app, control, held, loop, inbox, mayWake>>

\* The peer is authorized, the workspace has a route, and the stream is parked; without a
\* route the bridge hangs up, and the peer will dial again.
Park(p) ==
  /\ loop.pc = "accept" /\ ticket[p] = "dialled"
  /\ IF route
     THEN /\ ticket' = [ticket EXCEPT ![p] = "parked"]
          /\ loop' = [pc |-> "owner", s |-> {p}, peer |-> 0]
     ELSE ticket' = [ticket EXCEPT ![p] = "none"] /\ UNCHANGED loop
  /\ UNCHANGED <<app, control, held, inbox, mayWake>>

\* owners().peer(): who is told, as of now.
FindOwner ==
  /\ loop.pc = "owner"
  /\ loop' = [loop EXCEPT !.pc = IF owner = 0 THEN "hold" ELSE "announce", !.peer = owner]
  /\ UNCHANGED <<app, control, ticket, held, inbox, mayWake>>

NextStream == [pc |-> "accept", s |-> {}, peer |-> 0]

\* A notification goes out on a connection; on one that has ended it is lost.
Notified(c, streams) == IF conn[c] = "open" THEN [inbox EXCEPT ![c] = @ \cup streams] ELSE inbox

Announce ==
  /\ loop.pc = "announce"
  /\ inbox' = Notified(loop.peer, loop.s) /\ loop' = NextStream
  /\ UNCHANGED <<app, control, ticket, held, mayWake>>

Hold ==
  /\ loop.pc = "hold"
  /\ held' = held \cup {p \in loop.s : ticket[p] = "parked"}
  /\ loop' = [loop EXCEPT !.pc = "wake"]
  /\ UNCHANGED <<app, control, ticket, inbox, mayWake>>

\* A mutant of WakeClaim: an attempt is recorded for good.
WakeClaimOnce == mayWake /\ stops = 0

\* Wakes::claim: one attempt in an interval.
WakeClaim == mayWake

\* nobody_home: the bridge starts a Spawned owner; one that runs already does not start twice.
NobodyHome ==
  /\ loop.pc = "wake" /\ loop' = NextStream
  /\ \/ /\ Wakes /\ WakeClaim /\ mayWake' = FALSE
        /\ server' = IF server = "down" THEN "starting" ELSE server
     \/ ~(Wakes /\ WakeClaim) /\ UNCHANGED <<server, mayWake>>
  /\ UNCHANGED <<instance, stops, control, ticket, held, inbox>>

WakeIntervalEnds ==
  /\ ~mayWake /\ mayWake' = TRUE
  /\ UNCHANGED <<app, control, ticket, held, loop, inbox>>

\* A ticket's lifetime is far longer than any step that would still lead to its claim.
OnItsWay(p) ==
  \/ p \in loop.s \/ server = "starting"
  \/ \E c \in Conns : conn[c] = "open" /\ (p \in inbox[c] \/ reg[c] \notin {"done", "failed"})

\* retain: an expired ticket goes with its announcement.
Swept(p) == held \ {p}

Expire(p) ==
  /\ ticket[p] = "parked" /\ ~OnItsWay(p)
  /\ ticket' = [ticket EXCEPT ![p] = "none"] /\ held' = Swept(p)
  /\ inbox' = [c \in Conns |-> inbox[c] \ {p}]
  /\ UNCHANGED <<app, control, loop, mayWake>>
-----------------------------------------------------------------------------
\* The app server.

Started ==
  /\ server = "starting" /\ server' = "up"
  /\ UNCHANGED <<instance, stops, control, ticket, held, loop, inbox, mayWake>>

\* A connection is made when there is none; the bridge may still be serving the one before.
Connect(c) ==
  /\ server = "up" /\ conn[c] = "none" /\ \A d \in Conns : d < c => conn[d] \in {"ended", "gone"}
  /\ "late_end" \in Faults \/ \A d \in Conns : conn[d] # "ended"
  /\ conn' = [conn EXCEPT ![c] = "open"] /\ reg' = [reg EXCEPT ![c] = "check"]
  /\ UNCHANGED <<app, recorded, drained, route, owner, ticket, held, loop, inbox, mayWake>>

\* answer: the ticket is claimed, once.
Claim(c, p) ==
  /\ conn[c] = "open" /\ p \in inbox[c] /\ server = "up"
  /\ inbox' = [inbox EXCEPT ![c] = @ \ {p}]
  /\ ticket' = IF ticket[p] = "parked" THEN [ticket EXCEPT ![p] = "claimed"] ELSE ticket
  /\ held' = IF ticket[p] = "parked" THEN held \ {p} ELSE held
  /\ UNCHANGED <<app, control, loop, mayWake>>

\* What the connections of a stopped server become.
Ended == [c \in Conns |-> IF conn[c] = "open" THEN "ended" ELSE conn[c]]

\* The server stops: its sessions end, and so does its connection.
Stop ==
  /\ server = "up" /\ stops < MaxStops /\ server' = "down" /\ stops' = stops + 1
  /\ conn' = Ended
  /\ ticket' = [p \in Peers |-> IF ticket[p] = "claimed" THEN "none" ELSE ticket[p]]
  /\ UNCHANGED <<instance, reg, recorded, drained, route, owner, held, loop, inbox, mayWake>>

\* Only the control connection breaks; the server will make another.
Break ==
  /\ server = "up" /\ stops < MaxStops /\ stops' = stops + 1
  /\ conn' = Ended /\ conn' # conn
  /\ UNCHANGED <<instance, server, reg, recorded, drained, route, owner, ticket, held, loop, inbox, mayWake>>
-----------------------------------------------------------------------------
\* The register handler, and the end of its connection.

\* The handler of a connection that is gone is aborted, unless it was running just then.
Runs(c) == conn[c] \in {"open", "ended"} \/ "late_handler" \in Faults

At(c, from, to) == reg[c] = from /\ Runs(c) /\ reg' = [reg EXCEPT ![c] = to]

Check(c) ==
  /\ At(c, "check", "publish") /\ route' = TRUE                       \* replace_app
  /\ UNCHANGED <<app, conn, recorded, drained, owner, ticket, held, loop, inbox, mayWake>>

\* publish_workspace writes the workgroup's files; its failure is the handler's.
Publish(c) ==
  /\ \/ At(c, "publish", "connect")
     \/ "publish" \in Faults /\ At(c, "publish", "failed")
  /\ UNCHANGED <<app, conn, recorded, drained, route, owner, ticket, held, loop, inbox, mayWake>>

\* A mutant of Recorded: a registration that replaces another is on no list.
RecordedIfFirst(c) == IF owner = 0 THEN recorded \cup {c} ELSE recorded

\* Session::record
Recorded(c) == recorded \cup {c}

\* Owners::connect: a second registration replaces the first.
OwnerConnect(c) ==
  /\ At(c, "connect", "drain") /\ owner' = c /\ recorded' = Recorded(c)
  /\ UNCHANGED <<app, conn, drained, route, ticket, held, loop, inbox, mayWake>>

Drain(c) ==
  /\ At(c, "drain", "announce") /\ drained' = [drained EXCEPT ![c] = held] /\ held' = {}
  /\ UNCHANGED <<app, conn, recorded, route, owner, ticket, loop, inbox, mayWake>>

AnnounceHeld(c) ==
  /\ At(c, "announce", "done") /\ inbox' = Notified(c, drained[c])
  /\ drained' = [drained EXCEPT ![c] = {}]
  /\ UNCHANGED <<app, conn, recorded, route, owner, ticket, held, loop, mayWake>>

\* Session::take, Owners::disconnect: the application's handle goes, whoever registered it.
Disconnected(c) == IF c \in recorded THEN 0 ELSE owner

ConnectionGone(c) ==
  /\ conn[c] = "ended" /\ conn' = [conn EXCEPT ![c] = "gone"]
  /\ owner' = Disconnected(c) /\ recorded' = recorded \ {c}
  /\ inbox' = [inbox EXCEPT ![c] = {}]
  /\ UNCHANGED <<app, reg, drained, route, ticket, held, loop, mayWake>>

Inbound == FindOwner \/ Announce \/ Hold \/ NobodyHome \/ \E p \in Peers : Park(p)
Handler(c) == Check(c) \/ Publish(c) \/ OwnerConnect(c) \/ Drain(c) \/ AnnounceHeld(c)

Next ==
  \/ Inbound \/ WakeIntervalEnds \/ Started \/ Stop \/ Break
  \/ \E p \in Peers : Dial(p) \/ Expire(p)
  \/ \E c \in Conns : Connect(c) \/ Handler(c) \/ ConnectionGone(c)
  \/ \E c \in Conns, p \in Peers : Claim(c, p)

Spec == Init /\ [][Next]_vars

\* The tasks of the bridge and of the server run, peers dial again, and time passes.
FairSpec ==
  /\ Spec /\ WF_vars(WakeIntervalEnds) /\ WF_vars(Started)
  /\ WF_vars(FindOwner) /\ WF_vars(Announce) /\ WF_vars(Hold) /\ WF_vars(NobodyHome)
  /\ \A p \in Peers : WF_vars(Dial(p)) /\ WF_vars(Expire(p)) /\ SF_vars(Park(p))
  /\ \A c \in Conns : WF_vars(Connect(c)) /\ WF_vars(Handler(c)) /\ WF_vars(ConnectionGone(c))
  /\ \A c \in Conns, p \in Peers : WF_vars(Claim(c, p))
-----------------------------------------------------------------------------
TypeOK ==
  /\ server \in {"down", "starting", "up"} /\ stops \in 0..MaxStops
  /\ conn \in [Conns -> {"none", "open", "ended", "gone"}]
  /\ recorded \subseteq Conns /\ owner \in 0..MaxConns /\ route \in BOOLEAN
  /\ ticket \in [Peers -> {"none", "dialled", "parked", "claimed"}]
  /\ held \subseteq {p \in Peers : ticket[p] = "parked"} /\ loop.s \subseteq Peers

\* A registration lasts as long as its control connection: the owner that streams are
\* announced to is never a connection that is gone (serve_connection).
OwnerIsConnected == owner # 0 => conn[owner] # "gone"

\* And it lasts as long: a server whose registration was answered is the owner while its
\* connection is open (Owners::disconnect).
ConnectedIsOwner == \A c \in Conns : conn[c] = "open" /\ reg[c] = "done" => owner = c

\* In whatever order the bridge notices the end of a server's connections and answers what they
\* registered, also where a newer one is there before the older one's end is: streams are
\* announced to none that is gone, unless its handler outlives it (serve_connection).
EndedOwnerLeaves == "late_handler" \notin Faults => OwnerIsConnected

\* Nothing is late: the end of a connection is noticed before the server makes its next one,
\* and no handler runs on after it.
InTime == Faults \cap {"late_end", "late_handler"} = {}

Online == owner # 0 /\ conn[owner] = "open"

\* Whatever stops and reconnects meanwhile, a member that keeps dialling comes to be served;
\* where ends or handlers are late, if the server is known as connected in the end (inbound,
\* nobody_home, register, answer).
Served == \A p \in Peers : p \in instance.peers /\ (InTime \/ <>[]Online) => <>[](ticket[p] = "claimed")

\* Once the owner is registered no announcement is left waiting with its stream (hold,
\* unannounced).
NothingHeld ==
  loop.pc = "accept" /\ owner # 0 /\ conn[owner] = "open" /\ reg[owner] = "done" => held = {}

\* A registration that ends in an error leaves no route of its own behind (register).
RefusedLeavesNoRoute == [][\A c \in Conns : reg[c] # "failed" /\ reg'[c] = "failed" => ~route']_vars
=============================================================================
