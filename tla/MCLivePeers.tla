---------------------------- MODULE MCLivePeers -----------------------------
(* Two hosts, or three around a hub.  A run takes some of the instances below; the last *)
(* four show a property violated, and the README says which one. *)
EXTENDS LivePeers, TLC

Mesh == <<[primary |-> NoDevice, secondary |-> NoDevice]>>
Star2 == <<[primary |-> 2, secondary |-> NoDevice]>>
Handover == <<[primary |-> 1, secondary |-> NoDevice], [primary |-> 3, secondary |-> NoDevice]>>
Dialled(x, y) == [from |-> x, to |-> y]
StarUp == <<Dialled(1, 2), Dialled(2, 3)>>

Own(hs, ps) == [h \in hs |-> [p \in ps |-> IF p = h THEN 1 ELSE 0]]
AtOne(hs, ps) == [h \in hs |-> [p \in ps |-> IF h = 1 THEN 1 ELSE 0]]

Two == [hosts |-> {1, 2}, paths |-> {1}, large |-> {}, edits |-> AtOne({1, 2}, {1}),
        roles |-> Mesh, open |-> <<>>, queue |-> 1, streams |-> 1, calls |-> 0, cuts |-> 0]
Three == [Two EXCEPT !.hosts = {1, 2, 3}, !.edits = AtOne({1, 2, 3}, {1}), !.roles = Star2,
                     !.open = StarUp, !.streams = 2]

\* Two hosts edit, dial, exchange, go live and are cut.
Pair == [Two EXCEPT !.paths = {1, 2}, !.large = {2}, !.edits = Own({1, 2}, {1, 2}), !.cuts = 1]
\* The dial loop and sync_now dial one peer.
Dials == [Two EXCEPT !.paths = {}, !.edits = Own({1, 2}, {}), !.streams = 2, !.calls = 1, !.cuts = 1]
\* The hub's role moves from 1 to 3.
NewHub == [Three EXCEPT !.paths = {}, !.edits = Own({1, 2, 3}, {}), !.roles = Handover,
                        !.open = <<Dialled(1, 2), Dialled(1, 3)>>, !.streams = 3]
\* Leaves and hub edit at once.
Forwarded == [Three EXCEPT !.paths = {1, 2, 3}, !.edits = Own({1, 2, 3}, {1, 2, 3}), !.queue = 2]

MCSetups == ("pair" :> Pair) @@ ("dials" :> Dials) @@ ("new_hub" :> NewHub) @@ ("forwarded" :> Forwarded)

\* Both edit the same path over a session that is up.
MCSamePath == "same_path" :> [Two EXCEPT !.edits = [h \in {1, 2} |-> [p \in {1} |-> 1]], !.open = <<Dialled(1, 2)>>]
\* A leaf returns to its hub.
MCHubExchange == "hub_exchange" :> [Three EXCEPT !.open = <<Dialled(2, 3)>>]
\* A reader slower than the writer.
MCLag == "lag" :> [Three EXCEPT !.paths = {1, 2, 3}, !.edits = AtOne({1, 2, 3}, {1, 2, 3})]
\* A hub still waits for the content of a first batch when a second one arrives.
MCPeerVV == "peer_vv" :>
  [Three EXCEPT !.paths = {1, 2}, !.large = {1},
     !.edits = [h \in {1, 2, 3} |-> [p \in {1, 2} |-> IF h = 1 \/ (h = 3 /\ p = 2) THEN 1 ELSE 0]]]
=============================================================================
