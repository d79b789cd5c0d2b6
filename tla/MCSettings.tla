----------------------------- MODULE MCSettings -----------------------------
(* One or two clients, two values, and the batches that tell the parts apart. *)
EXTENDS Settings, TLC

CONSTANTS a, b, c1, c2, w1, w2

\* Both processes' keys; the server's two files; one key; the bridge's keys.
MixedBatch == ("live" :> a) @@ ("embed" :> a)
FullBatch == [k \in Keys |-> b]
UnsetBatch == ("live" :> Unset) @@ ("net" :> Unset)
TwoFiles == ("later" :> a) @@ ("restart" :> a)
LiveBatch == "live" :> a
RestartBatch == "restart" :> b
LaterBatch == ("later" :> b) @@ ("live" :> Unset)

MixedBatches == {MixedBatch, FullBatch, UnsetBatch}
OwnBatches == {TwoFiles, LiveBatch, RestartBatch}
DeviceBatches == {RestartBatch}

\* The bridge refuses one pair of values together, the server another, of its two files.
RefusedPairs == {("embed" :> a) @@ ("net" :> b), ("live" :> a) @@ ("restart" :> b)}

Base == [clients |-> {c1}, workspaces |-> {w1}, batches |-> {}, scopes |-> {"home"}, refreshers |-> {},
         tasks |-> {}, kinds |-> {}, calls |-> 1, events |-> 0, faults |-> 0]

\* Two clients write anything; the server is restarted, or its process dies.
Writes == [Base EXCEPT !.clients = {c1, c2}, !.batches = MixedBatches \cup OwnBatches \cup {LaterBatch},
             !.scopes = {"home", "device"}, !.kinds = {"restart", "kill"}, !.calls = 2, !.faults = 1]
\* One after the other, across a restart.
Restarts == [Base EXCEPT !.clients = {c1, c2}, !.batches = {TwoFiles, RestartBatch, LaterBatch},
               !.kinds = {"restart"}, !.calls = 3, !.faults = 1]
\* A client, the bridge's command line and its own tasks; the bridge ends.
AtBridge == [Base EXCEPT !.batches = MixedBatches, !.tasks = {"cli", "embed", "tick"},
                         !.kinds = {"bridge"}, !.events = 2, !.faults = 1]
\* Files of the server move under a batch, and the selection does.
Moves == [Base EXCEPT !.workspaces = {w1, w2}, !.batches = MixedBatches \cup OwnBatches, !.events = 2,
            !.refreshers = {"watch", "current"}, !.kinds = {"edit", "remove"}]
\* Files are garbled as well, writes fail, and others write while the server starts.
Events == [Base EXCEPT !.workspaces = {w1, w2}, !.batches = OwnBatches, !.events = 2, !.faults = 2,
             !.refreshers = {"watch", "reindex", "current"},
             !.kinds = {"restart", "garbled", "remove", "offline", "io"}]

MCSetups == ("writes" :> Writes) @@ ("restarts" :> Restarts) @@ ("at_bridge" :> AtBridge) @@ ("moves" :> Moves)
              @@ ("events" :> Events)

\* Each of these shows a property violated; the README says which one.
MCRefresh == "refresh" :> [Base EXCEPT !.batches = OwnBatches, !.refreshers = {"watch"}, !.events = 1]
MCMixed == "mixed" :> [Base EXCEPT !.batches = MixedBatches, !.kinds = {"edit"}, !.events = 1]
MCTwoFiles == "two_files" :> [Base EXCEPT !.batches = OwnBatches, !.faults = 1, !.kinds = {"io"}]
MCKilled == "killed" :> [Base EXCEPT !.batches = OwnBatches, !.faults = 1, !.kinds = {"kill"}]
MCGarbled ==
  "garbled" :> [Base EXCEPT !.batches = DeviceBatches, !.refreshers = {"watch"}, !.events = 1, !.faults = 1, !.kinds = {"garbled"}]
MCStart ==
  "start" :> [Base EXCEPT !.batches = OwnBatches, !.calls = 0, !.events = 1, !.faults = 1, !.kinds = {"restart", "edit"}]
=============================================================================
