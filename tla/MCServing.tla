------------------------------ MODULE MCServing ------------------------------
(* One to three folders.  A run takes some of the instances below; those after MCSetups *)
(* each show a property violated, and the README says which one. *)
EXTENDS Serving, TLC
CONSTANTS a, b, c

Base == [roots |-> {a, b}, before |-> {a}, first |-> a, device |-> TRUE, connected |-> TRUE,
         operations |-> {}, overtaken |-> TRUE, slow |-> {}, ops |-> 1, conns |-> 1]

\* Workspaces are selected, moved and deleted.
Moves == [Base EXCEPT !.roots = {a, b, c}, !.before = {a, b}, !.device = FALSE, !.ops = 5,
            !.overtaken = FALSE, !.operations = {"select", "enable_sync", "relocate", "delete"}]
\* Workspaces are selected, moved and synced, and operations overtake each other.
Overtaken == [Base EXCEPT !.roots = {a, b, c}, !.before = {a, b}, !.ops = 4,
                !.operations = {"select", "enable_sync", "disable_sync", "relocate"}]
\* Workspaces are selected, placed and removed, and sync is turned off and on.
Switch == [Base EXCEPT !.device = FALSE, !.ops = 5,
             !.operations = {"select", "enable_sync", "disable_sync", "remove", "map"}]
\* Sync is turned off and on while a store closes slowly.
Toggle == [Base EXCEPT !.roots = {a}, !.device = FALSE, !.slow = {"close"}, !.ops = 5,
             !.operations = {"enable_sync", "disable_sync"}]
\* The bridge comes late and goes away.
Reconnect == [Base EXCEPT !.roots = {a}, !.connected = FALSE, !.operations = {"enable_sync"},
                          !.ops = 2, !.conns = 3]

MCSetups == ("moves" :> Moves) @@ ("overtaken" :> Overtaken) @@ ("switch" :> Switch)
            @@ ("toggle" :> Toggle) @@ ("reconnect" :> Reconnect)

MCLateEnable == "late_enable" :> [Base EXCEPT !.connected = FALSE, !.operations = {"select"}]
MCLostDevice == "lost_device" :> [Base EXCEPT !.roots = {a}, !.device = FALSE, !.ops = 0, !.conns = 2]
MCMapRace == "map_race" :> [Base EXCEPT !.operations = {"select", "map"}, !.ops = 2]
MCMoveDisabled ==
  "move_disabled" :> [Base EXCEPT !.overtaken = FALSE, !.ops = 2, !.operations = {"disable_sync", "relocate"}]
MCMoveWaiting == "move_waiting" :> [Base EXCEPT !.connected = FALSE, !.operations = {"relocate"}]
MCOfflineDisable ==
  "offline_disable" :> [Base EXCEPT !.roots = {a}, !.operations = {"disable_sync"}, !.conns = 2]
MCReleaseLimit == "release_limit" :> [Base EXCEPT !.operations = {"relocate"}, !.slow = {"tasks"}]
MCSlowClose ==
  "slow_close" :> [Base EXCEPT !.before = {a, b}, !.operations = {"select"}, !.slow = {"close"}, !.ops = 2]
MCStaleSelect == "stale_select" :> [Base EXCEPT !.operations = {"select", "enable_sync"}, !.ops = 3]
MCRetries ==
  "retries" :> [Base EXCEPT !.roots = {a}, !.operations = {"enable_sync", "disable_sync"},
                            !.slow = {"retries"}, !.ops = 2]
MCStaleRegister ==
  "stale_register" :> [Base EXCEPT !.before = {a, b}, !.operations = {"select"}, !.conns = 2]
=============================================================================
