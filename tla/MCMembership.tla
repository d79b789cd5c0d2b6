---------------------------- MODULE MCMembership ----------------------------
(* Two or three hosts, one workgroup unless an instance is about two.  A run takes some of *)
(* the instances below; those after MCSetups each show a property violated, and the README *)
(* says which one. *)
EXTENDS Membership, TLC

Base == [hosts |-> {1, 2}, workgroups |-> {1}, ids |-> {1, 2}, names |-> {1}, founders |-> {1},
         inviters |-> {1}, invites |-> 1, edits |-> 0, faults |-> 0, joins |-> 1, priorities |-> {},
         kinds |-> {}, mistyped |-> FALSE, hurried |-> FALSE, persistent |-> FALSE]
Three == [Base EXCEPT !.hosts = {1, 2, 3}, !.ids = {1, 2, 3}, !.names = {1, 2}, !.invites = 2]

\* Three hosts, one of which is retired.
Grows == [Three EXCEPT !.edits = 1]
\* A ticket expires, or is used under a mistyped name.
Joining == [Base EXCEPT !.names = {1, 2}, !.faults = 1, !.kinds = {"expiry"}, !.invites = 2,
                        !.mistyped = TRUE, !.persistent = TRUE]

\* The answer is lost, a write fails or a bridge stops, and a priority changes.
Failing == [Base EXCEPT !.names = {1, 2}, !.faults = 1, !.kinds = {"lost", "disk", "crash"}, !.invites = 2,
                        !.edits = 1, !.priorities = {0}]

MCSetups == ("grows" :> Grows) @@ ("joining" :> Joining) @@ ("failing" :> Failing)

MCRace == "race" :> [Base EXCEPT !.invites = 2]
MCNames == "names" :> [Three EXCEPT !.ids = {1, 2, 3, 4}, !.invites = 3, !.joins = 2, !.inviters = {1, 2}]
MCPriority == "priority" :> [Three EXCEPT !.edits = 2, !.priorities = {0}]
MCSeed == "seed" :> [Base EXCEPT !.edits = 1, !.hurried = TRUE]
MCFounder == "founder" :> [Base EXCEPT !.edits = 1, !.founders = {1, 2}, !.workgroups = {1, 2}, !.ids = {1, 2, 3}]
MCMutual == "mutual" :> [Base EXCEPT !.edits = 2]
MCReply == "reply" :> [Base EXCEPT !.faults = 1, !.kinds = {"lost"}, !.invites = 2, !.persistent = TRUE]
MCCrash == "crash" :> [Base EXCEPT !.faults = 1, !.kinds = {"crash"}]
MCTwo == "two" :> [Three EXCEPT !.founders = {1, 2}, !.inviters = {1, 2}, !.joins = 2, !.workgroups = {1, 2}]
=============================================================================
