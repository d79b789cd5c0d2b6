----------------------------- MODULE MCReplica ------------------------------
(* Small instances of Replica: who types what, and who syncs with whom.     *)
EXTENDS Replica, TLC

CONSTANTS c1, c2    \* model values: two file contents

\* Two replicas write c1, so that they may agree; the second also writes c2.  The third has no users.
MCConflict == [r \in Replicas |-> ((1 :> {c1}) @@ (2 :> {c1, c2}) @@ (3 :> {}))[r]]

\* The first replica's user also writes c2, into the unrelated file.
MCStrayTypes == [r \in Replicas |-> ((1 :> {c1, c2}) @@ (2 :> {c2}) @@ (3 :> {}))[r]]

Pair == {<<1, 2>>, <<2, 1>>}
Relay == {<<1, 3>>, <<3, 1>>, <<3, 2>>}

Start(edits, crashes, unmounts, drops, links) ==
  [edits |-> edits, crashes |-> crashes, unmounts |-> unmounts, drops |-> drops, links |-> links]

\* Conflicts; crashes, one of them with a lost session; a root that goes away; writes that come by way
\* of replica 3.
MCStarts == {Start(3, 0, 0, 0, Pair), Start(2, 1, 0, 0, Pair), Start(1, 1, 0, 1, Pair),
             Start(2, 0, 1, 0, Pair), Start(2, 0, 0, 0, Relay)}

\* A lost session; a crash; a root that goes away, and may be back at any time.
MCLosses == {Start(2, 0, 0, 1, Pair), Start(1, 1, 0, 0, Pair), Start(1, 0, 1, 0, Pair)}

\* These show a property violated, the README says how.
MCVanish == {Start(2, 0, 1, 0, Pair)}
MCConflicts == {Start(3, 0, 0, 0, Pair)}
MCCrashAway == {Start(2, 1, 1, 0, Pair)}

\* The name that the copy of replica 1's first write would get.
MCStrays == {CopyPath(Own(1), [replica |-> 1, counter |-> 1])}

\* Paths that the instances come to: files, and copies of the first few writes.
MCNamed == {Own(f) : f \in Files} \cup
  {CopyPath(Own(f), d) : f \in Files, d \in [replica : Replicas, counter : 1..4]}
=============================================================================
