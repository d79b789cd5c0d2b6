---------------------------- MODULE Replication -----------------------------
(***************************************************************************)
(* What synchronisation promises, whoever carries the updates and however: *)
(* modules Replica (what a crash leaves of it) and LivePeers (over live    *)
(* sessions, fan-out and forwarding) both implement this module.           *)
(*                                                                         *)
(* A replica numbers its writes.  It knows, of each path and each replica, *)
(* the last write it has merged (Entry's `seen`), and its version vector   *)
(* claims writes whatever their path.  In one step a replica may record    *)
(* writes of its own, merge writes of others, and claim what it has.       *)
(***************************************************************************)
EXTENDS VersionVectors

CONSTANT Paths

VARIABLES
  know,   \* per replica, path and author: the last of the author's writes of the path it has merged
  vv      \* per replica: its version vector

vars == <<know, vv>>

Init ==
  /\ know = [h \in Replicas |-> [p \in Paths |-> NoVersions]]
  /\ vv = [h \in Replicas |-> NoVersions]

\* The paths h records a write of in this step.
Written(h) == {p \in Paths : know'[h][p][h] # know[h][p][h]}

\* A replica's own writes take numbers of their own, above all that it has used.
Writes(h) ==
  /\ vv[h][h] <= vv'[h][h]
  /\ \A p \in Written(h) :
       /\ vv[h][h] < know'[h][p][h] /\ know'[h][p][h] <= vv'[h][h]
       /\ \A q \in Written(h) \ {p} : know'[h][q][h] # know'[h][p][h]

\* What it merges of another's writes has been written, and it forgets none.
Learns(h, r) ==
  \A p \in Paths : know[h][p][r] <= know'[h][p][r] /\ know'[h][p][r] <= know[r][p][r]

\* It claims no write that does not exist, and none that it lacks.
Claims(h, r) ==
  /\ vv[h][r] <= vv'[h][r] /\ vv'[h][r] <= vv[r][r]
  /\ \A p \in Paths : know[r][p][r] <= vv'[h][r] => know[r][p][r] <= know'[h][p][r]

Step(h) ==
  /\ know' = [know EXCEPT ![h] = know'[h]] /\ vv' = [vv EXCEPT ![h] = vv'[h]]
  /\ know'[h] \in [Paths -> VersionVector] /\ vv'[h] \in VersionVector
  /\ Writes(h)
  /\ \A r \in Replicas \ {h} : Learns(h, r) /\ Claims(h, r)

Next == \E h \in Replicas : Step(h)

Spec == Init /\ [][Next]_vars
-----------------------------------------------------------------------------
\* Nobody knows of a write before its author does, and every vector stays within what its
\* authors have numbered (delta_for, next_entry).
NothingInvented ==
  \A h, r \in Replicas :
    /\ vv[h][r] <= vv[r][r]
    /\ \A p \in Paths : know[h][p][r] <= know[r][p][r] /\ know[r][p][r] <= vv[r][r]

\* Two paths never share a write's number: a dot names one write (next_entry).
DotsAreUnique ==
  \A r \in Replicas : \A p, q \in Paths :
    p # q /\ know[r][p][r] = know[r][q][r] => know[r][p][r] = 0

\* A vector that covers the last write of a path by an author means that it has been merged,
\* so no peer need send it again (commit_session, delta_for).
ClaimsAreTrue ==
  \A h, r \in Replicas : \A p \in Paths :
    know[r][p][r] <= vv[h][r] => know[h][p][r] = know[r][p][r]

\* Two replicas whose vectors cover every write know the same of every path.
CaughtUp(h) == \A r \in Replicas : vv[r][r] <= vv[h][r]

CaughtUpAgree == \A g, h \in Replicas : CaughtUp(g) /\ CaughtUp(h) => know[g] = know[h]
=============================================================================
