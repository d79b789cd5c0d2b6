------------------------------- MODULE Merge --------------------------------
(***************************************************************************)
(* Joining the states of one path and choosing what is written to disk     *)
(* (sapphire-framework-sync/src/merge.rs).                                 *)
(*                                                                         *)
(* Content is identified with its hash; None stands for a tombstone, whose *)
(* Content::hash() is Option::None.  The fields of an Entry that no merge  *)
(* reads (path, context, author) are left out.                             *)
(***************************************************************************)
EXTENDS VersionVectors, Hlc

CONSTANTS
  Contents,     \* what a file may hold
  None          \* no file: a tombstone's content, a missing file's hash

ASSUME ContentsAssumption == None \notin Contents

Entry == [dot : Dot, content : Contents \cup {None}, hlc : Timestamp]

IsTombstone(e) == e.content = None

\* winner_key, compared: edits beat deletes, then the later clock, then the
\* replica and the counter.
Beats(e, f) ==
  \/ IsTombstone(f) /\ ~IsTombstone(e)
  \/ /\ IsTombstone(f) <=> IsTombstone(e)
     /\ \/ Earlier(f.hlc, e.hlc)
        \/ /\ f.hlc = e.hlc
           /\ \/ f.dot.replica < e.dot.replica
              \/ f.dot.replica = e.dot.replica /\ f.dot.counter < e.dot.counter

Winner(versions) ==
  CHOOSE e \in versions : \A f \in versions \ {e} : Beats(e, f)

NeedsCopy(loser, winner) ==
  ~IsTombstone(loser) /\ loser.content # winner.content

\* A mutant of Unsuperseded: what `theirs` has seen is gone, even what it still holds.
UnsupersededUnseen(mine, theirs, theirSeen) ==
  { e \in mine : ~CoversDot(theirSeen, e.dot) }

\* The versions of `mine` that `theirs` has not superseded: those whose dot it
\* has not seen, and those it still holds.
Unsuperseded(mine, theirs, theirSeen) ==
  { e \in mine : ~CoversDot(theirSeen, e.dot) \/ \E f \in theirs : f.dot = e.dot }

\* `join` of a local state with an incoming one.  An empty sibling set on either
\* side never replaces one that holds a version.
JoinedVersions(local, localSeen, incoming, incomingSeen) ==
  LET kept  == Unsuperseded(local, incoming, incomingSeen)
      added == { e \in Unsuperseded(incoming, local, localSeen) :
                   \A k \in kept : k.dot # e.dot }
  IN  kept \cup added

Join(local, incoming) ==
  LET versions == JoinedVersions(local.versions, local.seen,
                                 incoming.versions, incoming.seen)
  IN  IF versions = {}
        THEN [versions |-> local.versions, seen |-> local.seen]
        ELSE [versions |-> versions, seen |-> MergeVV(local.seen, incoming.seen)]
=============================================================================
