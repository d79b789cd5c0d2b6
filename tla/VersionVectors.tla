--------------------------- MODULE VersionVectors ---------------------------
(***************************************************************************)
(* Dots and version vectors (sapphire-framework-sync/src/vv.rs).           *)
(*                                                                         *)
(* A vector is a total function here: a replica the code's BTreeMap has no *)
(* slot for reads as 0 (VersionVector::get), and every operation of the    *)
(* code goes through that reading.                                         *)
(***************************************************************************)
EXTENDS Integers, FiniteSets

CONSTANT Replicas       \* the replica ids; a replica id orders like its number

ASSUME ReplicasAssumption == Replicas \subseteq Nat \ {0}

\* The `counter`-th write recorded by `replica`. next_entry increments before it
\* assigns, so a dot of counter 0 is never written.
Dot == [replica : Replicas, counter : Nat \ {0}]

VersionVector == [Replicas -> Nat]

NoVersions == [r \in Replicas |-> 0]

CoversDot(v, d) == v[d.replica] >= d.counter

Covers(v, w) == \A r \in Replicas : v[r] >= w[r]

AddDot(v, d) ==
  [v EXCEPT ![d.replica] = IF @ >= d.counter THEN @ ELSE d.counter]

MergeVV(v, w) == [r \in Replicas |-> IF v[r] >= w[r] THEN v[r] ELSE w[r]]
=============================================================================
