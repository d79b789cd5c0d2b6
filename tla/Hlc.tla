-------------------------------- MODULE Hlc ---------------------------------
(***************************************************************************)
(* The hybrid logical clock (sapphire-framework-sync/src/hlc.rs): a wall   *)
(* time and a logical counter, compared in that order.                     *)
(***************************************************************************)
EXTENDS Integers

CONSTANTS
  MaxLogical,   \* u32::MAX: the logical counter's last value
  MaxWall,      \* u64::MAX: where now + MaxDrift saturates
  MaxDrift      \* MAX_DRIFT_MS: how far ahead a remote timestamp may pull the clock

ASSUME HlcAssumption == MaxLogical \in Nat /\ MaxWall \in Nat /\ MaxDrift \in Nat

Timestamp == [wall : Nat, logical : Nat]

Epoch == [wall |-> 0, logical |-> 0]

Earlier(h, g) ==
  \/ h.wall < g.wall
  \/ h.wall = g.wall /\ h.logical < g.logical

\* The timestamp of a new local event.
Tick(h, now) ==
  IF now > h.wall THEN [wall |-> now, logical |-> 0]
  ELSE IF h.logical = MaxLogical THEN [wall |-> h.wall + 1, logical |-> 0]
  ELSE [h EXCEPT !.logical = @ + 1]

\* What observe folds into the clock, taking the later of the two: a remote wall time
\* beyond now + MaxDrift is clamped to it.
Clamped(remote, now) ==
  LET cap == IF now + MaxDrift > MaxWall THEN MaxWall ELSE now + MaxDrift
  IN  IF remote.wall > cap THEN [wall |-> cap, logical |-> 0] ELSE remote
=============================================================================
