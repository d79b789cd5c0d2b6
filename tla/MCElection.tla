----------------------------- MODULE MCElection ------------------------------
(* Two or three devices; the larger id is the better rank. *)
EXTENDS Election, TLC

ById == [d \in AllDevices |-> d]

\* Two hosts and two faults: the better one may turn up last, or come back.  Three that start
\* at once, one of them with priority 0.
MCSetups ==
     ("pair" :> [devices |-> {1, 2}, ineligible |-> {}, start |-> {1, 2}, faults |-> 2])
  @@ ("trio" :> [devices |-> {1, 2, 3}, ineligible |-> {3}, start |-> {1, 2, 3}, faults |-> 0])
=============================================================================
