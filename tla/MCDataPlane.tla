----------------------------- MODULE MCDataPlane -----------------------------
(* Two peers, or one where an end or a handler may be late; up to three connections. *)
EXTENDS DataPlane
CONSTANTS p1, p2

Late(faults) == [peers |-> {p1}, faults |-> faults]
MCInstances == {[peers |-> {p1, p2}, faults |-> {}]} \cup {Late({"late_end"}), Late({"late_end", "late_handler"})}
MCInTime == {Late({})}
MCLateEnd == {Late({"late_end"})}
MCLateHandler == {Late({"late_handler"})}
MCUnpublished == {Late({"publish"})}
=============================================================================
