------------------------------- MODULE MCAnn --------------------------------
(* Two ids, two threads that write, one search at a time. *)
EXTENDS Ann
=============================================================================
