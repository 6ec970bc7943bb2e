------------------------------- MODULE MCBus -------------------------------
(* Small instances of Bus. *)
EXTENDS Bus

CONSTANTS o1, o2, c1, q1
=============================================================================
