----------------------------- MODULE MCRouting -----------------------------
(* Small instances of Routing. *)
EXTENDS Routing, TLC

CONSTANTS k1, k2, n1, n2, i1, i2

Perms == Permutations(Kinds) \cup Permutations(Names) \cup Permutations(Ids)
=============================================================================
