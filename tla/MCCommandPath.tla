---------------------------- MODULE MCCommandPath ----------------------------
(* Model values for the run of CommandPath. *)
EXTENDS CommandPath

CONSTANTS a, c1, c2, c3, e1, e2, e3

\* Commands of one aggregate; the cfg makes the second one idempotent, and the
\* third one unknown to the registries.
OneAggregate == [c \in {c1, c2, c3} |-> a]
Outcomes == [c \in {c1, c2, c3} |-> CASE c = c1 -> <<e1>> [] c = c2 -> <<e2>> [] c = c3 -> <<e3>>]
=============================================================================
