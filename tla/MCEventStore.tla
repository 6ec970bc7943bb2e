---------------------------- MODULE MCEventStore ----------------------------
(* Small instances of EventStore. *)
EXTENDS EventStore, TLC

CONSTANTS w1, w2, a1, a2, open, pay, note, o1, p1, p2, n1, x

\* Two commands compete for a1, one of them with a two-event outcome; the
\* third writes a2 into the same stream.
MCAggOf == (open :> a1) @@ (pay :> a1) @@ (note :> a2)
MCOutcome == (open :> <<o1>>) @@ (pay :> <<p1, p2>>) @@ (note :> <<n1>>)
Two == [c \in {open, pay} |-> MCAggOf[c]]
TwoOutcome == [c \in {open, pay} |-> MCOutcome[c]]
TwoAggs == [c \in {pay, note} |-> MCAggOf[c]]
TwoAggsOutcome == [c \in {pay, note} |-> MCOutcome[c]]

Perms == Permutations(Workers)
=============================================================================
