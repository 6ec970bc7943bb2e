--------------------------- MODULE MCQueueDelivery ---------------------------
(* Model values for the run of QueueDelivery. *)
EXTENDS QueueDelivery

CONSTANTS s1, s2, g1, t1

\* Two nodes of one program: the same group on both.
OneGroup == [s \in {s1, s2} |-> g1]
OneWants == [g \in {g1} |-> {t1}]
ThreeEvents == <<t1, t1, t1>>

\* For ever, once, twice.
AllRetries == {-1, 0, 1}
=============================================================================
