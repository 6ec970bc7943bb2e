-------------------------- MODULE MCOrderedDelivery --------------------------
(* Model values for the run of OrderedDelivery. *)
EXTENDS OrderedDelivery

Second == {2}
=============================================================================
