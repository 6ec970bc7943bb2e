------------------------------ MODULE MCHistory ------------------------------
(* Model values for the runs of History. *)
EXTENDS History

\* The aggregate, and a view that declares one of its two event types.
MCKnown == [full |-> {"created", "renamed"}, partial |-> {"created"}]
MCViews == DOMAIN MCKnown
=============================================================================
