--------------------------- MODULE MCSubscriptions ---------------------------
(* Model values for the run of Subscriptions. *)
EXTENDS Subscriptions

\* Lists of none, one and two tokens, and one with a wildcard among them.
MCTypeLists == {{}, {"t"}, {"t", "u"}}
MCIdLists == {{}, {"a"}, {"a", "b"}, {Wildcard}}
MCNameLists == {{}, {"n"}, {"n", "m"}}
=============================================================================
