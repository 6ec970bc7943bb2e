----------------------------- MODULE Projection -----------------------------
(***************************************************************************)
(* What an ordered event subscription with a cursor store promises to the  *)
(* read model that its handlers build.  There are no buses, sessions,      *)
(* contexts or crashes here: a stream of events, the part of it that has   *)
(* been dealt with, and a mark that survives.                              *)
(***************************************************************************)
EXTENDS Naturals

VARIABLES
  len,     \* events in the stream: 1..len
  replay,  \* whether the first subscription reads the stream from its start
  from,    \* the position where the read model joined the stream
  mark,    \* the position that is saved, 0 for none
  applied, \* events the handlers have applied
  given    \* events that were reported and given up

vars == <<len, replay, from, mark, applied, given>>

Settled == applied \cup given

Init ==
  /\ len = 0 /\ from = 1 /\ mark = 0
  /\ replay \in BOOLEAN
  /\ applied = {} /\ given = {}

Publish == len' = len + 1 /\ UNCHANGED <<replay, from, mark, applied, given>>

\* An event is applied only after all its predecessors were dealt with, and
\* never again once a mark at or behind it is saved.
Apply(e) ==
  /\ e \in (mark + 1)..len
  /\ from..(e - 1) \subseteq Settled
  /\ applied' = applied \cup {e}
  /\ UNCHANGED <<len, replay, from, mark, given>>

\* The report may come after the mark: a failed save can have taken effect.
GiveUp(e) ==
  /\ e \in 1..len
  /\ from..(e - 1) \subseteq Settled
  /\ given' = given \cup {e}
  /\ UNCHANGED <<len, replay, from, mark, applied>>

\* The mark only advances, and never past an event that was not dealt with.
Save(e) ==
  /\ e \in mark..len
  /\ from..e \subseteq Settled
  /\ mark' = e
  /\ UNCHANGED <<len, replay, from, applied, given>>

\* Until a mark is saved a restart joins the stream anew: at its start, or,
\* unless the read model asks for a replay, at its end.
Join(f) ==
  /\ mark = 0
  /\ f \in {1} \cup (IF replay THEN {} ELSE {len + 1})
  /\ from' = f
  /\ UNCHANGED <<len, replay, mark, applied, given>>

Next ==
  \/ Publish
  \/ \E e \in 1..len : Apply(e) \/ GiveUp(e) \/ Save(e)
  \/ \E f \in 1..(len + 1) : Join(f)

Spec == Init /\ [][Next]_vars
=============================================================================
