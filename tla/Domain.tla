------------------------------- MODULE Domain -------------------------------
(***************************************************************************)
(* The application domain the event store serves: aggregates, the events   *)
(* they are made of, and the commands whose handlers call event.Execute.   *)
(* The aggregate type and the mutate callback are user code; an aggregate  *)
(* is modelled by the sequence of domain events applied to it, which tells *)
(* apart every history that Apply could tell apart.                        *)
(***************************************************************************)
EXTENDS Integers, Sequences

CONSTANTS
  Workers,     \* goroutines that run Execute
  Commands,    \* the commands they execute
  Aggregates,  \* aggregate instances, all in one stream
  Events,      \* domain events
  AggOf,       \* the aggregate a command targets
  Outcome,     \* the events a command's mutate produces
  Idempotent,  \* commands whose mutate checks whether it has already happened
  MaxStream    \* bound: no unconditional append starts once the stream is this long

ASSUME DomainAssumption ==
  /\ AggOf \in [Commands -> Aggregates]
  /\ DOMAIN Outcome = Commands
  /\ \A c \in Commands : Outcome[c] \in Seq(Events) /\ Len(Outcome[c]) > 0
  /\ Idempotent \subseteq Commands
  /\ MaxStream \in Nat

\* The value of an aggregate: the domain events applied to it, in order.
State == Seq(Events)

Has(s, e) == \E i \in 1..Len(s) : s[i] = e

\* The mutate callback: an idempotent command whose first event is already
\* part of the aggregate produces nothing, any other produces its outcome.
Decide(c, s) ==
  IF c \in Idempotent /\ Has(s, Outcome[c][1]) THEN <<>> ELSE Outcome[c]
=============================================================================
