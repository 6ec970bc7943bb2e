---------------------------- MODULE AggregateLog ----------------------------
(***************************************************************************)
(* What event.Execute over the NATS event store promises.  There are no    *)
(* loads, snapshots, versions, batches or retries here: every aggregate is *)
(* one log, and a call of Execute appends, atomically and at one instant,  *)
(* the events its mutate decides on FOR THE LOG AS IT IS at that instant.  *)
(* The only untidy part is the one a client of a remote store cannot       *)
(* avoid: a call that returned an error may still take effect, at most     *)
(* once, while its request is on the way ("in doubt").                     *)
(***************************************************************************)
EXTENDS Domain

VARIABLES
  log,    \* log[a]: the domain events of aggregate a
  phase,  \* phase[w]: "idle", "running" or "applied"
  call,   \* call[w]: the command w executes or executed last
  result, \* result[w]: what the last call returned
  doubt   \* doubt[c]: failed calls of c whose request may still arrive

vars == <<log, phase, call, result, doubt>>

Results == {"none", "ok", "conflict", "error"}

TypeOK ==
  /\ log \in [Aggregates -> State]
  /\ phase \in [Workers -> {"idle", "running", "applied"}]
  /\ call \in [Workers -> Commands]
  /\ result \in [Workers -> Results]
  /\ doubt \in [Commands -> Nat]

Init ==
  /\ log = [a \in Aggregates |-> <<>>]
  /\ phase = [w \in Workers |-> "idle"]
  /\ call \in [Workers -> Commands]
  /\ result = [w \in Workers |-> "none"]
  /\ doubt = [c \in Commands |-> 0]

\* The events of command c become part of its aggregate.
Append1(c) ==
  /\ Decide(c, log[AggOf[c]]) # <<>>
  /\ log' = [log EXCEPT ![AggOf[c]] = @ \o Decide(c, @)]

Call(w, c) ==
  /\ phase[w] = "idle"
  /\ phase' = [phase EXCEPT ![w] = "running"]
  /\ call' = [call EXCEPT ![w] = c]
  /\ result' = [result EXCEPT ![w] = "none"]
  /\ UNCHANGED <<log, doubt>>

Apply(w) ==
  /\ phase[w] = "running"
  /\ Append1(call[w])
  /\ phase' = [phase EXCEPT ![w] = "applied"]
  /\ UNCHANGED <<call, result, doubt>>

Return(w, r) ==
  /\ phase' = [phase EXCEPT ![w] = "idle"]
  /\ result' = [result EXCEPT ![w] = r]
  /\ UNCHANGED <<log, call>>

\* nil means: the events are in the log, or there was nothing to do.
ReturnOk(w) ==
  /\ \/ phase[w] = "applied"
     \/ phase[w] = "running" /\ Decide(call[w], log[AggOf[call[w]]]) = <<>>
  /\ Return(w, "ok")
  /\ UNCHANGED doubt

\* Exhausted retries mean: this call appended nothing, now or later.
ReturnConflict(w) ==
  /\ phase[w] = "running"
  /\ Return(w, "conflict")
  /\ UNCHANGED doubt

\* Any other error says nothing about the log: the call has taken effect, or
\* has not and perhaps still will.
ReturnError(w) ==
  /\ phase[w] # "idle"
  /\ Return(w, "error")
  /\ \/ UNCHANGED doubt
     \/ phase[w] = "running" /\ doubt' = [doubt EXCEPT ![call[w]] = @ + 1]

\* The request of a failed call arrives, or is gone for good.
Resolve(c) ==
  /\ doubt[c] > 0
  /\ doubt' = [doubt EXCEPT ![c] = @ - 1]
  /\ Append1(c) \/ UNCHANGED log
  /\ UNCHANGED <<phase, call, result>>

\* An event published past the store, with no version check.
Publish(a, e) ==
  /\ log' = [log EXCEPT ![a] = Append(@, e)]
  /\ UNCHANGED <<phase, call, result, doubt>>

Next ==
  \/ \E w \in Workers :
       \/ \E c \in Commands : Call(w, c)
       \/ Apply(w)
       \/ ReturnOk(w) \/ ReturnConflict(w) \/ ReturnError(w)
  \/ \E c \in Commands : Resolve(c)
  \/ \E a \in Aggregates, e \in Events : Publish(a, e)

Spec == Init /\ [][Next]_vars
=============================================================================
