---------------------------- MODULE QueueDelivery ----------------------------
(***************************************************************************)
(* Queue event groups (startQueueGroup in bus.go, subscribeQueue in        *)
(* nats/subscriber.go): sessions on several nodes pull from one durable    *)
(* JetStream consumer, acknowledge what their handlers have handled and    *)
(* ask for another delivery of what they have not.  The consumer is        *)
(* external: it delivers an event at most MaxDeliver times, again when it  *)
(* is refused or when AckWait runs out.                                    *)
(***************************************************************************)
EXTENDS Integers, FiniteSets, Sequences, FiniteSetsExt

CONSTANTS
  Sessions,     \* one per node and group
  Groups,       \* queue groups on the stream: one per scope and aggregate type
  GroupOf,      \* GroupOf[s]
  Types,        \* event types
  Wants,        \* Wants[g]: the types that the handlers of g are registered for
  TypeOf,       \* TypeOf[e]: the type of the e-th event of the stream
  Undecodable,  \* events that the registry or the codec rejects
  Handlers,     \* the handlers that a group has for one event
  Retries,      \* values of BusOptions.QueueMaxRetries to check
  Prefetch,     \* bound: events pulled ahead by a session
  MaxFaults     \* bound: failures, losses, expiries, stops and crashes

ASSUME QueueAssumption ==
  /\ GroupOf \in [Sessions -> Groups] /\ Wants \in [Groups -> SUBSET Types]
  /\ TypeOf \in Seq(Types) /\ Undecodable \subseteq Nat
  /\ Handlers # {} /\ IsFiniteSet(Handlers)
  /\ Retries \subseteq Int /\ Prefetch \in Nat \ {0} /\ MaxFaults \in Nat

Events == DOMAIN TypeOf

VARIABLES
  maxRetries, \* QueueMaxRetries
  last,       \* events published
  filter,     \* the consumer's filter: set by every CreateOrUpdateConsumer
  pos,        \* the consumer has considered the events up to here
  status,     \* status[e]: "new", "out", "retry", "acked" or "dead"
  sent,       \* sent[e]: deliveries so far
  state,      \* state[s]: "down", "up" or "stopping"
  buffer,     \* buffer[s]: deliveries pulled and not yet handed over
  cur,        \* cur[s]: the delivery handleMessage is at, if any
  step,       \* step[s]: where it is
  handled,    \* <<e, g>>: every handler of g succeeded in one delivery of e
  escalated,  \* events reported with RetriesExhausted
  cut,        \* events of which a delivery ended without a verdict
  faults

serverVars == <<last, filter, pos, status, sent>>
clientVars == <<state, buffer, cur, step>>
histVars == <<handled, escalated, cut>>
vars == <<maxRetries, serverVars, clientVars, histVars, faults>>

Fault == faults < MaxFaults /\ faults' = faults + 1
Idle == [event |-> 0, num |-> 0]

Init ==
  /\ maxRetries \in Retries
  /\ last = 0 /\ pos = 0 /\ filter = {} /\ faults = 0
  /\ status = [e \in Events |-> "new"] /\ sent = [e \in Events |-> 0]
  /\ state = [s \in Sessions |-> "down"] /\ buffer = [s \in Sessions |-> <<>>]
  /\ cur = [s \in Sessions |-> Idle] /\ step = [s \in Sessions |-> "idle"]
  /\ handled = {} /\ escalated = {} /\ cut = {}

Publish ==
  /\ last < Len(TypeOf)
  /\ last' = last + 1
  /\ UNCHANGED <<maxRetries, filter, pos, status, sent, clientVars, histVars, faults>>

-----------------------------------------------------------------------------
(* The consumer *)

\* Mutants: QueueMaxRetries taken for the number of deliveries, and one delivery
\* too many.
MaxDeliver_Retries ==
  IF maxRetries < 0 THEN -1 ELSE IF maxRetries > 0 THEN maxRetries ELSE 1
MaxDeliver_OneMore ==
  IF maxRetries < 0 THEN -1 ELSE IF maxRetries > 0 THEN maxRetries + 2 ELSE 1

\* subscribeQueue; -1 stands for no limit.
MaxDeliver ==
  IF maxRetries < 0 THEN -1 ELSE IF maxRetries > 0 THEN maxRetries + 1 ELSE 1

Exhausted(e) == MaxDeliver # -1 /\ sent[e] >= MaxDeliver

\* What becomes of e when a delivery of it is refused or runs out of time.
Refused(e) == IF Exhausted(e) THEN "dead" ELSE "retry"

\* SubscribeEvents: the durable is created, or its filter overwritten.
Subscribe(s) ==
  /\ state[s] = "down"
  /\ state' = [state EXCEPT ![s] = "up"]
  /\ filter' = Wants[GroupOf[s]]
  /\ UNCHANGED <<maxRetries, last, pos, status, sent, buffer, cur, step, histVars, faults>>

Send(s, e) ==
  /\ state[s] = "up" /\ Len(buffer[s]) < Prefetch
  /\ sent' = [sent EXCEPT ![e] = @ + 1]
  /\ status' = [status EXCEPT ![e] = "out"]
  /\ buffer' = [buffer EXCEPT ![s] = Append(@, [event |-> e, num |-> sent'[e]])]
  /\ UNCHANGED <<maxRetries, last, filter, state, cur, step, histVars, faults>>

\* Events that the filter does not let through are passed over for good.
SendNew(s) ==
  LET matching == {e \in (pos + 1)..last : TypeOf[e] \in filter}
  IN /\ matching # {}
     /\ Send(s, Min(matching))
     /\ pos' = Min(matching)

SendAgain(s) ==
  \E e \in 1..last : status[e] = "retry" /\ Send(s, e) /\ UNCHANGED pos

\* Mutant: the heartbeat is not stopped with the handler.
Held_Leaks(e) == \E s \in Sessions :
  \/ status[e] = "out" /\ state[s] = "up"
  \/ cur[s].event = e \/ \E i \in DOMAIN buffer[s] : buffer[s][i].event = e

Held(e) == \E s \in Sessions :
  cur[s].event = e \/ \E i \in DOMAIN buffer[s] : buffer[s][i].event = e

\* AckWait runs out: for a delivery that is gone, or (a fault) for one that
\* waits behind a slow handler or whose heartbeats fail to arrive.
Expire(e) ==
  /\ status[e] = "out"
  /\ IF Held(e) THEN Fault ELSE UNCHANGED faults
  /\ status' = [status EXCEPT ![e] = Refused(e)]
  /\ cut' = cut \cup {e}
  /\ UNCHANGED <<maxRetries, last, filter, pos, sent, clientVars, handled, escalated>>

-----------------------------------------------------------------------------
(* consumeSession.handleMessage *)

GoTo(s, where) == step' = [step EXCEPT ![s] = where]
\* Mutant: the next message is taken while this one is still held.
Release_Keeps(s) == GoTo(s, "idle") /\ UNCHANGED cur
Release(s) == GoTo(s, "idle") /\ cur' = [cur EXCEPT ![s] = Idle]

Relevant(e, g) == TypeOf[e] \in Wants[g] /\ e \notin Undecodable

\* decodeEvent acknowledges an event of another group, and one it cannot
\* decode, without handing it over.
Take(s) ==
  /\ state[s] = "up" /\ step[s] = "idle" /\ buffer[s] # <<>>
  /\ cur' = [cur EXCEPT ![s] = Head(buffer[s])]
  /\ buffer' = [buffer EXCEPT ![s] = Tail(@)]
  /\ GoTo(s, IF Relevant(cur'[s].event, GroupOf[s]) THEN "running" ELSE "ack")
  /\ UNCHANGED <<maxRetries, serverVars, state, histVars, faults>>

\* Mutant: a later success hides an error.
GroupFails_Hidden(failing) == failing = Handlers

\* dispatchEventGroup runs every handler and returns the first error.
GroupFails(failing) == failing # {}

Run(s) ==
  \E failing \in SUBSET Handlers :
    /\ step[s] = "running"
    /\ IF failing = {} THEN UNCHANGED faults ELSE Fault
    /\ GoTo(s, IF GroupFails(failing) THEN "nak" ELSE "ack")
    /\ handled' = IF failing = {} THEN handled \cup {<<cur[s].event, GroupOf[s]>>}
                  ELSE handled
    /\ UNCHANGED <<maxRetries, serverVars, state, buffer, cur, escalated, cut>>

\* Ack and Nak are published without waiting for an answer: they may be lost.
Ack(s) ==
  /\ step[s] = "ack"
  /\ \/ /\ status[cur[s].event] \in {"out", "retry"}
        /\ status' = [status EXCEPT ![cur[s].event] = "acked"]
        /\ UNCHANGED faults
     \/ status[cur[s].event] \notin {"out", "retry"} /\ UNCHANGED <<status, faults>>
     \/ Fault /\ UNCHANGED status
  /\ Release(s)
  /\ UNCHANGED <<maxRetries, last, filter, pos, sent, state, buffer, histVars>>

Nak(s) ==
  /\ step[s] = "nak"
  /\ \/ /\ status[cur[s].event] = "out"
        /\ status' = [status EXCEPT ![cur[s].event] = Refused(cur[s].event)]
        /\ UNCHANGED faults
     \/ status[cur[s].event] # "out" /\ UNCHANGED <<status, faults>>
     \/ Fault /\ UNCHANGED status
  /\ GoTo(s, "report")
  /\ UNCHANGED <<maxRetries, last, filter, pos, sent, state, buffer, cur, histVars>>

\* onError: another delivery is expected.
ExpectRetry(s) ==
  /\ step[s] = "report"
  /\ maxRetries < 0 \/ cur[s].num <= maxRetries
  /\ Release(s)
  /\ UNCHANGED <<maxRetries, serverVars, state, buffer, histVars, faults>>

\* onError: the last delivery has failed.  Unless OnSubscriptionError
\* tolerates it the session stops itself and a goroutine calls Disconnect.
Escalate(s) ==
  /\ step[s] = "report"
  /\ maxRetries >= 0 /\ cur[s].num > maxRetries
  /\ escalated' = escalated \cup {cur[s].event}
  /\ Release(s)
  /\ \/ UNCHANGED <<state, buffer, cut>>
     \/ /\ state' = [state EXCEPT ![s] = "stopping"]
        /\ buffer' = [buffer EXCEPT ![s] = <<>>]
        /\ cut' = cut \cup {buffer[s][i].event : i \in DOMAIN buffer[s]}
  /\ UNCHANGED <<maxRetries, serverVars, handled, faults>>

-----------------------------------------------------------------------------
(* Disconnect, crash *)

\* consumeSession.stop: the handler goes on, what was pulled ahead is dropped.
Stop(s) ==
  /\ state[s] = "up" /\ Fault
  /\ state' = [state EXCEPT ![s] = "stopping"]
  /\ buffer' = [buffer EXCEPT ![s] = <<>>]
  /\ cut' = cut \cup {buffer[s][i].event : i \in DOMAIN buffer[s]}
  /\ UNCHANGED <<maxRetries, serverVars, cur, step, handled, escalated>>

Stopped(s) ==
  /\ state[s] = "stopping" /\ step[s] = "idle"
  /\ state' = [state EXCEPT ![s] = "down"]
  /\ UNCHANGED <<maxRetries, serverVars, buffer, cur, step, histVars, faults>>

Crash(s) ==
  /\ state[s] # "down" /\ Fault
  /\ state' = [state EXCEPT ![s] = "down"]
  /\ buffer' = [buffer EXCEPT ![s] = <<>>]
  /\ cut' = cut \cup {buffer[s][i].event : i \in DOMAIN buffer[s]}
                \cup ({cur[s].event} \ {0})
  /\ Release(s)
  /\ UNCHANGED <<maxRetries, serverVars, handled, escalated>>

SessionStep(s) ==
  \/ Subscribe(s) \/ SendNew(s) \/ SendAgain(s) \/ Take(s) \/ Run(s) \/ Ack(s)
  \/ Nak(s) \/ ExpectRetry(s) \/ Escalate(s) \/ Stopped(s)

Next ==
  \/ Publish
  \/ \E e \in Events : Expire(e)
  \/ \E s \in Sessions : SessionStep(s) \/ Stop(s) \/ Crash(s)

Spec == Init /\ [][Next]_vars

\* Goroutines and the server run, handlers return, AckWait runs out, and a bus
\* that stopped or died is started again.
Fairness ==
  /\ \A s \in Sessions : WF_vars(SessionStep(s))
  /\ \A e \in Events : WF_vars(~Held(e) /\ Expire(e))

FairSpec == Spec /\ Fairness

-----------------------------------------------------------------------------
Deliveries == [event : Events, num : Nat \ {0}]

TypeOK ==
  /\ maxRetries \in Retries /\ last \in 0..Len(TypeOf) /\ pos \in 0..last
  /\ filter \subseteq Types /\ faults \in 0..MaxFaults
  /\ status \in [Events -> {"new", "out", "retry", "acked", "dead"}]
  /\ sent \in [Events -> Nat]
  /\ state \in [Sessions -> {"down", "up", "stopping"}]
  /\ buffer \in [Sessions -> Seq(Deliveries)]
  /\ cur \in [Sessions -> Deliveries \cup {Idle}]
  /\ step \in [Sessions -> {"idle", "running", "ack", "nak", "report"}]
  /\ \A s \in Sessions : cur[s] = Idle <=> step[s] = "idle"
  /\ handled \subseteq Events \X Groups
  /\ escalated \subseteq Events /\ cut \subseteq Events

\* README.md, "Queue Consumer Strategy": handlers on one stream share one
\* durable.  The event is acknowledged for all of them, so every group that has
\* handlers for its type must have handled it.
AckedIsHandled ==
  \A e \in Events, g \in Groups :
    status[e] = "acked" /\ Relevant(e, g) => <<e, g>> \in handled

\* An event that will not be delivered again, though every delivery of it came
\* to a verdict, was reported to OnSubscriptionError or is about to be.
ExhaustedIsReported ==
  \A e \in Events :
    status[e] = "dead" /\ e \notin cut /\ ~Held(e) => e \in escalated

\* The deliveries of e that a session has in its hands.
HeldBy(s, e) ==
  {d \in {cur[s]} \cup {buffer[s][i] : i \in DOMAIN buffer[s]} : d.event = e}

\* "Retries exhausted" is said once, of an event that is delivered no more.  A
\* node may still handle it then, but only an earlier delivery that it had pulled
\* before and that ran out of time in its hands: none is added to those, and
\* onError reports none of them as the last.
EscalatedIsFinal ==
  [][\A e \in escalated :
       /\ sent'[e] = sent[e]
       /\ \A s \in Sessions : /\ HeldBy(s, e)' \subseteq HeldBy(s, e)
                              /\ \A d \in HeldBy(s, e) : d.num <= maxRetries]_vars

\* With QueueMaxRetries < 0 every event is in the end handled, through any
\* bounded number of faults; otherwise it may be reported or cut short instead.
EventuallyServed ==
  \A e \in Events \ Undecodable :
    e <= last ~> \/ \E g \in Groups : <<e, g>> \in handled
                 \/ maxRetries >= 0 /\ e \in escalated \cup cut
=============================================================================
