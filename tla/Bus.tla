-------------------------------- MODULE Bus --------------------------------
(***************************************************************************)
(* The life cycle of event.Bus (bus.go) over the NATS subscriptions it     *)
(* owns (nats/subscriber.go, nats/command_bus.go).  Connect starts the     *)
(* ordered subscriptions, waits until they have caught up, then starts     *)
(* command, query and queue subscriptions.  Disconnect may be called by    *)
(* the user, by a failing Connect or by a goroutine that a subscription    *)
(* error spawns, at any point of a Connect that is under way.              *)
(*                                                                         *)
(* A registration stands for its subscription too: Bus creates at most one *)
(* per registration.  JetStream and NATS core are external.                *)
(***************************************************************************)
EXTENDS Naturals, FiniteSets

CONSTANTS
  Ordered,      \* ordered event groups
  Commands,     \* command registrations
  Queries,      \* query registrations
  Queues,       \* queue event groups
  HasPolicy,    \* whether BusOptions.OnSubscriptionError is set
  MaxPublished  \* bound: events published for the ordered groups

ASSUME BusAssumption ==
  /\ Ordered \cap Queues = {} /\ Commands \cap Queries = {}
  /\ (Ordered \cup Queues) \cap (Commands \cup Queries) = {}
  /\ "none" \notin Ordered \cup Queues \cup Commands \cup Queries
  /\ HasPolicy \in BOOLEAN
  /\ MaxPublished \in Nat

\* Registration panics once the bus is connected or closed: these never change.
EventGroups == Ordered \cup Queues
Replies == Commands \cup Queries
Regs == EventGroups \cup Replies

VARIABLES
  running, closed, cancelled,  \* b.running, b.closed, runCtx is done
  stopErr,    \* b.stopErr: the group whose error stopped the bus
  sub,        \* registrations whose sub field is set
  done,       \* the done channel: "open", or how it was closed
  phase,      \* where Connect is
  todo,       \* what the current phase has still to start
  starting,   \* subscribed, but not yet recorded in its sub field
  closing,    \* where the one effective Disconnect is
  subs,       \* the subscriptions it collected
  stopFailed, \* its firstErr
  spawned,    \* a goroutine of makeOnError is about to call Disconnect
  session,    \* session[r]: the subscription of r at the transport
  handler,    \* handler[g]: what the session's callback is doing
  last,       \* last[g]: the message it is handling has NumPending = 0
  caughtUp,   \* ordered groups whose CaughtUp callback has run
  pending,    \* pending[o]: events that o has not been handed yet
  old,        \* old[o]: events to handle that preceded its subscription
  published   \* events published so far

connectVars == <<phase, todo, starting>>
disconnectVars == <<closed, closing, subs, stopFailed, done>>
sessionVars == <<session, handler, last, caughtUp, pending, old>>
vars == <<running, closed, cancelled, stopErr, sub, done, phase, todo, starting,
          closing, subs, stopFailed, spawned, session, handler, last, caughtUp,
          pending, old, published>>

-----------------------------------------------------------------------------
(* Connect *)

\* The registrations a phase of Connect starts, and the phase after it.
StartedIn == [ordered |-> Ordered, commands |-> Commands,
              queries |-> Queries, queues |-> Queues]
After == [ordered |-> "wait", commands |-> "queries",
          queries |-> "queues", queues |-> "connected"]

Connect ==
  /\ phase = "idle"
  /\ ~closed
  /\ running' = TRUE
  /\ phase' = "ordered" /\ todo' = Ordered
  /\ UNCHANGED <<cancelled, stopErr, sub, starting, disconnectVars, spawned,
                 sessionVars, published>>

\* ErrClosed.
ConnectClosed ==
  /\ phase = "idle"
  /\ closed
  /\ phase' = "failed"
  /\ UNCHANGED <<running, cancelled, stopErr, sub, todo, starting,
                 disconnectVars, spawned, sessionVars, published>>

Enter(next) ==
  /\ phase' = next
  /\ todo' = IF next \in DOMAIN StartedIn THEN StartedIn[next] ELSE {}

NextPhase ==
  /\ phase \in DOMAIN After
  /\ todo = {} /\ starting = "none"
  /\ Enter(After[phase])
  /\ UNCHANGED <<running, cancelled, stopErr, sub, starting, disconnectVars,
                 spawned, sessionVars, published>>

\* Mutant: queue groups are given the CaughtUp callback too.
SubscribeEvents_Everyone(g) ==
  /\ g \in todo \cap EventGroups /\ starting = "none" /\ ~cancelled
  /\ starting' = g /\ todo' = todo \ {g}
  /\ session' = [session EXCEPT ![g] = "open"]
  /\ caughtUp' = caughtUp \cup {g}
  /\ UNCHANGED <<running, cancelled, stopErr, sub, phase, disconnectVars,
                 spawned, handler, last, pending, old, published>>

\* SubscribeEvents: the consumer exists and its callback may run.  A group
\* with nothing pending has caught up at once.
SubscribeEvents(g) ==
  /\ g \in todo \cap EventGroups /\ starting = "none" /\ ~cancelled
  /\ starting' = g /\ todo' = todo \ {g}
  /\ session' = [session EXCEPT ![g] = "open"]
  /\ IF g \in Ordered
     THEN /\ old' = [old EXCEPT ![g] = pending[g]]
          /\ caughtUp' = IF pending[g] = 0 THEN caughtUp \cup {g} ELSE caughtUp
     ELSE UNCHANGED <<old, caughtUp>>
  /\ UNCHANGED <<running, cancelled, stopErr, sub, phase, disconnectVars,
                 spawned, handler, last, pending, published>>

\* SubscribeCommand and SubscribeQuery: QueueSubscribe takes no context.
SubscribeReplies(r) ==
  /\ r \in todo \cap Replies /\ starting = "none"
  /\ starting' = r /\ todo' = todo \ {r}
  /\ session' = [session EXCEPT ![r] = "open"]
  /\ UNCHANGED <<running, cancelled, stopErr, sub, phase, disconnectVars,
                 spawned, handler, last, caughtUp, pending, old, published>>

\* Mutant: the subscription is recorded although the bus has been closed.
RecordEvents_Unchecked ==
  /\ starting \in EventGroups
  /\ sub' = sub \cup {starting}
  /\ starting' = "none"
  /\ UNCHANGED <<running, cancelled, stopErr, phase, todo, disconnectVars,
                 spawned, sessionVars, published>>

\* group.sub is set if the bus still runs.
RecordEvents ==
  /\ starting \in EventGroups /\ running
  /\ sub' = sub \cup {starting}
  /\ starting' = "none"
  /\ UNCHANGED <<running, cancelled, stopErr, phase, todo, disconnectVars,
                 spawned, sessionVars, published>>

\* reg.sub of a command or query is set in any case: a Disconnect that came
\* first does not know of this subscription.
RecordReplies ==
  /\ starting \in Replies
  /\ sub' = sub \cup {starting}
  /\ starting' = "none"
  /\ UNCHANGED <<running, cancelled, stopErr, phase, todo, disconnectVars,
                 spawned, sessionVars, published>>

\* Otherwise the event subscription is stopped: session.stop, then wait for Closed.
Discard ==
  /\ starting \in EventGroups /\ ~running
  /\ session[starting] = "open"
  /\ session' = [session EXCEPT ![starting] = "draining"]
  /\ UNCHANGED <<running, cancelled, stopErr, sub, connectVars, disconnectVars,
                 spawned, handler, last, caughtUp, pending, old, published>>

Discarded ==
  /\ starting \in EventGroups /\ ~running
  /\ session[starting] = "closed"
  /\ starting' = "none"
  /\ UNCHANGED <<running, cancelled, stopErr, sub, phase, todo, disconnectVars,
                 spawned, sessionVars, published>>

\* LoadCursor or a Subscribe call fails, an event subscription also because
\* the context is done.
StartFails ==
  /\ todo # {} /\ starting = "none"
  /\ Enter("cleanup")
  /\ UNCHANGED <<running, cancelled, stopErr, sub, starting, disconnectVars,
                 spawned, sessionVars, published>>

\* Mutant: one token is enough.
AllCaughtUp_First ==
  /\ phase = "wait"
  /\ caughtUp # {} \/ Ordered = {}
  /\ Enter("commands")
  /\ UNCHANGED <<running, cancelled, stopErr, sub, starting, disconnectVars,
                 spawned, sessionVars, published>>

\* Every ordered group has sent its token.
AllCaughtUp ==
  /\ phase = "wait"
  /\ caughtUp = Ordered
  /\ Enter("commands")
  /\ UNCHANGED <<running, cancelled, stopErr, sub, starting, disconnectVars,
                 spawned, sessionVars, published>>

\* Mutant: the wait ignores the context.
WaitCancelled_Never == FALSE /\ UNCHANGED vars

\* runCtx is done first.
WaitCancelled ==
  /\ phase = "wait"
  /\ cancelled /\ Ordered # {}
  /\ Enter("cleanup")
  /\ UNCHANGED <<running, cancelled, stopErr, sub, starting, disconnectVars,
                 spawned, sessionVars, published>>

-----------------------------------------------------------------------------
(* Disconnect *)

\* Its first critical section, for the caller that finds the bus not closed.
Disconnect ==
  /\ ~closed
  /\ closed' = TRUE /\ running' = FALSE
  /\ subs' = sub /\ sub' = {}
  /\ closing' = "cancel"
  /\ UNCHANGED <<cancelled, stopErr, stopFailed, done, todo, starting,
                 sessionVars, published>>

UserDisconnect == Disconnect /\ UNCHANGED <<phase, spawned>>

\* The goroutine of makeOnError.
SpawnedDisconnect ==
  /\ spawned
  /\ spawned' = FALSE
  /\ \/ Disconnect /\ UNCHANGED phase
     \/ closed /\ UNCHANGED <<running, cancelled, stopErr, sub, connectVars,
                              disconnectVars, sessionVars, published>>

\* A failing Connect calls Disconnect and returns when it does: at once if
\* the bus is closed already.
Cleanup ==
  /\ phase = "cleanup"
  /\ UNCHANGED spawned
  /\ \/ Disconnect /\ phase' = "closing"
     \/ /\ closed /\ phase' = "failed"
        /\ UNCHANGED <<running, cancelled, stopErr, sub, todo, starting,
                       disconnectVars, sessionVars, published>>

CleanedUp ==
  /\ phase = "closing" /\ closing = "returned"
  /\ phase' = "failed"
  /\ UNCHANGED <<running, cancelled, stopErr, sub, todo, starting,
                 disconnectVars, spawned, sessionVars, published>>

Cancel ==
  /\ closing = "cancel"
  /\ cancelled' = (cancelled \/ phase # "idle")
  /\ closing' = "stop"
  /\ UNCHANGED <<running, closed, stopErr, sub, done, connectVars, subs,
                 stopFailed, spawned, sessionVars, published>>

\* Stop of an event subscription, which then waits for Closed.
StopEvents(g) ==
  /\ closing = "stop"
  /\ g \in subs \cap EventGroups
  /\ session[g] = "open"
  /\ session' = [session EXCEPT ![g] = "draining"]
  /\ UNCHANGED <<running, cancelled, stopErr, sub, connectVars, disconnectVars,
                 spawned, handler, last, caughtUp, pending, old, published>>

EventsStopped == \A g \in subs \cap EventGroups : session[g] = "closed"

\* Stop of a command or query subscription: Drain, which does not wait.
StopReplies(r) ==
  /\ closing = "stop" /\ EventsStopped
  /\ r \in subs \cap Replies
  /\ session[r] = "open"
  /\ \/ session' = [session EXCEPT ![r] = "draining"] /\ UNCHANGED stopFailed
     \/ session' = [session EXCEPT ![r] = "closed"] /\ stopFailed' = TRUE
  /\ UNCHANGED <<running, closed, cancelled, stopErr, sub, done, connectVars,
                 closing, subs, spawned, handler, last, caughtUp, pending, old,
                 published>>

\* Mutant: an error of a Stop call hides the error that stopped the bus.
SignalDone_StopFirst ==
  /\ closing = "stop" /\ EventsStopped
  /\ \A r \in subs \cap Replies : session[r] # "open"
  /\ closing' = "returned"
  /\ done' = IF stopFailed THEN "stop" ELSE IF stopErr # "none" THEN "error" ELSE "nil"
  /\ UNCHANGED <<running, closed, cancelled, stopErr, sub, connectVars, subs,
                 stopFailed, spawned, sessionVars, published>>

\* signalDone, and Disconnect returns.
SignalDone ==
  /\ closing = "stop" /\ EventsStopped
  /\ \A r \in subs \cap Replies : session[r] # "open"
  /\ closing' = "returned"
  /\ done' = IF stopErr # "none" THEN "error" ELSE IF stopFailed THEN "stop" ELSE "nil"
  /\ UNCHANGED <<running, closed, cancelled, stopErr, sub, connectVars, subs,
                 stopFailed, spawned, sessionVars, published>>

-----------------------------------------------------------------------------
(* Sessions *)

busUnchanged == UNCHANGED <<running, cancelled, sub, connectVars, disconnectVars>>

\* A message reaches the callback.  Its NumPending was computed when the
\* server sent it: events published since then are not counted.
Deliver(g) ==
  /\ session[g] = "open" /\ handler[g] = "idle"
  /\ handler' = [handler EXCEPT ![g] = "busy"]
  /\ IF g \in Ordered
     THEN /\ pending[g] > 0
          /\ pending' = [pending EXCEPT ![g] = @ - 1]
          /\ \E l \in BOOLEAN :
               /\ pending[g] = 1 => l
               /\ l => old[g] <= 1
               /\ last' = [last EXCEPT ![g] = l]
     ELSE UNCHANGED <<last, pending>>
  /\ UNCHANGED <<stopErr, spawned, session, caughtUp, old, published>>
  /\ busUnchanged

\* The callback returns; CaughtUp is deferred, so it runs last.
Handled(g) ==
  /\ handler' = [handler EXCEPT ![g] = "idle"]
  /\ IF g \in Ordered
     THEN /\ old' = [old EXCEPT ![g] = IF @ > 0 THEN @ - 1 ELSE 0]
          /\ caughtUp' = IF last[g] THEN caughtUp \cup {g} ELSE caughtUp
     ELSE UNCHANGED <<old, caughtUp>>
  /\ last' = [last EXCEPT ![g] = FALSE]

\* The event is handled, skipped, to be redelivered, or its error tolerated.
HandlerReturns(g) ==
  /\ handler[g] = "busy"
  /\ Handled(g)
  /\ UNCHANGED <<stopErr, spawned, session, pending, published>>
  /\ busUnchanged

\* OnError answers false.  Without a policy an ordered group never does; a
\* queue group does once its retries are exhausted.
HandlerFails(g) ==
  /\ handler[g] = "busy"
  /\ HasPolicy \/ g \in Queues
  /\ stopErr' = g /\ spawned' = TRUE
  /\ handler' = [handler EXCEPT ![g] = "failed"]
  /\ UNCHANGED <<session, last, caughtUp, pending, old, published>>
  /\ busUnchanged

StopOpen(g) ==
  session' = IF session[g] = "open" THEN [session EXCEPT ![g] = "draining"] ELSE session

\* Mutant: the callback calls Disconnect itself and waits for it.
StopItself_AfterDisconnect(g) ==
  /\ handler[g] = "failed" /\ closing = "returned"
  /\ StopOpen(g)
  /\ Handled(g)
  /\ UNCHANGED <<stopErr, spawned, pending, published>>
  /\ busUnchanged

\* The session then stops itself and the callback returns.
StopItself(g) ==
  /\ handler[g] = "failed"
  /\ StopOpen(g)
  /\ Handled(g)
  /\ UNCHANGED <<stopErr, spawned, pending, published>>
  /\ busUnchanged

\* The error handler of Consume, and a policy that answers false.
TransportFails(g) ==
  /\ session[g] \in {"open", "draining"} /\ HasPolicy
  /\ stopErr' = g /\ spawned' = TRUE
  /\ StopOpen(g)
  /\ UNCHANGED <<handler, last, caughtUp, pending, old, published>>
  /\ busUnchanged

\* The goroutine that waits for runCtx stops the consume context.
StopOnCancel(g) ==
  /\ cancelled /\ session[g] = "open"
  /\ StopOpen(g)
  /\ UNCHANGED <<stopErr, spawned, handler, last, caughtUp, pending, old, published>>
  /\ busUnchanged

\* A stopped consume context is closed once its callback has returned.
SessionCloses(g) ==
  /\ session[g] = "draining" /\ handler[g] = "idle"
  /\ session' = [session EXCEPT ![g] = "closed"]
  /\ UNCHANGED <<stopErr, spawned, handler, last, caughtUp, pending, old, published>>
  /\ busUnchanged

\* A drained command or query subscription ends.
DrainEnds(r) ==
  /\ session[r] = "draining"
  /\ session' = [session EXCEPT ![r] = "closed"]
  /\ UNCHANGED <<stopErr, spawned, handler, last, caughtUp, pending, old, published>>
  /\ busUnchanged

\* The context given to Connect ends.
CancelContext ==
  /\ phase # "idle" /\ ~cancelled
  /\ cancelled' = TRUE
  /\ UNCHANGED <<running, stopErr, sub, connectVars, disconnectVars, spawned,
                 sessionVars, published>>

\* Someone publishes an event for an ordered group.
Publish(o) ==
  /\ published < MaxPublished
  /\ published' = published + 1
  /\ pending' = [pending EXCEPT ![o] = @ + 1]
  /\ UNCHANGED <<stopErr, spawned, session, handler, last, caughtUp, old>>
  /\ busUnchanged

-----------------------------------------------------------------------------
Init ==
  /\ running = FALSE /\ closed = FALSE /\ cancelled = FALSE
  /\ stopErr = "none" /\ sub = {} /\ done = "open"
  /\ phase = "idle" /\ todo = {} /\ starting = "none"
  /\ closing = "no" /\ subs = {} /\ stopFailed = FALSE /\ spawned = FALSE
  /\ session = [r \in Regs |-> "none"]
  /\ handler = [g \in EventGroups |-> "idle"]
  /\ last = [g \in EventGroups |-> FALSE]
  /\ caughtUp = {}
  /\ pending = [o \in Ordered |-> 0] /\ old = [o \in Ordered |-> 0]
  /\ published = 0

ConnectStep ==
  \/ NextPhase \/ RecordEvents \/ RecordReplies \/ Discard \/ Discarded \/ StartFails
  \/ AllCaughtUp \/ WaitCancelled \/ Cleanup \/ CleanedUp
  \/ \E g \in EventGroups : SubscribeEvents(g)
  \/ \E r \in Replies : SubscribeReplies(r)

DisconnectStep ==
  \/ SpawnedDisconnect \/ Cancel \/ SignalDone
  \/ \E g \in EventGroups : StopEvents(g)
  \/ \E r \in Replies : StopReplies(r)

SessionStep(g) ==
  \/ HandlerReturns(g) \/ HandlerFails(g) \/ StopItself(g)
  \/ StopOnCancel(g) \/ SessionCloses(g)

Next ==
  \/ Connect \/ ConnectClosed \/ UserDisconnect \/ CancelContext
  \/ ConnectStep \/ DisconnectStep
  \/ \E g \in EventGroups : SessionStep(g) \/ Deliver(g) \/ TransportFails(g)
  \/ \E r \in Replies : DrainEnds(r)
  \/ \E o \in Ordered : Publish(o)

Spec == Init /\ [][Next]_vars

\* Goroutines run, handlers return, JetStream delivers what is pending.
FairSpec ==
  /\ Spec
  /\ WF_vars(ConnectStep) /\ WF_vars(DisconnectStep)
  /\ \A g \in EventGroups : WF_vars(SessionStep(g))
  /\ \A o \in Ordered : WF_vars(Deliver(o))

-----------------------------------------------------------------------------
(* Properties *)

\* The state of the bus and of its sessions is well formed.
TypeOK ==
  /\ {running, closed, cancelled, stopFailed, spawned} \subseteq BOOLEAN
  /\ stopErr \in EventGroups \cup {"none"}
  /\ sub \subseteq Regs /\ subs \subseteq Regs /\ todo \subseteq Regs
  /\ done \in {"open", "nil", "stop", "error"}
  /\ phase \in DOMAIN StartedIn \cup
               {"idle", "wait", "cleanup", "closing", "failed", "connected"}
  /\ starting \in Regs \cup {"none"}
  /\ closing \in {"no", "cancel", "stop", "returned"}
  /\ session \in [Regs -> {"none", "open", "draining", "closed"}]
  /\ handler \in [EventGroups -> {"idle", "busy", "failed"}]
  /\ last \in [EventGroups -> BOOLEAN]
  /\ caughtUp \subseteq Ordered
  /\ pending \in [Ordered -> Nat] /\ old \in [Ordered -> Nat]
  /\ published \in 0..MaxPublished

\* README.md, "Stream Creation": ordered handlers "catch up before command
\* and queue handlers start".  Whatever fails or is cancelled on the way, when
\* a command, query or queue subscription exists the handlers of every event
\* that preceded the ordered subscriptions have returned.
CatchUpFirst ==
  \A r \in Replies \cup Queues : session[r] # "none" =>
    \A o \in Ordered : session[o] # "none" /\ old[o] = 0

\* Once Done is closed no event handler runs and no event subscription is
\* alive, but for one that a racing Connect is about to discard.
DoneMeansStopped ==
  done # "open" => \A g \in EventGroups :
    g # starting => session[g] \in {"none", "closed"} /\ handler[g] = "idle"

\* An error of a subscription that Disconnect waits for is delivered on Done,
\* even if it happens while the bus is being stopped for another reason.
ErrorIsReported ==
  done # "open" /\ stopErr \in subs => done = "error"

\* Connect returns, whoever stops the bus meanwhile.
ConnectReturns ==
  phase \notin {"idle", "connected", "failed"} ~> phase \in {"connected", "failed"}

\* A Disconnect, and an error that the policy does not tolerate, closes Done:
\* nobody waits for a session that waits for him.
StopCompletes == closed \/ stopErr # "none" ~> done # "open"
=============================================================================
