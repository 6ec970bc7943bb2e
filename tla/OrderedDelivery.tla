--------------------------- MODULE OrderedDelivery ---------------------------
(***************************************************************************)
(* One ordered event group of event.Bus (startOrderedGroup in bus.go) with *)
(* its cursor store, over the ordered consumer of nats/subscriber.go, as   *)
(* the process that owns it stops, fails, crashes and starts again.  A bus *)
(* cannot be connected twice, so each start uses a new one.  Bus models    *)
(* the connection itself; here Connect is a load of the cursor and a       *)
(* subscription.                                                           *)
(***************************************************************************)
EXTENDS Naturals, Sequences

CONSTANTS
  Buses,       \* event.Bus values, used again once they are gone
  Undecodable, \* positions of events the registry or the codec rejects
  Word,        \* a cursor is 8 bytes, big endian: here two digits of base Word
  MaxEvents,   \* bound: events published
  MaxFaults    \* bound: failures, cancellations and crashes

ASSUME OrderedAssumption ==
  /\ Word \in Nat \ {0} /\ MaxEvents \in Nat /\ MaxFaults \in Nat
  /\ MaxEvents < Word * Word
  /\ Undecodable \subseteq 1..MaxEvents

NoCursor == <<>>

\* nats/cursor.go
cursorFromSeq(seq) == <<seq \div Word, seq % Word>>
cursorToSeq(c) == IF Len(c) # 2 THEN 0 ELSE c[1] * Word + c[2]

VARIABLES
  opts,      \* BusOptions: boot, policy and the kind of cursor store
  len,       \* events in the stream
  cursor,    \* what the cursor store holds for the group
  state,     \* state[b]: "off", "loading", "up" or "stopping"
  loaded,    \* loaded[b]: the cursor that LoadCursor returned
  at,        \* at[b]: the position the session has reached
  step,      \* step[b]: what the session's callback is doing with event at[b]
  cancelled, \* buses whose runCtx is done
  from, applied, given,  \* the read model: see Projection
  faults

sessionVars == <<state, loaded, at, step, cancelled>>
modelVars == <<from, applied, given>>
vars == <<opts, len, cursor, sessionVars, modelVars, faults>>

Fault == faults < MaxFaults /\ faults' = faults + 1

\* A cursor of another length is what some other transport may have stored.
Init ==
  /\ opts \in [boot : {"all", "new"}, policy : BOOLEAN,
               store : {"none", "memory", "durable"}]
  /\ cursor \in {NoCursor} \cup (IF opts.store = "durable" THEN {<<0>>} ELSE {})
  /\ len = 0 /\ faults = 0
  /\ state = [b \in Buses |-> "off"] /\ step = [b \in Buses |-> "idle"]
  /\ loaded = [b \in Buses |-> NoCursor] /\ at = [b \in Buses |-> 0]
  /\ cancelled = {}
  /\ from = 1 /\ applied = {} /\ given = {}

Publish ==
  /\ len < MaxEvents
  /\ len' = len + 1
  /\ UNCHANGED <<opts, cursor, sessionVars, modelVars, faults>>

-----------------------------------------------------------------------------
(* Connect *)

\* The owner starts a fresh bus when the last one is done; LoadCursor.
Connect(b) ==
  /\ step[b] = "idle"
  /\ \A other \in Buses : state[other] = "off"
  /\ state' = [state EXCEPT ![b] = "loading"]
  /\ loaded' = [loaded EXCEPT ![b] = cursor]
  /\ UNCHANGED <<opts, len, cursor, at, step, cancelled, modelVars, faults>>

\* LoadCursor or SubscribeEvents returns an error: Connect disconnects.
ConnectFails(b) ==
  /\ state[b] = "loading" /\ Fault
  /\ state' = [state EXCEPT ![b] = "off"]
  /\ UNCHANGED <<opts, len, cursor, loaded, at, step, cancelled, modelVars>>

\* Mutant: the cursor is taken for the next event.
StartSeq_Repeats(c) ==
  IF c # NoCursor THEN cursorToSeq(c)
  ELSE IF opts.boot = "all" THEN 1 ELSE len + 1

\* The first position that subscribeOrdered asks the consumer for.
StartSeq(c) ==
  IF c # NoCursor THEN cursorToSeq(c) + 1
  ELSE IF opts.boot = "all" THEN 1 ELSE len + 1

Subscribe(b) ==
  /\ state[b] = "loading"
  /\ state' = [state EXCEPT ![b] = "up"]
  /\ at' = [at EXCEPT ![b] = StartSeq(loaded[b]) - 1]
  /\ from' = IF cursorToSeq(loaded[b]) = 0 THEN at'[b] + 1 ELSE from
  /\ UNCHANGED <<opts, len, cursor, loaded, step, cancelled, applied, given, faults>>

-----------------------------------------------------------------------------
(* consumeSession.handleMessage *)

\* The consumer hands over the next event (external).  decodeEvent logs and
\* passes over one it cannot decode.
Deliver(b) ==
  /\ state[b] = "up" /\ step[b] = "idle" /\ at[b] < len
  /\ at' = [at EXCEPT ![b] = @ + 1]
  /\ IF at'[b] \in Undecodable
     THEN given' = given \cup {at'[b]} /\ UNCHANGED step
     ELSE step' = [step EXCEPT ![b] = "handling"] /\ UNCHANGED given
  /\ UNCHANGED <<opts, len, cursor, state, loaded, cancelled, from, applied, faults>>

\* dispatchEventGroup returns nil; the wrapper goes on to SaveCursor.
Handled(b) ==
  /\ step[b] = "handling"
  /\ applied' = applied \cup {at[b]}
  /\ step' = [step EXCEPT ![b] = IF opts.store = "none" THEN "idle" ELSE "saving"]
  /\ UNCHANGED <<opts, len, cursor, state, loaded, at, cancelled, from, given, faults>>

\* A handler returns an error or panics.
HandlerFails(b) ==
  /\ step[b] = "handling" /\ Fault
  /\ step' = [step EXCEPT ![b] = "failed"]
  /\ UNCHANGED <<opts, len, cursor, state, loaded, at, cancelled, modelVars>>

\* MemoryCursorStore refuses a context that is done.
CtxErr(b) == opts.store = "memory" /\ b \in cancelled

SaveCursor(b) ==
  /\ step[b] = "saving" /\ ~CtxErr(b)
  /\ cursor' = cursorFromSeq(at[b])
  /\ step' = [step EXCEPT ![b] = "idle"]
  /\ UNCHANGED <<opts, len, state, loaded, at, cancelled, modelVars, faults>>

\* Mutant: a cursor that could not be saved is saved again, until that succeeds.
SaveFails_Retried(b) ==
  /\ step[b] = "saving"
  /\ opts.store = "durable" /\ Fault
  /\ cursor' \in {cursor, cursorFromSeq(at[b])}
  /\ UNCHANGED <<opts, len, state, loaded, at, step, cancelled, modelVars>>

\* The error of a remote store does not say whether it has saved the cursor.
SaveFails(b) ==
  /\ step[b] = "saving"
  /\ \/ CtxErr(b) /\ UNCHANGED <<cursor, faults>>
     \/ /\ opts.store = "durable" /\ Fault
        /\ cursor' \in {cursor, cursorFromSeq(at[b])}
  /\ step' = [step EXCEPT ![b] = "failed"]
  /\ UNCHANGED <<opts, len, state, loaded, at, cancelled, modelVars>>

\* onError of an ordered session, makeOnError(false): without a policy, or if
\* the policy agrees, the event is given up and the session goes on.
Tolerate(b) ==
  /\ step[b] = "failed"
  /\ given' = given \cup {at[b]}
  /\ step' = [step EXCEPT ![b] = "idle"]
  /\ UNCHANGED <<opts, len, cursor, state, loaded, at, cancelled, from, applied, faults>>

\* Otherwise the session stops itself and a goroutine calls Disconnect.
Escalate(b) ==
  /\ step[b] = "failed" /\ opts.policy
  /\ step' = [step EXCEPT ![b] = "idle"]
  /\ state' = [state EXCEPT ![b] = "stopping"]
  /\ cancelled' = cancelled \cup {b}
  /\ UNCHANGED <<opts, len, cursor, loaded, at, modelVars, faults>>

-----------------------------------------------------------------------------
(* Disconnect *)

\* Disconnect cancels runCtx.  Until the consumer is told to stop, events still
\* arrive.  The end of the context of Connect alone would also stop the session,
\* but leave Done open: the owner here is one that then calls Disconnect too.
Cancel(b) ==
  /\ state[b] = "up" /\ b \notin cancelled /\ Fault
  /\ cancelled' = cancelled \cup {b}
  /\ UNCHANGED <<opts, len, cursor, state, loaded, at, step, modelVars>>

Stop(b) ==
  /\ state[b] = "up" /\ b \in cancelled
  /\ state' = [state EXCEPT ![b] = "stopping"]
  /\ UNCHANGED <<opts, len, cursor, loaded, at, step, cancelled, modelVars, faults>>

\* Mutant: Done is closed without waiting for the callback.
Done_AtOnce(b) ==
  /\ state[b] = "stopping"
  /\ state' = [state EXCEPT ![b] = "off"]
  /\ cancelled' = cancelled \ {b}
  /\ UNCHANGED <<opts, len, cursor, loaded, at, step, modelVars, faults>>

\* Stop of the session returns when its callback has: Done is closed.
Done(b) ==
  /\ state[b] = "stopping" /\ step[b] = "idle"
  /\ state' = [state EXCEPT ![b] = "off"]
  /\ cancelled' = cancelled \ {b}
  /\ UNCHANGED <<opts, len, cursor, loaded, at, step, modelVars, faults>>

\* The process dies.  With a memory store that is the end of the read model
\* too: nothing of this behaviour is left.
Crash(b) ==
  /\ state[b] # "off" /\ opts.store # "memory" /\ Fault
  /\ state' = [state EXCEPT ![b] = "off"]
  /\ step' = [step EXCEPT ![b] = "idle"]
  /\ cancelled' = cancelled \ {b}
  /\ UNCHANGED <<opts, len, cursor, loaded, at, modelVars>>

-----------------------------------------------------------------------------
SessionStep(b) ==
  \/ Subscribe(b) \/ Deliver(b) \/ Handled(b) \/ SaveCursor(b) \/ SaveFails(b)
  \/ Tolerate(b) \/ Escalate(b) \/ Stop(b) \/ Done(b)

Next ==
  \/ Publish
  \/ \E b \in Buses : \/ Connect(b) \/ ConnectFails(b) \/ SessionStep(b)
                      \/ HandlerFails(b) \/ Cancel(b) \/ Crash(b)

Spec == Init /\ [][Next]_vars

\* Goroutines run, handlers return, and whoever owns the process starts a new
\* bus when Done is closed or the process has died.
Fairness ==
  /\ WF_vars(\E b \in Buses : Connect(b))
  /\ \A b \in Buses : WF_vars(SessionStep(b))

FairSpec == Spec /\ Fairness

-----------------------------------------------------------------------------
TypeOK ==
  /\ opts \in [boot : {"all", "new"}, policy : BOOLEAN,
               store : {"none", "memory", "durable"}]
  /\ len \in 0..MaxEvents /\ faults \in 0..MaxFaults
  /\ cursor \in Seq(0..(Word - 1))
  /\ state \in [Buses -> {"off", "loading", "up", "stopping"}]
  /\ loaded \in [Buses -> Seq(0..(Word - 1))]
  /\ at \in [Buses -> 0..MaxEvents]
  /\ step \in [Buses -> {"idle", "handling", "saving", "failed"}]
  /\ cancelled \subseteq Buses
  /\ from \in 1..(MaxEvents + 1)
  /\ applied \subseteq 1..MaxEvents /\ given \subseteq 1..MaxEvents

Model == INSTANCE Projection
           WITH replay <- (opts.boot = "all"), mark <- cursorToSeq(cursor)

\* Handlers see every event from where they joined, in order; a restart repeats
\* no event that a saved cursor covers; and no cursor is saved past an event
\* that was neither applied nor reported, whatever fails, stops or crashes.
ImplementsProjection == Model!Spec

\* With CursorBootAll every event is in the end applied or given up, through
\* any bounded number of failures, disconnections and crashes.
EventuallySettled ==
  \A e \in 1..MaxEvents :
    (opts.boot = "all" /\ e <= len) ~> (e \in Model!Settled)

=============================================================================
