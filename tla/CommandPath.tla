----------------------------- MODULE CommandPath -----------------------------
(***************************************************************************)
(* A command from Bus.DispatchCommand to the event store and back:         *)
(* the NATS dispatcher (nats/command_bus.go), the queue subscriptions of   *)
(* several buses, the conflict retries of Bus (bus.go) around a handler    *)
(* that calls event.Execute, and the reply.  Execute over the store is     *)
(* taken from AggregateLog, which EventStore implements: a server is one   *)
(* of its workers.  Core NATS is external; it keeps nothing, and a request *)
(* or a reply may be lost.                                                 *)
(***************************************************************************)
EXTENDS Domain, FiniteSets

CONSTANTS
  Undecodable,    \* commands that the servers' registries do not know
  Option,         \* BusOptions.CommandConflictRetries
  DefaultRetries, \* what 0 stands for: 5 in the code
  MaxRequests,    \* bound: requests
  MaxFaults       \* bound: lost messages, crashes and stops

ASSUME CommandAssumption ==
  /\ Undecodable \subseteq Commands
  /\ Option \in Int /\ DefaultRetries \in Nat \ {0}
  /\ MaxRequests \in Nat /\ MaxFaults \in Nat

Servers == Workers
Requests == 1..MaxRequests

VARIABLES
  log, phase, call, result, doubt,  \* the store: see AggregateLog
  cmd,     \* cmd[r]: the command of request r
  client,  \* client[r]: "unused", "waiting", or what DispatchCommand returned
  state,   \* state[s]: "up", "draining" or "down"
  queue,   \* queue[s]: requests its subscription has not handed over yet
  step,    \* step[s]: where its handler is, or what it has to respond
  cur,     \* cur[s]: the request it is at
  attempt, \* attempt[s]: calls of the command handler so far
  faults

storeVars == <<log, phase, call, result, doubt>>
serverVars == <<state, queue, step, cur, attempt>>
vars == <<storeVars, cmd, client, serverVars, faults>>

Store == INSTANCE AggregateLog

Fault == faults < MaxFaults /\ faults' = faults + 1
GoTo(s, where) == step' = [step EXCEPT ![s] = where]

Init ==
  /\ Store!Init
  /\ cmd \in [Requests -> Commands]
  /\ client = [r \in Requests |-> "unused"]
  /\ state = [s \in Servers |-> "down"] /\ queue = [s \in Servers |-> <<>>]
  /\ step = [s \in Servers |-> "idle"] /\ cur = [s \in Servers |-> 0]
  /\ attempt = [s \in Servers |-> 0]
  /\ faults = 0

-----------------------------------------------------------------------------
(* Dispatcher.request *)

\* The request reaches one subscription of the queue group, or is lost.
Dispatch(r) ==
  /\ client[r] = "unused" /\ \A q \in 1..(r - 1) : client[q] # "unused"
  /\ client' = [client EXCEPT ![r] = "waiting"]
  /\ \/ \E s \in Servers : /\ state[s] = "up"
                           /\ queue' = [queue EXCEPT ![s] = Append(@, r)]
                           /\ UNCHANGED faults
     \/ Fault /\ UNCHANGED queue
  /\ UNCHANGED <<storeVars, cmd, state, step, cur, attempt>>

\* ErrNoResponders: NATS knows of no subscription.
DispatchNowhere(r) ==
  /\ client[r] = "unused" /\ \A q \in 1..(r - 1) : client[q] # "unused"
  /\ \A s \in Servers : state[s] # "up"
  /\ client' = [client EXCEPT ![r] = "noresponders"]
  /\ UNCHANGED <<storeVars, cmd, serverVars, faults>>

\* The deadline of the context: RequestTimeout unless the caller set one.
Timeout(r) ==
  /\ client[r] = "waiting"
  /\ client' = [client EXCEPT ![r] = "timeout"]
  /\ UNCHANGED <<storeVars, cmd, serverVars, faults>>

\* The envelope of a reply, for a caller that still waits.
Reply(r, answer) ==
  client' = IF client[r] = "waiting" THEN [client EXCEPT ![r] = answer] ELSE client

-----------------------------------------------------------------------------
(* CommandSubscriber.handle, Bus.withCommandConflictRetry *)

Take(s) ==
  /\ state[s] # "down" /\ step[s] = "idle" /\ queue[s] # <<>>
  /\ cur' = [cur EXCEPT ![s] = Head(queue[s])]
  /\ queue' = [queue EXCEPT ![s] = Tail(@)]
  /\ attempt' = [attempt EXCEPT ![s] = 0]
  /\ GoTo(s, IF cmd[cur'[s]] \in Undecodable THEN "error" ELSE "attempt")
  /\ UNCHANGED <<storeVars, cmd, client, state, faults>>

\* NewBus.
CommandConflictRetries == IF Option = 0 THEN DefaultRetries ELSE Option

\* Mutants: one attempt more, and attempts that are not counted.
Attempt_OneMore(s) ==
  /\ step[s] = "attempt" /\ attempt[s] <= CommandConflictRetries
  /\ attempt' = [attempt EXCEPT ![s] = @ + 1]
  /\ Store!Call(s, cmd[cur[s]])
  /\ GoTo(s, "running")
  /\ UNCHANGED <<cmd, client, state, queue, cur, faults>>
Attempt_Uncounted(s) ==
  /\ step[s] = "attempt" /\ attempt[s] < CommandConflictRetries
  /\ Store!Call(s, cmd[cur[s]])
  /\ GoTo(s, "running")
  /\ UNCHANGED <<cmd, client, state, queue, cur, attempt, faults>>

\* The handler is called, and calls Execute.
Attempt(s) ==
  /\ step[s] = "attempt" /\ attempt[s] < CommandConflictRetries
  /\ attempt' = [attempt EXCEPT ![s] = @ + 1]
  /\ Store!Call(s, cmd[cur[s]])
  /\ GoTo(s, "running")
  /\ UNCHANGED <<cmd, client, state, queue, cur, faults>>

\* Mutant: the loop ends with nil.
GiveUp_Nil(s) ==
  /\ step[s] = "attempt" /\ attempt[s] >= CommandConflictRetries
  /\ GoTo(s, "ok")
  /\ UNCHANGED <<storeVars, cmd, client, state, queue, cur, attempt, faults>>

\* The loop ends: lastErr is a conflict, or nil if there was no attempt.
GiveUp(s) ==
  /\ step[s] = "attempt" /\ attempt[s] >= CommandConflictRetries
  /\ GoTo(s, IF attempt[s] = 0 THEN "ok" ELSE "conflict")
  /\ UNCHANGED <<storeVars, cmd, client, state, queue, cur, attempt, faults>>

\* Execute takes effect and returns.  It returns an error at any time: its
\* context may be done, as after Disconnect, or the store out of reach.
Execute(s) ==
  /\ step[s] = "running"
  /\ Store!Apply(s) \/ Store!ReturnOk(s) \/ Store!ReturnConflict(s) \/ Store!ReturnError(s)
  /\ UNCHANGED <<cmd, client, serverVars, faults>>

\* A request of a failed call arrives at the store, or is gone.
Resolve(c) ==
  /\ Store!Resolve(c)
  /\ UNCHANGED <<cmd, client, serverVars, faults>>

\* Mutant: any error is retried.
Executed_RetryAny(s) ==
  /\ step[s] = "running" /\ phase[s] = "idle"
  /\ GoTo(s, IF result[s] = "ok" THEN "ok" ELSE "attempt")
  /\ UNCHANGED <<storeVars, cmd, client, state, queue, cur, attempt, faults>>

\* Only a conflict is retried.
Executed(s) ==
  /\ step[s] = "running" /\ phase[s] = "idle"
  /\ GoTo(s, IF result[s] = "conflict" THEN "attempt" ELSE result[s])
  /\ UNCHANGED <<storeVars, cmd, client, state, queue, cur, attempt, faults>>

\* The reply arrives or is lost.
Respond(s) ==
  /\ step[s] \in {"ok", "conflict", "error"}
  /\ \/ Reply(cur[s], step[s]) /\ UNCHANGED faults
     \/ Fault /\ UNCHANGED client
  /\ GoTo(s, "idle")
  /\ UNCHANGED <<storeVars, cmd, state, queue, cur, attempt>>

-----------------------------------------------------------------------------
(* Connect, Disconnect, crash *)

Connect(s) ==
  /\ state[s] = "down"
  /\ state' = [state EXCEPT ![s] = "up"]
  /\ UNCHANGED <<storeVars, cmd, client, queue, step, cur, attempt, faults>>

\* natsSubscriptions.Stop drains: what has arrived is still handled.
Disconnect(s) ==
  /\ state[s] = "up" /\ Fault
  /\ state' = [state EXCEPT ![s] = "draining"]
  /\ UNCHANGED <<storeVars, cmd, client, queue, step, cur, attempt>>

Drained(s) ==
  /\ state[s] = "draining" /\ queue[s] = <<>> /\ step[s] = "idle"
  /\ state' = [state EXCEPT ![s] = "down"]
  /\ UNCHANGED <<storeVars, cmd, client, queue, step, cur, attempt, faults>>

\* The process dies; so it does when a command handler panics.
Crash(s) ==
  /\ state[s] # "down" /\ Fault
  /\ state' = [state EXCEPT ![s] = "down"]
  /\ queue' = [queue EXCEPT ![s] = <<>>]
  /\ GoTo(s, "idle")
  /\ IF phase[s] = "idle" THEN UNCHANGED storeVars ELSE Store!ReturnError(s)
  /\ UNCHANGED <<cmd, client, cur, attempt>>

-----------------------------------------------------------------------------
\* What the goroutine of a subscription does itself.
Serving(s) == Take(s) \/ Attempt(s) \/ GiveUp(s) \/ Executed(s) \/ Respond(s)
Handling(s) == Serving(s) \/ Execute(s)

Next ==
  \/ \E r \in Requests : Dispatch(r) \/ DispatchNowhere(r) \/ Timeout(r)
  \/ \E s \in Servers : \/ Handling(s) \/ Connect(s) \/ Disconnect(s)
                        \/ Drained(s) \/ Crash(s)
  \/ \E c \in Commands : Resolve(c)

Spec == Init /\ [][Next]_vars

\* A server's goroutine runs.  That Execute returns is not assumed: a handler has
\* the context of Connect, without a deadline, and the answer to a batch may be
\* lost (Unanswered, EventStore).
FairSpec == Spec /\ \A s \in Servers : WF_vars(Serving(s))

InExecute(s) == step[s] = "running" /\ phase[s] # "idle"

-----------------------------------------------------------------------------
Answers == {"ok", "conflict", "error"}

TypeOK ==
  /\ Store!TypeOK
  /\ cmd \in [Requests -> Commands]
  /\ client \in [Requests -> Answers \cup {"unused", "waiting", "timeout", "noresponders"}]
  /\ state \in [Servers -> {"up", "draining", "down"}]
  /\ queue \in [Servers -> Seq(Requests)]
  /\ step \in [Servers -> Answers \cup {"idle", "attempt", "running"}]
  /\ cur \in [Servers -> {0} \cup Requests]
  /\ \A s \in Servers : attempt[s] \in 0..CommandConflictRetries
  /\ faults \in 0..MaxFaults

\* How often command c has taken effect.
Effects(c) ==
  Cardinality({i \in DOMAIN log[AggOf[c]] : log[AggOf[c]][i] = Outcome[c][1]})

Answered(c, answers) == {r \in Requests : cmd[r] = c /\ client[r] \in answers}

\* A nil error means that the command has taken effect: each success of a
\* command that is not idempotent has an effect of its own in the log.
OkIsDurable ==
  \A c \in Commands :
    IF c \in Idempotent
    THEN Answered(c, {"ok"}) # {} => Effects(c) > 0
    ELSE Cardinality(Answered(c, {"ok"})) <= Effects(c)

\* A dispatched command takes effect at most once, however often the handler is
\* retried, crashes or answers late; and never if the caller was told that
\* there was nobody to handle it or that it lost every race.
AtMostOnce ==
  \A c \in Commands :
    Effects(c) <=
      Cardinality(Answered(c, {"waiting", "ok", "error", "timeout"}))

\* Every command that reaches a server is dealt with: none that conflicts, fails
\* or cannot be decoded blocks the ones behind it.  Only one whose Execute never
\* returns does: a queue is empty again and again.
NothingIsStuck ==
  \A s \in Servers : []<>(queue[s] = <<>>) \/ <>[]InExecute(s)
=============================================================================
