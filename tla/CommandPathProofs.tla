------------------------- MODULE CommandPathProofs -------------------------
(***************************************************************************)
(* For every number of servers, requests and faults: a dispatched command  *)
(* takes effect at most once, and a nil error means that it has.           *)
(***************************************************************************)
EXTENDS CommandPath, FiniteSetTheorems, TLAPS

-----------------------------------------------------------------------------
(* The inductive invariant *)

\* Execute runs for the request that the handler is at.
PhaseInv(s) ==
  /\ step[s] # "idle" => cur[s] \in Requests
  /\ phase[s] # "idle" => step[s] = "running" /\ call[s] = cmd[cur[s]]
  /\ step[s] = "running" /\ phase[s] = "idle" => result[s] \in Answers

\* A request is in one place at most, and is not answered while it is there.
Queued(s, r) == \E i \in 1..Len(queue[s]) : queue[s][i] = r
Handled(s, r) == step[s] # "idle" /\ cur[s] = r
PlaceInv ==
  /\ \A s \in Servers, r \in Requests : Queued(s, r) \/ Handled(s, r) =>
       client[r] \in {"waiting", "timeout"}
  /\ \A s \in Servers, r \in Requests : Queued(s, r) => \A t \in Servers : ~Handled(t, r)
  /\ \A s, t \in Servers, r \in Requests : Handled(s, r) /\ Handled(t, r) => s = t
  /\ \A s, t \in Servers : \A i \in 1..Len(queue[s]), j \in 1..Len(queue[t]) :
       queue[s][i] = queue[t][j] => s = t /\ i = j

ClientTypes ==
  /\ cmd \in [Requests -> Commands]
  /\ client \in [Requests -> Answers \cup {"unused", "waiting", "timeout", "noresponders"}]
ServerTypes ==
  /\ state \in [Servers -> {"up", "draining", "down"}]
  /\ queue \in [Servers -> Seq(Requests)]
  /\ step \in [Servers -> Answers \cup {"idle", "attempt", "running"}]
  /\ cur \in [Servers -> {0} \cup Requests]
  /\ attempt \in [Servers -> 0..CommandConflictRetries]

Inv ==
  /\ Store!TypeOK /\ ClientTypes /\ ServerTypes /\ faults \in 0..MaxFaults
  /\ \A s \in Servers : PhaseInv(s)
  /\ PlaceInv

\* The handler of s has not taken effect yet, and may never do so.
Pending(s) ==
  \/ step[s] \in {"attempt", "conflict"}
  \/ step[s] = "running" /\ phase[s] = "running"
  \/ step[s] = "running" /\ phase[s] = "idle" /\ result[s] = "conflict"

\* Requests that have no effect, neither in the log nor on the way to it.
Free(r) ==
  \/ client[r] \in {"unused", "conflict", "noresponders"}
  \/ \E s \in Servers : Queued(s, r)
  \/ \E s \in Servers : Pending(s) /\ cur[s] = r
Used(c) == {r \in Requests : cmd[r] = c /\ ~Free(r)}

\* Every effect, and every call in doubt, has a request of its own.
UsedInv == \A c \in Commands : Effects(c) + doubt[c] <= Cardinality(Used(c))

\* The handler of s has taken effect, and has reported no error.
Succeeded(s) ==
  \/ step[s] = "ok"
  \/ step[s] = "running" /\ phase[s] = "applied"
  \/ step[s] = "running" /\ phase[s] = "idle" /\ result[s] = "ok"
Success(r) == client[r] = "ok" \/ \E s \in Servers : Succeeded(s) /\ cur[s] = r
Done(c) == {r \in Requests : cmd[r] = c /\ Success(r)}

\* Every success has an effect in the log, and its own unless the command is
\* idempotent.
DoneInv ==
  \A c \in Commands :
    IF c \in Idempotent THEN Done(c) # {} => Effects(c) > 0
                        ELSE Cardinality(Done(c)) <= Effects(c)

-----------------------------------------------------------------------------
(* Lemmas *)

LEMMA RetriesType ==
  ASSUME Option >= 0
  PROVE  CommandConflictRetries \in Nat \ {0}
BY CommandAssumption DEF CommandConflictRetries

LEMMA InvTypes == Inv => TypeOK
BY DEF Inv, TypeOK, ClientTypes, ServerTypes

\* Places only become fewer: what is in one is still in one at most.
LEMMA PlaceLess ==
  ASSUME PlaceInv,
         \A t \in Servers : queue'[t] = queue[t] \/ queue'[t] = <<>>,
         \A t \in Servers, q \in Requests : Handled(t, q)' => Handled(t, q),
         \A t \in Servers, q \in Requests : Queued(t, q)' \/ Handled(t, q)' =>
           client'[q] \in {client[q], "timeout"}
  PROVE  PlaceInv'
<1>1. \A t \in Servers, q \in Requests : Queued(t, q)' => Queued(t, q)
  BY DEF Queued
<1>2. \A t \in Servers, q \in Requests : Queued(t, q)' \/ Handled(t, q)' =>
        client'[q] \in {"waiting", "timeout"}
  BY <1>1 DEF PlaceInv
<1>3. \A t, u \in Servers : \A i \in 1..Len(queue'[t]), j \in 1..Len(queue'[u]) :
        queue'[t][i] = queue'[u][j] => t = u /\ i = j
  <2> SUFFICES ASSUME NEW t \in Servers, NEW u \in Servers,
                      NEW i \in 1..Len(queue'[t]), NEW j \in 1..Len(queue'[u])
               PROVE  queue'[t][i] = queue'[u][j] => t = u /\ i = j
    OBVIOUS
  <2>1. queue'[t] = queue[t] /\ queue'[u] = queue[u]
    OBVIOUS
  <2> QED
    BY <2>1 DEF PlaceInv
<1> QED
  BY <1>1, <1>2, <1>3 DEF PlaceInv

\* The store appends the whole outcome of a command, or nothing.
LEMMA AppendShape ==
  ASSUME Store!TypeOK, NEW c \in Commands, Store!Append1(c)
  PROVE  /\ log' = [log EXCEPT ![AggOf[c]] = @ \o Outcome[c]]
         /\ log' \in [Aggregates -> Seq(Events)]
<1>1. /\ AggOf[c] \in Aggregates /\ Outcome[c] \in Seq(Events)
      /\ log \in [Aggregates -> Seq(Events)]
  BY DomainAssumption DEF Store!TypeOK, Store!State
<1>2. Store!Decide(c, log[AggOf[c]]) = Outcome[c]
  BY DEF Store!Append1, Store!Decide
<1>3. log' = [log EXCEPT ![AggOf[c]] = @ \o Outcome[c]]
  BY <1>2 DEF Store!Append1
<1>4. log[AggOf[c]] \o Outcome[c] \in Seq(Events)
  BY <1>1
<1> QED
  BY <1>1, <1>3, <1>4

\* A step of Execute, whatever it is, for the other variables of the store.
ExecuteStep(s) ==
  Store!Apply(s) \/ Store!ReturnOk(s) \/ Store!ReturnConflict(s) \/ Store!ReturnError(s)

LEMMA ExecuteShape ==
  ASSUME Store!TypeOK, NEW s \in Servers, ExecuteStep(s)
  PROVE  /\ call' = call /\ phase[s] # "idle"
         /\ \A u \in Servers : u # s => phase'[u] = phase[u] /\ result'[u] = result[u]
         /\ \/ /\ phase[s] = "running" /\ phase'[s] = "applied"
               /\ Store!Append1(call[s]) /\ UNCHANGED <<result, doubt>>
            \/ /\ phase'[s] = "idle" /\ result'[s] = "ok" /\ UNCHANGED <<log, doubt>>
               /\ phase[s] = "applied" \/ Store!Decide(call[s], log[AggOf[call[s]]]) = <<>>
            \/ /\ phase[s] = "running" /\ phase'[s] = "idle" /\ result'[s] = "conflict"
               /\ UNCHANGED <<log, doubt>>
            \/ /\ phase'[s] = "idle" /\ result'[s] = "error" /\ UNCHANGED log
               /\ \/ UNCHANGED doubt
                  \/ phase[s] = "running" /\ doubt' = [doubt EXCEPT ![call[s]] = @ + 1]
<1>1. CASE Store!Apply(s)
  BY <1>1 DEF Store!Apply, Store!TypeOK, Servers
<1>2. CASE Store!ReturnOk(s)
  BY <1>2 DEF Store!ReturnOk, Store!Return, Store!TypeOK, Servers
<1>3. CASE Store!ReturnConflict(s)
  BY <1>3 DEF Store!ReturnConflict, Store!Return, Store!TypeOK, Servers
<1>4. CASE Store!ReturnError(s)
  BY <1>4 DEF Store!ReturnError, Store!Return, Store!TypeOK, Servers
<1> QED
  BY <1>1, <1>2, <1>3, <1>4 DEF ExecuteStep

LEMMA ExecuteTypes ==
  ASSUME Store!TypeOK, NEW s \in Servers, ExecuteStep(s)
  PROVE  Store!TypeOK'
<1>1. CASE Store!Apply(s)
  <2>1. call[s] \in Commands
    BY DEF Store!TypeOK, Servers
  <2>2. log' \in [Aggregates -> Seq(Events)]
    BY <1>1, <2>1, AppendShape DEF Store!Apply
  <2> QED
    BY <1>1, <2>2 DEF Store!Apply, Store!TypeOK, Store!State, Servers
<1>2. CASE Store!ReturnOk(s) \/ Store!ReturnConflict(s)
  BY <1>2 DEF Store!ReturnOk, Store!ReturnConflict, Store!Return, Store!TypeOK, Store!Results,
              Servers
<1>3. CASE Store!ReturnError(s)
  BY <1>3 DEF Store!ReturnError, Store!Return, Store!TypeOK, Store!Results, Servers
<1> QED
  BY <1>1, <1>2, <1>3 DEF ExecuteStep

LEMMA StoreStutters ==
  ASSUME Store!TypeOK, UNCHANGED storeVars
  PROVE  Store!TypeOK'
BY DEF Store!TypeOK, storeVars

-----------------------------------------------------------------------------
(* Every action keeps the invariant *)

LEMMA DispatchKeeps ==
  ASSUME Inv, NEW r \in Requests, Dispatch(r)
  PROVE  Inv'
<1>1. /\ client[r] = "unused" /\ client' = [client EXCEPT ![r] = "waiting"]
      /\ UNCHANGED <<storeVars, cmd, state, step, cur, attempt>>
      /\ \/ \E s \in Servers : queue' = [queue EXCEPT ![s] = Append(@, r)] /\ faults' = faults
         \/ Fault /\ queue' = queue
  BY DEF Dispatch
<1>2. Store!TypeOK' /\ ClientTypes'
  BY <1>1, StoreStutters DEF Inv, ClientTypes
<1>3. ServerTypes'
  <2>1. queue \in [Servers -> Seq(Requests)]
    BY DEF Inv, ServerTypes
  <2>2. \A s \in Servers : Append(queue[s], r) \in Seq(Requests)
    BY <2>1
  <2>3. queue' \in [Servers -> Seq(Requests)]
    BY <1>1, <2>1, <2>2
  <2> QED
    BY <1>1, <2>3 DEF Inv, ServerTypes
<1>4. faults' \in 0..MaxFaults
  BY <1>1, CommandAssumption DEF Inv, Fault
<1>5. \A u \in Servers : PhaseInv(u)'
  BY <1>1 DEF Inv, PhaseInv, storeVars
<1>6. /\ \A t \in Servers : ~Queued(t, r) /\ ~Handled(t, r)
      /\ \A t \in Servers, q \in Requests : Handled(t, q)' <=> Handled(t, q)
      /\ client'[r] = "waiting" /\ \A q \in Requests \ {r} : client'[q] = client[q]
  BY <1>1 DEF Inv, PlaceInv, Handled, ClientTypes
<1>7. PlaceInv'
  <2>1. CASE queue' = queue
    BY <1>6, <2>1 DEF Inv, PlaceInv, Queued
  <2>2. ASSUME NEW s \in Servers, queue' = [queue EXCEPT ![s] = Append(@, r)]
        PROVE  PlaceInv'
    <3>1. /\ \A t \in Servers \ {s} : queue'[t] = queue[t]
          /\ queue'[s] = Append(queue[s], r) /\ queue[s] \in Seq(Requests)
      BY <2>2 DEF Inv, ServerTypes
    <3>2. /\ Len(queue'[s]) = Len(queue[s]) + 1 /\ queue'[s][Len(queue[s]) + 1] = r
          /\ Len(queue[s]) \in Nat
          /\ \A i \in 1..Len(queue[s]) : queue'[s][i] = queue[s][i]
      BY <3>1
    <3>3. \A i \in 1..Len(queue'[s]) : i \in 1..Len(queue[s]) \/ i = Len(queue[s]) + 1
      BY <3>2
    <3>4. \A t \in Servers, q \in Requests : Queued(t, q)' => Queued(t, q) \/ q = r
      BY <3>1, <3>2, <3>3 DEF Queued
    <3>5. \A t, u \in Servers : \A i \in 1..Len(queue'[t]), j \in 1..Len(queue'[u]) :
            queue'[t][i] = queue'[u][j] => t = u /\ i = j
      <4> SUFFICES ASSUME NEW t \in Servers, NEW u \in Servers,
                          NEW i \in 1..Len(queue'[t]), NEW j \in 1..Len(queue'[u]),
                          queue'[t][i] = queue'[u][j]
                   PROVE  t = u /\ i = j
        OBVIOUS
      <4>1. ASSUME NEW v \in Servers, NEW k \in 1..Len(queue'[v])
            PROVE  \/ k \in 1..Len(queue[v]) /\ queue'[v][k] = queue[v][k] /\ queue[v][k] # r
                   \/ v = s /\ k = Len(queue[s]) + 1 /\ queue'[v][k] = r
        BY <1>6, <3>1, <3>2, <3>3 DEF Queued
      <4>2. \/ i \in 1..Len(queue[t]) /\ queue'[t][i] = queue[t][i] /\ queue[t][i] # r
            \/ t = s /\ i = Len(queue[s]) + 1 /\ queue'[t][i] = r
        BY <4>1
      <4>3. \/ j \in 1..Len(queue[u]) /\ queue'[u][j] = queue[u][j] /\ queue[u][j] # r
            \/ u = s /\ j = Len(queue[s]) + 1 /\ queue'[u][j] = r
        BY <4>1
      <4>4. \A k \in 1..Len(queue[t]), m \in 1..Len(queue[u]) :
              queue[t][k] = queue[u][m] => t = u /\ k = m
        BY DEF Inv, PlaceInv
      <4> QED
        BY <4>2, <4>3, <4>4
    <3> QED
      BY <1>6, <3>4, <3>5 DEF Inv, PlaceInv
  <2> QED
    BY <1>1, <2>1, <2>2
<1> QED
  BY <1>2, <1>3, <1>4, <1>5, <1>7 DEF Inv

LEMMA AnsweredKeeps ==
  ASSUME Inv, NEW r \in Requests, DispatchNowhere(r) \/ Timeout(r)
  PROVE  Inv'
<1>1. /\ UNCHANGED <<storeVars, cmd, state, queue, step, cur, attempt, faults>>
      /\ \/ client[r] = "unused" /\ client' = [client EXCEPT ![r] = "noresponders"]
         \/ client[r] = "waiting" /\ client' = [client EXCEPT ![r] = "timeout"]
  BY DEF DispatchNowhere, Timeout, serverVars
<1>2. Store!TypeOK' /\ ClientTypes' /\ ServerTypes' /\ faults' \in 0..MaxFaults
  BY <1>1, StoreStutters DEF Inv, ClientTypes, ServerTypes
<1>3. \A u \in Servers : PhaseInv(u)'
  BY <1>1 DEF Inv, PhaseInv, storeVars
<1>4. /\ \A t \in Servers, q \in Requests :
           (Handled(t, q)' <=> Handled(t, q)) /\ (Queued(t, q)' <=> Queued(t, q))
      /\ \A q \in Requests : \/ client'[q] \in {client[q], "timeout"}
                             \/ client[q] = "unused"
  BY <1>1 DEF Inv, ClientTypes, Handled, Queued
<1>5. PlaceInv'
  <2>1. \A t \in Servers, q \in Requests : Queued(t, q)' \/ Handled(t, q)' =>
          client'[q] \in {client[q], "timeout"}
    BY <1>4 DEF Inv, PlaceInv
  <2> QED
    BY <1>1, <1>4, <2>1, PlaceLess DEF Inv
<1> QED
  BY <1>2, <1>3, <1>5 DEF Inv

LEMMA TakeKeeps ==
  ASSUME Inv, Option >= 0, NEW s \in Servers, Take(s)
  PROVE  Inv'
<1>1. /\ queue[s] \in Seq(Requests) /\ queue[s] # <<>> /\ step[s] = "idle"
      /\ UNCHANGED <<storeVars, cmd, client, state, faults>>
  BY DEF Inv, ServerTypes, Take
<1>0. PICK r \in Requests : r = Head(queue[s])
  BY <1>1
<1>2. /\ r = queue[s][1] /\ 1 \in 1..Len(queue[s])
      /\ Tail(queue[s]) \in Seq(Requests) /\ Len(Tail(queue[s])) = Len(queue[s]) - 1
      /\ \A i \in 1..Len(Tail(queue[s])) :
           i + 1 \in 1..Len(queue[s]) /\ Tail(queue[s])[i] = queue[s][i + 1] /\ i + 1 # 1
  BY <1>0, <1>1
<1>3. /\ \A t \in Servers : cur'[t] = IF t = s THEN r ELSE cur[t]
      /\ \A t \in Servers : queue'[t] = IF t = s THEN Tail(queue[s]) ELSE queue[t]
      /\ \A t \in Servers \ {s} : step'[t] = step[t]
      /\ step'[s] \in {"error", "attempt"}
  BY <1>0 DEF Take, GoTo, Inv, ServerTypes
<1>4. Store!TypeOK' /\ ClientTypes' /\ faults' \in 0..MaxFaults
  BY <1>1, StoreStutters DEF Inv, ClientTypes
<1>5. ServerTypes'
  <2>1. CommandConflictRetries \in Nat /\ attempt' = [attempt EXCEPT ![s] = 0]
    BY RetriesType DEF Take
  <2>2. /\ cur' = [cur EXCEPT ![s] = r] /\ queue' = [queue EXCEPT ![s] = Tail(queue[s])]
        /\ \E where \in {"error", "attempt"} : step' = [step EXCEPT ![s] = where]
    BY <1>0 DEF Take, GoTo
  <2> QED
    BY <1>1, <1>2, <2>1, <2>2 DEF Inv, ServerTypes, Answers
<1>6. \A u \in Servers : PhaseInv(u)'
  <2>1. PhaseInv(s)'
    BY <1>1, <1>2, <1>3 DEF Inv, PhaseInv, storeVars
  <2>2. \A u \in Servers \ {s} : PhaseInv(u)'
    BY <1>1, <1>3 DEF Inv, PhaseInv, storeVars
  <2> QED
    BY <2>1, <2>2
<1>7. /\ \A t \in Servers, q \in Requests : Handled(t, q)' => Handled(t, q) \/ (t = s /\ q = r)
      /\ \A t \in Servers, q \in Requests : Queued(t, q)' => Queued(t, q)
      /\ Queued(s, r)
  <2>1. \A t \in Servers, q \in Requests : Handled(t, q)' => Handled(t, q) \/ (t = s /\ q = r)
    BY <1>3 DEF Handled
  <2>2. ASSUME NEW t \in Servers, NEW q \in Requests, NEW i \in 1..Len(queue'[t]),
               queue'[t][i] = q
        PROVE  Queued(t, q)
    <3>1. CASE t = s
      <4>1. i + 1 \in 1..Len(queue[s]) /\ queue[s][i + 1] = q
        BY <1>2, <1>3, <2>2, <3>1
      <4> QED
        BY <3>1, <4>1 DEF Queued
    <3>2. CASE t # s
      BY <1>3, <2>2, <3>2 DEF Queued
    <3> QED
      BY <3>1, <3>2
  <2>3. \A t \in Servers, q \in Requests : Queued(t, q)' => Queued(t, q)
    BY <2>2 DEF Queued
  <2>4. Queued(s, r)
    BY <1>2 DEF Queued
  <2> QED
    BY <2>1, <2>3, <2>4
<1>8. \A t \in Servers : ~Queued(t, r)'
  <2> SUFFICES ASSUME NEW t \in Servers, NEW i \in 1..Len(queue'[t]), queue'[t][i] = r
               PROVE  FALSE
    BY DEF Queued
  <2>1. CASE t # s
    <3>1. i \in 1..Len(queue[t]) /\ queue[t][i] = queue[s][1]
      BY <1>2, <1>3, <2>1
    <3> QED
      BY <1>2, <2>1, <3>1 DEF Inv, PlaceInv
  <2>2. CASE t = s
    <3>1. i + 1 \in 1..Len(queue[s]) /\ queue[s][i + 1] = queue[s][1] /\ i + 1 # 1
      BY <1>2, <1>3, <2>2
    <3> QED
      BY <1>2, <3>1 DEF Inv, PlaceInv
  <2> QED
    BY <2>1, <2>2
<1>9. \A t, u \in Servers : \A i \in 1..Len(queue'[t]), j \in 1..Len(queue'[u]) :
        queue'[t][i] = queue'[u][j] => t = u /\ i = j
  <2> SUFFICES ASSUME NEW t \in Servers, NEW u \in Servers,
                      NEW i \in 1..Len(queue'[t]), NEW j \in 1..Len(queue'[u]),
                      queue'[t][i] = queue'[u][j]
               PROVE  t = u /\ i = j
    OBVIOUS
  <2>1. ASSUME NEW v \in Servers, NEW k \in 1..Len(queue'[v])
        PROVE  \E m \in 1..Len(queue[v]) :
                 queue'[v][k] = queue[v][m] /\ m = IF v = s THEN k + 1 ELSE k
    <3>1. CASE v = s
      <4>1. k + 1 \in 1..Len(queue[v]) /\ queue'[v][k] = queue[v][k + 1]
        BY <1>2, <1>3, <3>1
      <4> QED
        BY <3>1, <4>1
    <3>2. CASE v # s
      BY <1>3, <3>2
    <3> QED
      BY <3>1, <3>2
  <2>2. PICK a \in 1..Len(queue[t]) : queue'[t][i] = queue[t][a] /\ a = IF t = s THEN i + 1 ELSE i
    BY <2>1
  <2>3. PICK b \in 1..Len(queue[u]) : queue'[u][j] = queue[u][b] /\ b = IF u = s THEN j + 1 ELSE j
    BY <2>1
  <2>4. \A k \in 1..Len(queue[t]), m \in 1..Len(queue[u]) :
          queue[t][k] = queue[u][m] => t = u /\ k = m
    BY DEF Inv, PlaceInv
  <2>5. t = u /\ a = b
    BY <2>2, <2>3, <2>4
  <2> QED
    BY <2>2, <2>3, <2>5
<1>10. PlaceInv'
  <2>1. \A t \in Servers, q \in Requests : Queued(t, q)' \/ Handled(t, q)' =>
          client'[q] \in {"waiting", "timeout"}
    BY <1>1, <1>7 DEF Inv, PlaceInv
  <2>2. \A t \in Servers, q \in Requests : Queued(t, q)' => \A u \in Servers : ~Handled(u, q)'
    BY <1>7, <1>8 DEF Inv, PlaceInv
  <2>3. \A t, u \in Servers, q \in Requests : Handled(t, q)' /\ Handled(u, q)' => t = u
    BY <1>7 DEF Inv, PlaceInv
  <2> QED
    BY <1>9, <2>1, <2>2, <2>3 DEF PlaceInv
<1> QED
  BY <1>4, <1>5, <1>6, <1>10 DEF Inv

\* The steps of a handler between two requests.
LEMMA HandlerKeeps ==
  ASSUME Inv, Option >= 0, NEW s \in Servers, NEW p, p # "idle", step[s] # "idle",
         step' = [step EXCEPT ![s] = p],
         UNCHANGED <<cmd, client, state, queue, cur, faults>>,
         Store!TypeOK', ServerTypes', \A u \in Servers : PhaseInv(u)'
  PROVE  Inv'
<1>1. ClientTypes' /\ faults' \in 0..MaxFaults
  BY DEF Inv, ClientTypes
<1>2. \A t \in Servers, q \in Requests : Handled(t, q)' => Handled(t, q)
  BY DEF Inv, ServerTypes, Handled
<1>3. PlaceInv'
  BY <1>2, PlaceLess DEF Inv
<1> QED
  BY <1>1, <1>3 DEF Inv

LEMMA AttemptKeeps ==
  ASSUME Inv, Option >= 0, NEW s \in Servers, Attempt(s)
  PROVE  Inv'
<1>1. /\ step[s] = "attempt" /\ attempt[s] < CommandConflictRetries /\ phase[s] = "idle"
      /\ attempt' = [attempt EXCEPT ![s] = @ + 1] /\ step' = [step EXCEPT ![s] = "running"]
      /\ UNCHANGED <<cmd, client, state, queue, cur, faults, log, doubt>>
      /\ phase' = [phase EXCEPT ![s] = "running"] /\ call' = [call EXCEPT ![s] = cmd[cur[s]]]
      /\ result' = [result EXCEPT ![s] = "none"]
  BY DEF Attempt, GoTo, Store!Call
<1>2. cmd[cur[s]] \in Commands
  BY <1>1 DEF Inv, PhaseInv, ClientTypes
<1>3. Store!TypeOK'
  BY <1>1, <1>2 DEF Inv, Store!TypeOK, Store!Results, Servers
<1>4. ServerTypes'
  <2>1. attempt' \in [Servers -> 0..CommandConflictRetries]
    BY <1>1, RetriesType DEF Inv, ServerTypes
  <2> QED
    BY <1>1, <2>1 DEF Inv, ServerTypes
<1>5. \A u \in Servers : PhaseInv(u)'
  BY <1>1 DEF Inv, PhaseInv, ServerTypes, Store!TypeOK, Servers
<1> QED
  BY <1>1, <1>3, <1>4, <1>5, HandlerKeeps

LEMMA LoopEndKeeps ==
  ASSUME Inv, Option >= 0, NEW s \in Servers, GiveUp(s) \/ Executed(s)
  PROVE  Inv'
<1>1. PICK p \in Answers \cup {"attempt"} : step' = [step EXCEPT ![s] = p]
  BY DEF Inv, PhaseInv, GiveUp, Executed, GoTo, Answers
<1>2. /\ step[s] # "idle" /\ phase[s] = "idle"
      /\ UNCHANGED <<storeVars, cmd, client, state, queue, cur, attempt, faults>>
  BY DEF GiveUp, Executed, Inv, PhaseInv
<1>3. Store!TypeOK' /\ ServerTypes'
  BY <1>1, <1>2, StoreStutters DEF Inv, ServerTypes
<1>4. \A u \in Servers : PhaseInv(u)'
  BY <1>1, <1>2 DEF Inv, PhaseInv, ServerTypes, Answers, storeVars
<1> QED
  BY <1>1, <1>2, <1>3, <1>4, HandlerKeeps DEF Answers

LEMMA ExecuteKeeps ==
  ASSUME Inv, Option >= 0, NEW s \in Servers, Execute(s)
  PROVE  Inv'
<1>1. /\ step[s] = "running" /\ ExecuteStep(s)
      /\ UNCHANGED <<cmd, client, state, queue, step, cur, attempt, faults>>
  BY DEF Execute, ExecuteStep, serverVars
<1>2. Store!TypeOK' /\ ServerTypes'
  BY <1>1, ExecuteTypes DEF Inv, ServerTypes
<1>3. /\ call' = call /\ \A u \in Servers : u # s => phase'[u] = phase[u] /\ result'[u] = result[u]
      /\ phase'[s] = "idle" => result'[s] \in Answers
      /\ phase[s] # "idle"
  BY <1>1, ExecuteShape DEF Inv, Answers
<1>4. \A u \in Servers : PhaseInv(u)'
  BY <1>1, <1>3 DEF Inv, PhaseInv
<1>5. step' = [step EXCEPT ![s] = "running"]
  BY <1>1 DEF Inv, ServerTypes
<1> QED
  BY <1>1, <1>2, <1>4, <1>5, HandlerKeeps

LEMMA RespondKeeps ==
  ASSUME Inv, NEW s \in Servers, Respond(s)
  PROVE  Inv'
<1>1. /\ step[s] \in Answers /\ step' = [step EXCEPT ![s] = "idle"]
      /\ UNCHANGED <<storeVars, cmd, state, queue, cur, attempt>>
      /\ client' = client \/ client' = [client EXCEPT ![cur[s]] = step[s]]
      /\ faults' = faults \/ (faults < MaxFaults /\ faults' = faults + 1)
  BY DEF Respond, Reply, GoTo, Fault, Answers
<1>2. cur[s] \in Requests /\ phase[s] = "idle" /\ Handled(s, cur[s])
  BY <1>1 DEF Inv, PhaseInv, Handled, Answers
<1>3. Store!TypeOK' /\ ClientTypes' /\ ServerTypes'
  BY <1>1, <1>2, StoreStutters DEF Inv, ClientTypes, ServerTypes, Answers
<1>4. faults' \in 0..MaxFaults
  BY <1>1, CommandAssumption DEF Inv
<1>5. \A u \in Servers : PhaseInv(u)'
  BY <1>1, <1>2 DEF Inv, PhaseInv, ServerTypes, storeVars
<1>6. /\ \A t \in Servers, q \in Requests : Handled(t, q)' => Handled(t, q) /\ t # s
      /\ \A t \in Servers, q \in Requests : Queued(t, q)' => Queued(t, q)
  BY <1>1 DEF Inv, ServerTypes, Handled, Queued
<1>7. \A t \in Servers, q \in Requests : Queued(t, q)' \/ Handled(t, q)' =>
        client'[q] \in {client[q], "timeout"}
  <2>1. \A t \in Servers, q \in Requests : Queued(t, q)' \/ Handled(t, q)' => q # cur[s]
    BY <1>2, <1>6 DEF Inv, PlaceInv
  <2>2. \A q \in Requests : q # cur[s] => client'[q] = client[q]
    BY <1>1, <1>2 DEF Inv, ClientTypes
  <2> QED
    BY <2>1, <2>2
<1>8. PlaceInv'
  BY <1>1, <1>6, <1>7, PlaceLess DEF Inv
<1> QED
  BY <1>3, <1>4, <1>5, <1>8 DEF Inv

LEMMA StateKeeps ==
  ASSUME Inv, NEW s \in Servers, Connect(s) \/ Disconnect(s) \/ Drained(s)
  PROVE  Inv'
<1>1. /\ \E where \in {"up", "draining", "down"} : state' = [state EXCEPT ![s] = where]
      /\ UNCHANGED <<storeVars, cmd, client, queue, step, cur, attempt>>
      /\ faults' = faults \/ (faults < MaxFaults /\ faults' = faults + 1)
  BY DEF Connect, Disconnect, Drained, Fault
<1>2. Store!TypeOK' /\ ClientTypes' /\ ServerTypes'
  BY <1>1, StoreStutters DEF Inv, ClientTypes, ServerTypes
<1>3. faults' \in 0..MaxFaults
  BY <1>1, CommandAssumption DEF Inv
<1>4. \A u \in Servers : PhaseInv(u)'
  BY <1>1 DEF Inv, PhaseInv, storeVars
<1>5. PlaceInv'
  BY <1>1, PlaceLess DEF Inv, Handled
<1> QED
  BY <1>2, <1>3, <1>4, <1>5 DEF Inv

LEMMA CrashKeeps ==
  ASSUME Inv, NEW s \in Servers, Crash(s)
  PROVE  Inv'
<1>1. /\ state' = [state EXCEPT ![s] = "down"] /\ queue' = [queue EXCEPT ![s] = <<>>]
      /\ step' = [step EXCEPT ![s] = "idle"] /\ UNCHANGED <<cmd, client, cur, attempt>>
      /\ faults < MaxFaults /\ faults' = faults + 1
      /\ IF phase[s] = "idle" THEN UNCHANGED storeVars ELSE Store!ReturnError(s)
  BY DEF Crash, GoTo, Fault
<1>2. Store!TypeOK'
  BY <1>1, StoreStutters, ExecuteTypes DEF Inv, ExecuteStep
<1>3. ClientTypes' /\ ServerTypes'
  BY <1>1 DEF Inv, ClientTypes, ServerTypes
<1>4. faults' \in 0..MaxFaults
  BY <1>1, CommandAssumption DEF Inv
<1>5. /\ call' = call /\ phase'[s] = "idle"
      /\ \A u \in Servers : u # s => phase'[u] = phase[u] /\ result'[u] = result[u]
  BY <1>1 DEF Inv, Store!ReturnError, Store!Return, Store!TypeOK, storeVars, Servers
<1>6. \A u \in Servers : PhaseInv(u)'
  BY <1>1, <1>5 DEF Inv, PhaseInv, ServerTypes
<1>7. PlaceInv'
  <2>1. /\ \A t \in Servers : queue'[t] = queue[t] \/ queue'[t] = <<>>
        /\ \A t \in Servers, q \in Requests : Handled(t, q)' => Handled(t, q)
    BY <1>1 DEF Inv, ServerTypes, Handled
  <2> QED
    BY <1>1, <2>1, PlaceLess DEF Inv
<1> QED
  BY <1>2, <1>3, <1>4, <1>6, <1>7 DEF Inv

LEMMA ResolveKeeps ==
  ASSUME Inv, NEW c \in Commands, Resolve(c)
  PROVE  Inv'
<1>1. /\ UNCHANGED <<cmd, client, state, queue, step, cur, attempt, faults, phase, call, result>>
      /\ Store!Resolve(c)
  BY DEF Resolve, serverVars, Store!Resolve
<1>2. Store!TypeOK'
  <2>1. log' \in [Aggregates -> Seq(Events)]
    BY <1>1, AppendShape DEF Inv, Store!Resolve, Store!TypeOK, Store!State
  <2>2. doubt' \in [Commands -> Nat]
    BY <1>1 DEF Inv, Store!Resolve, Store!TypeOK
  <2> QED
    BY <1>1, <2>1, <2>2 DEF Inv, Store!TypeOK, Store!State
<1>3. ClientTypes' /\ ServerTypes' /\ faults' \in 0..MaxFaults
  BY <1>1 DEF Inv, ClientTypes, ServerTypes
<1>4. \A u \in Servers : PhaseInv(u)'
  BY <1>1 DEF Inv, PhaseInv
<1>5. PlaceInv'
  BY <1>1, PlaceLess DEF Inv, Handled
<1> QED
  BY <1>2, <1>3, <1>4, <1>5 DEF Inv


LEMMA InitInv ==
  ASSUME Init, Option >= 0
  PROVE  Inv
<1>1. Store!TypeOK
  BY DomainAssumption DEF Init, Store!Init, Store!TypeOK, Store!Results, Store!State
<1>2. ClientTypes /\ faults \in 0..MaxFaults
  BY CommandAssumption DEF Init, ClientTypes
<1>3. ServerTypes
  <2>1. <<>> \in Seq(Requests) /\ 0 \in 0..CommandConflictRetries
    BY RetriesType
  <2> QED
    BY <2>1 DEF Init, ServerTypes
<1>4. \A s \in Servers : PhaseInv(s)
  BY DEF Init, Store!Init, PhaseInv, Servers
<1>5. PlaceInv
  <2>1. \A s \in Servers : step[s] = "idle" /\ 1..Len(queue[s]) = {}
    BY DEF Init
  <2> QED
    BY <2>1 DEF PlaceInv, Queued, Handled
<1> QED
  BY <1>1, <1>2, <1>3, <1>4, <1>5 DEF Inv

LEMMA StutterKeeps ==
  ASSUME Inv, UNCHANGED vars
  PROVE  Inv'
<1>1. UNCHANGED <<storeVars, cmd, client, state, queue, step, cur, attempt, faults>>
  BY DEF vars, serverVars
<1>2. Store!TypeOK' /\ ClientTypes' /\ ServerTypes' /\ faults' \in 0..MaxFaults
  BY <1>1, StoreStutters DEF Inv, ClientTypes, ServerTypes
<1>3. \A u \in Servers : PhaseInv(u)'
  BY <1>1 DEF Inv, PhaseInv, storeVars
<1>4. PlaceInv'
  BY <1>1, PlaceLess DEF Inv, Handled
<1> QED
  BY <1>2, <1>3, <1>4 DEF Inv

LEMMA InvInductive ==
  ASSUME Inv, Option >= 0, [Next]_vars
  PROVE  Inv'
<1>1. ASSUME NEW r \in Requests, Dispatch(r) \/ DispatchNowhere(r) \/ Timeout(r)
      PROVE  Inv'
  BY <1>1, DispatchKeeps, AnsweredKeeps
<1>2. ASSUME NEW s \in Servers, Handling(s)
      PROVE  Inv'
  BY <1>2, TakeKeeps, AttemptKeeps, LoopEndKeeps, ExecuteKeeps, RespondKeeps DEF Handling, Serving
<1>3. ASSUME NEW s \in Servers, Connect(s) \/ Disconnect(s) \/ Drained(s) \/ Crash(s)
      PROVE  Inv'
  BY <1>3, StateKeeps, CrashKeeps
<1>4. ASSUME NEW c \in Commands, Resolve(c)
      PROVE  Inv'
  BY <1>4, ResolveKeeps
<1>5. CASE UNCHANGED vars
  BY <1>5, StutterKeeps
<1> QED
  BY <1>1, <1>2, <1>3, <1>4, <1>5 DEF Next

\* Type correctness: the bound on attempt says that withCommandConflictRetry
\* never calls the handler more often than CommandConflictRetries, which NewBus
\* makes positive unless the option is negative.
THEOREM TypeCorrect ==
  ASSUME Option >= 0
  PROVE  Spec => []TypeOK
<1>1. Init => Inv
  BY InitInv
<1>2. Inv /\ [Next]_vars => Inv'
  BY InvInductive
<1> QED
  BY <1>1, <1>2, InvTypes, PTL DEF Spec

-----------------------------------------------------------------------------
(* Counting the effects of a command *)

Hits(s, e) == {i \in DOMAIN s : s[i] = e}

LEMMA HitsFinite ==
  ASSUME NEW s \in Seq(Events), NEW e
  PROVE  /\ IsFiniteSet(Hits(s, e)) /\ Cardinality(Hits(s, e)) \in Nat
         /\ Cardinality(Hits(s, e)) > 0 <=> Hits(s, e) # {}
<1>1. IsFiniteSet(1..Len(s))
  BY FS_Interval
<1>2. Hits(s, e) \subseteq 1..Len(s)
  BY DEF Hits
<1>3. IsFiniteSet(Hits(s, e))
  BY <1>1, <1>2, FS_Subset
<1>4. Cardinality(Hits(s, e)) \in Nat
  BY <1>3, FS_CardinalityType
<1> QED
  BY <1>3, <1>4, FS_EmptySet

\* What is appended adds the places of e in it.
LEMMA HitsAppend ==
  ASSUME NEW s \in Seq(Events), NEW t \in Seq(Events), NEW e
  PROVE  /\ Cardinality(Hits(s \o t, e)) >= Cardinality(Hits(s, e))
         /\ Hits(t, e) = {} => Cardinality(Hits(s \o t, e)) = Cardinality(Hits(s, e))
         /\ 1 \in Hits(t, e) =>
              Cardinality(Hits(s \o t, e)) >= Cardinality(Hits(s, e)) + 1
         /\ Hits(t, e) = {1} =>
              Cardinality(Hits(s \o t, e)) = Cardinality(Hits(s, e)) + 1
<1> DEFINE A == Hits(s, e)  B == Hits(s \o t, e)  n == Len(s)
<1>1. /\ s \o t \in Seq(Events) /\ n \in Nat /\ Len(t) \in Nat /\ Len(s \o t) = n + Len(t)
      /\ DOMAIN s = 1..n /\ DOMAIN t = 1..Len(t) /\ DOMAIN (s \o t) = 1..(n + Len(t))
      /\ \A i \in 1..(n + Len(t)) : (s \o t)[i] = IF i <= n THEN s[i] ELSE t[i - n]
  OBVIOUS
<1>2. \A i \in 1..n : i \in B <=> i \in A
  BY <1>1 DEF Hits
<1>3. \A i \in 1..Len(t) : n + i \in B <=> i \in Hits(t, e)
  BY <1>1 DEF Hits
<1>4. /\ A \subseteq 1..n /\ B \subseteq 1..(n + Len(t)) /\ n + 1 \notin A
  BY <1>1 DEF Hits
<1>5. \A i \in B : i \in A \/ (i - n \in Hits(t, e) /\ i - n \in 1..Len(t))
  BY <1>1, <1>2, <1>4 DEF Hits
<1>6. A \subseteq B
  BY <1>1, <1>2, <1>4
<1>7. IsFiniteSet(A) /\ IsFiniteSet(B) /\ Cardinality(A) \in Nat /\ Cardinality(B) \in Nat
  BY <1>1, HitsFinite
<1>8. IsFiniteSet(A \cup {n + 1}) /\ Cardinality(A \cup {n + 1}) = Cardinality(A) + 1
  BY <1>4, <1>7, FS_AddElement
<1>9. Cardinality(B) >= Cardinality(A)
  BY <1>6, <1>7, FS_Subset
<1>10. ASSUME Hits(t, e) = {} PROVE Cardinality(B) = Cardinality(A)
  <2>1. B = A
    BY <1>5, <1>6, <1>10
  <2> QED
    BY <2>1
<1>11. ASSUME 1 \in Hits(t, e) PROVE A \cup {n + 1} \subseteq B
  <2>1. 1 \in 1..Len(t)
    BY <1>1, <1>11 DEF Hits
  <2>2. n + 1 \in B
    BY <1>3, <1>11, <2>1
  <2> QED
    BY <1>6, <2>2
<1>12. ASSUME 1 \in Hits(t, e) PROVE Cardinality(B) >= Cardinality(A) + 1
  <2>1. Cardinality(A \cup {n + 1}) <= Cardinality(B)
    BY <1>7, <1>11, <1>12, FS_Subset
  <2> QED
    BY <1>7, <1>8, <2>1
<1>13. ASSUME Hits(t, e) = {1} PROVE Cardinality(B) = Cardinality(A) + 1
  <2>1. \A i \in B : i \in A \/ i = n + 1
    <3>1. \A i \in B : i - n = 1 => i = n + 1
      BY <1>1, <1>4
    <3> QED
      BY <1>5, <1>13, <3>1
  <2>2. B = A \cup {n + 1}
    BY <1>11, <1>13, <2>1
  <2> QED
    BY <1>8, <2>2
<1> QED
  BY <1>9, <1>10, <1>12, <1>13

\* The first event of a command tells it apart from the other commands of its
\* aggregate, and occurs once in its outcome.
OwnFirst ==
  \A c, d \in Commands : AggOf[c] = AggOf[d] =>
    \A k \in DOMAIN Outcome[d] : Outcome[d][k] = Outcome[c][1] => d = c /\ k = 1

LEMMA EffectsType ==
  ASSUME Store!TypeOK, NEW c \in Commands
  PROVE  /\ Effects(c) = Cardinality(Hits(log[AggOf[c]], Outcome[c][1]))
         /\ Effects(c) \in Nat
         /\ Effects(c) > 0 <=> Has(log[AggOf[c]], Outcome[c][1])
<1>1. log[AggOf[c]] \in Seq(Events)
  BY DomainAssumption DEF Store!TypeOK, Store!State
<1>2. Effects(c) = Cardinality(Hits(log[AggOf[c]], Outcome[c][1]))
  BY DEF Effects, Hits
<1>3. Hits(log[AggOf[c]], Outcome[c][1]) # {} <=> Has(log[AggOf[c]], Outcome[c][1])
  BY <1>1 DEF Hits, Has
<1> QED
  BY <1>1, <1>2, <1>3, HitsFinite

LEMMA EffectsAppend ==
  ASSUME Store!TypeOK, NEW c \in Commands, Store!Append1(c), NEW d \in Commands
  PROVE  /\ Effects(d)' \in Nat /\ Effects(d)' >= Effects(d)
         /\ d = c => Effects(d)' >= Effects(d) + 1
         /\ OwnFirst => Effects(d)' = IF d = c THEN Effects(d) + 1 ELSE Effects(d)
<1>1. /\ AggOf[c] \in Aggregates /\ AggOf[d] \in Aggregates
      /\ Outcome[c] \in Seq(Events) /\ Len(Outcome[c]) > 0
      /\ log[AggOf[d]] \in Seq(Events) /\ log \in [Aggregates -> Seq(Events)]
  BY DomainAssumption DEF Store!TypeOK, Store!State
<1>2. log'[AggOf[d]] = IF AggOf[d] = AggOf[c] THEN log[AggOf[d]] \o Outcome[c] ELSE log[AggOf[d]]
  BY <1>1, AppendShape
<1>3. PICK e : e = Outcome[d][1]
  OBVIOUS
<1>4. /\ Effects(d)' = Cardinality(Hits(log'[AggOf[d]], e))
      /\ Effects(d) = Cardinality(Hits(log[AggOf[d]], e))
  BY <1>3 DEF Effects, Hits
<1>5. Effects(d) \in Nat /\ Effects(d)' \in Nat
  <2>1. log'[AggOf[d]] \in Seq(Events)
    BY <1>1, AppendShape
  <2> QED
    BY <1>1, <1>4, <2>1, HitsFinite
<1>6. CASE AggOf[d] # AggOf[c]
  BY <1>2, <1>4, <1>5, <1>6
<1>7. CASE AggOf[d] = AggOf[c]
  <2>1. /\ Effects(d)' >= Effects(d)
        /\ Hits(Outcome[c], e) = {} => Effects(d)' = Effects(d)
        /\ 1 \in Hits(Outcome[c], e) => Effects(d)' >= Effects(d) + 1
        /\ Hits(Outcome[c], e) = {1} => Effects(d)' = Effects(d) + 1
    BY <1>1, <1>2, <1>4, <1>7, HitsAppend
  <2>2. d = c => 1 \in Hits(Outcome[c], e)
    BY <1>1, <1>3 DEF Hits
  <2>3. ASSUME OwnFirst PROVE Hits(Outcome[c], e) = IF d = c THEN {1} ELSE {}
    <3>1. \A k \in Hits(Outcome[c], e) : c = d /\ k = 1
      BY <1>3, <1>7, <2>3 DEF OwnFirst, Hits
    <3> QED
      BY <2>2, <3>1
  <2> QED
    BY <1>5, <2>1, <2>2, <2>3
<1> QED
  BY <1>6, <1>7

LEMMA EffectsSame ==
  ASSUME UNCHANGED log, NEW d
  PROVE  Effects(d)' = Effects(d)
BY DEF Effects

-----------------------------------------------------------------------------
(* Steps without an effect *)

\* No request gets rid of its effect or comes to a success.
Quiet == \A r \in Requests : (Free(r)' => Free(r)) /\ (Success(r)' => Success(r))

LEMMA QuietPlaces ==
  ASSUME \A r \in Requests : client'[r] \in {"unused", "conflict", "noresponders"} => Free(r),
         \A t \in Servers, r \in Requests : Queued(t, r)' => Free(r),
         \A t \in Servers, r \in Requests : Pending(t)' /\ cur'[t] = r => Free(r)
  PROVE  \A r \in Requests : Free(r)' => Free(r)
BY DEF Free

LEMMA QuietSuccess ==
  ASSUME \A r \in Requests : client'[r] = "ok" => Success(r),
         \A t \in Servers, r \in Requests : Succeeded(t)' /\ cur'[t] = r => Success(r)
  PROVE  \A r \in Requests : Success(r)' => Success(r)
BY DEF Success

LEMMA ClientQuiet ==
  ASSUME Inv, NEW r \in Requests, Dispatch(r) \/ DispatchNowhere(r) \/ Timeout(r)
  PROVE  Quiet
<1>1. /\ UNCHANGED <<storeVars, cmd, step, cur>>
      /\ \/ client[r] = "unused" /\ client' = [client EXCEPT ![r] = "waiting"]
         \/ client[r] = "unused" /\ client' = [client EXCEPT ![r] = "noresponders"]
         \/ client' = [client EXCEPT ![r] = "timeout"]
      /\ \/ queue' = queue
         \/ client[r] = "unused" /\ \E s \in Servers : queue' = [queue EXCEPT ![s] = Append(@, r)]
  BY DEF Dispatch, DispatchNowhere, Timeout, serverVars
<1>2. \A t \in Servers : (Pending(t)' <=> Pending(t)) /\ (Succeeded(t)' <=> Succeeded(t))
  BY <1>1 DEF Pending, Succeeded, storeVars
<1>3. \A t \in Servers, q \in Requests : Queued(t, q)' => Free(q)
  <2>1. CASE queue' = queue
    BY <2>1 DEF Queued, Free
  <2>2. ASSUME client[r] = "unused",
               NEW s \in Servers, queue' = [queue EXCEPT ![s] = Append(@, r)],
               NEW t \in Servers, NEW q \in Requests, NEW i \in 1..Len(queue'[t]),
               queue'[t][i] = q
        PROVE  Free(q)
    <3>1. CASE t = s
      <4>1. queue[s] \in Seq(Requests) /\ queue'[t] = Append(queue[s], r)
        BY <2>2, <3>1 DEF Inv, ServerTypes
      <4>2. q = r \/ (i \in 1..Len(queue[s]) /\ queue[s][i] = q)
        BY <2>2, <4>1
      <4> QED
        BY <2>2, <4>2 DEF Free, Queued
    <3>2. CASE t # s
      <4>1. queue'[t] = queue[t]
        BY <2>2, <3>2 DEF Inv, ServerTypes
      <4> QED
        BY <2>2, <4>1 DEF Free, Queued
    <3> QED
      BY <3>1, <3>2
  <2> QED
    BY <1>1, <2>1, <2>2 DEF Queued
<1>4. \A q \in Requests : client'[q] \in {"unused", "conflict", "noresponders"} => Free(q)
  BY <1>1 DEF Inv, ClientTypes, Free
<1>5. \A q \in Requests : client'[q] = "ok" => Success(q)
  BY <1>1 DEF Inv, ClientTypes, Success
<1>6. \A q \in Requests : Free(q)' => Free(q)
  <2>1. \A t \in Servers, q \in Requests : Pending(t)' /\ cur'[t] = q => Free(q)
    BY <1>1, <1>2 DEF Free
  <2> QED
    BY <1>3, <1>4, <2>1, QuietPlaces
<1>7. \A q \in Requests : Success(q)' => Success(q)
  <2>1. \A t \in Servers, q \in Requests : Succeeded(t)' /\ cur'[t] = q => Success(q)
    BY <1>1, <1>2 DEF Success
  <2> QED
    BY <1>5, <2>1, QuietSuccess
<1> QED
  BY <1>6, <1>7 DEF Quiet

LEMMA TakeQuiet ==
  ASSUME Inv, NEW s \in Servers, Take(s)
  PROVE  Quiet
<1>1. /\ queue[s] \in Seq(Requests) /\ queue[s] # <<>>
      /\ UNCHANGED <<storeVars, client>>
  BY DEF Inv, ServerTypes, Take
<1>2. /\ Head(queue[s]) = queue[s][1] /\ 1 \in 1..Len(queue[s])
      /\ \A i \in 1..Len(Tail(queue[s])) :
           i + 1 \in 1..Len(queue[s]) /\ Tail(queue[s])[i] = queue[s][i + 1]
  BY <1>1
<1>3. /\ cur'[s] = Head(queue[s]) /\ \A t \in Servers \ {s} : cur'[t] = cur[t]
      /\ queue'[s] = Tail(queue[s]) /\ \A t \in Servers \ {s} : queue'[t] = queue[t]
      /\ step'[s] \in {"error", "attempt"} /\ \A t \in Servers \ {s} : step'[t] = step[t]
  BY DEF Take, GoTo, Inv, ServerTypes
<1>4. \A r \in Requests : client'[r] \in {"unused", "conflict", "noresponders"} => Free(r)
  BY <1>1 DEF Free
<1>5. \A t \in Servers, r \in Requests : Queued(t, r)' => Free(r)
  <2> SUFFICES ASSUME NEW t \in Servers, NEW r \in Requests, NEW i \in 1..Len(queue'[t]),
                      queue'[t][i] = r
               PROVE  Queued(t, r)
    BY DEF Queued, Free
  <2>1. CASE t = s
    <3>1. i + 1 \in 1..Len(queue[s]) /\ queue[s][i + 1] = r
      BY <1>2, <1>3, <2>1
    <3> QED
      BY <2>1, <3>1 DEF Queued
  <2>2. CASE t # s
    BY <1>3, <2>2 DEF Queued
  <2> QED
    BY <2>1, <2>2
<1>6. \A t \in Servers, r \in Requests : Pending(t)' /\ cur'[t] = r => Free(r)
  <2>1. \A r \in Requests : cur'[s] = r => Queued(s, r)
    BY <1>2, <1>3 DEF Queued
  <2>2. \A t \in Servers \ {s} : Pending(t)' => Pending(t)
    BY <1>1, <1>3 DEF Pending, storeVars
  <2> QED
    BY <1>3, <2>1, <2>2 DEF Free
<1>7. \A t \in Servers, r \in Requests : Succeeded(t)' /\ cur'[t] = r => Success(r)
  BY <1>1, <1>3 DEF Succeeded, Success, storeVars
<1>8. \A r \in Requests : client'[r] = "ok" => Success(r)
  BY <1>1 DEF Success
<1> QED
  BY <1>4, <1>5, <1>6, <1>7, <1>8, QuietPlaces, QuietSuccess DEF Quiet

\* A step of the handlers alone: Pending and Succeeded do not come about.
LEMMA ServerQuiet ==
  ASSUME \A t \in Servers : Pending(t)' => Pending(t),
         \A t \in Servers : Succeeded(t)' => Succeeded(t),
         \A t \in Servers, r \in Requests : Queued(t, r)' => Queued(t, r),
         UNCHANGED <<client, cur>>
  PROVE  Quiet
<1>1. \A r \in Requests : Free(r)' => Free(r)
  BY DEF Free
<1>2. \A r \in Requests : Success(r)' => Success(r)
  BY DEF Success
<1> QED
  BY <1>1, <1>2 DEF Quiet

LEMMA LoopQuiet ==
  ASSUME Inv, Option >= 0, NEW s \in Servers, Attempt(s) \/ GiveUp(s) \/ Executed(s)
  PROVE  Quiet
<1>1. /\ UNCHANGED <<client, cur, queue>>
      /\ \A t \in Servers, r \in Requests : Queued(t, r)' => Queued(t, r)
  BY DEF Attempt, GiveUp, Executed, Queued
<1>2. \A t \in Servers \ {s} : step'[t] = step[t] /\ phase'[t] = phase[t] /\ result'[t] = result[t]
  BY DEF Attempt, GiveUp, Executed, GoTo, Store!Call, Inv, ServerTypes, Store!TypeOK, Servers,
         storeVars
<1>3. (Pending(s)' => Pending(s)) /\ (Succeeded(s)' => Succeeded(s))
  <2>1. CASE Attempt(s)
    <3>1. step[s] = "attempt" /\ step'[s] = "running" /\ phase'[s] = "running"
      BY <2>1 DEF Attempt, GoTo, Store!Call, Inv, ServerTypes, Store!TypeOK, Servers
    <3> QED
      BY <3>1 DEF Pending, Succeeded
  <2>2. CASE GiveUp(s)
    <3>1. attempt[s] # 0
      BY <2>2, RetriesType DEF GiveUp, Inv, ServerTypes
    <3>2. step[s] = "attempt" /\ step'[s] = "conflict"
      BY <2>2, <3>1 DEF GiveUp, GoTo, Inv, ServerTypes
    <3> QED
      BY <3>2 DEF Pending, Succeeded
  <2>3. CASE Executed(s)
    <3>1. /\ step[s] = "running" /\ phase[s] = "idle" /\ result[s] \in Answers
          /\ step'[s] = IF result[s] = "conflict" THEN "attempt" ELSE result[s]
      BY <2>3 DEF Executed, GoTo, Inv, ServerTypes, PhaseInv
    <3> QED
      BY <3>1 DEF Pending, Succeeded, Answers
  <2> QED
    BY <2>1, <2>2, <2>3
<1>4. \A t \in Servers : (Pending(t)' => Pending(t)) /\ (Succeeded(t)' => Succeeded(t))
  BY <1>2, <1>3 DEF Pending, Succeeded
<1> QED
  BY <1>1, <1>4, ServerQuiet

LEMMA RespondQuiet ==
  ASSUME Inv, NEW s \in Servers, Respond(s)
  PROVE  Quiet
<1>1. /\ step[s] \in Answers /\ step' = [step EXCEPT ![s] = "idle"]
      /\ UNCHANGED <<storeVars, queue, cur>>
      /\ client' = client \/ client' = [client EXCEPT ![cur[s]] = step[s]]
  BY DEF Respond, Reply, GoTo, Answers
<1>2. \A r \in Requests : client'[r] = client[r] \/ (r = cur[s] /\ client'[r] = step[s])
  BY <1>1 DEF Inv, ClientTypes
<1>3. /\ step'[s] = "idle" /\ \A t \in Servers \ {s} : step'[t] = step[t]
  BY <1>1 DEF Inv, ServerTypes
<1>4. \A t \in Servers : (Pending(t)' => Pending(t)) /\ (Succeeded(t)' => Succeeded(t))
  BY <1>1, <1>3 DEF Pending, Succeeded, storeVars
<1>5. \A r \in Requests : client'[r] \in {"unused", "conflict", "noresponders"} => Free(r)
  BY <1>1, <1>2 DEF Free, Pending, Answers
<1>6. \A r \in Requests : client'[r] = "ok" => Success(r)
  BY <1>2 DEF Success, Succeeded
<1>7. \A t \in Servers, r \in Requests : Queued(t, r)' => Free(r)
  BY <1>1 DEF Queued, Free
<1>8. \A t \in Servers, r \in Requests : Pending(t)' /\ cur'[t] = r => Free(r)
  BY <1>1, <1>4 DEF Free
<1>9. \A t \in Servers, r \in Requests : Succeeded(t)' /\ cur'[t] = r => Success(r)
  BY <1>1, <1>4 DEF Success
<1> QED
  BY <1>5, <1>6, <1>7, <1>8, <1>9, QuietPlaces, QuietSuccess DEF Quiet

LEMMA StateQuiet ==
  ASSUME UNCHANGED <<storeVars, client, queue, step, cur>>
  PROVE  Quiet
<1>1. \A t \in Servers : (Pending(t)' => Pending(t)) /\ (Succeeded(t)' => Succeeded(t))
  BY DEF Pending, Succeeded, storeVars
<1>2. \A t \in Servers, r \in Requests : Queued(t, r)' => Queued(t, r)
  BY DEF Queued
<1> QED
  BY <1>1, <1>2, ServerQuiet

\* A crash is quiet too, though its request may be in doubt from then on.
LEMMA CrashQuiet ==
  ASSUME Inv, NEW s \in Servers, Crash(s)
  PROVE  Quiet /\ ~Pending(s)'
<1>1. /\ queue' = [queue EXCEPT ![s] = <<>>] /\ step' = [step EXCEPT ![s] = "idle"]
      /\ UNCHANGED <<client, cur>>
      /\ IF phase[s] = "idle" THEN UNCHANGED storeVars ELSE Store!ReturnError(s)
  BY DEF Crash, GoTo
<1>2. \A t \in Servers \ {s} : step'[t] = step[t] /\ phase'[t] = phase[t] /\ result'[t] = result[t]
  BY <1>1 DEF Inv, ServerTypes, Store!ReturnError, Store!Return, Store!TypeOK, storeVars, Servers
<1>3. step'[s] = "idle"
  BY <1>1 DEF Inv, ServerTypes
<1>4. ~Pending(s)' /\ ~Succeeded(s)'
  BY <1>3 DEF Pending, Succeeded
<1>5. \A t \in Servers \ {s} : (Pending(t)' => Pending(t)) /\ (Succeeded(t)' => Succeeded(t))
  BY <1>2 DEF Pending, Succeeded
<1>6. \A t \in Servers : queue'[t] = queue[t] \/ queue'[t] = <<>>
  BY <1>1 DEF Inv, ServerTypes
<1>7. \A t \in Servers, r \in Requests : Queued(t, r)' => Queued(t, r)
  BY <1>6 DEF Queued
<1> QED
  BY <1>1, <1>4, <1>5, <1>7, ServerQuiet

-----------------------------------------------------------------------------
(* The effects of a command have requests of their own *)

LEMMA RequestSets ==
  ASSUME NEW S \in SUBSET Requests
  PROVE  IsFiniteSet(S) /\ Cardinality(S) \in Nat
<1>1. IsFiniteSet(Requests)
  BY CommandAssumption, FS_Interval DEF Requests
<1>2. IsFiniteSet(S)
  BY <1>1, FS_Subset
<1> QED
  BY <1>2, FS_CardinalityType

LEMMA UsedKept ==
  ASSUME UsedInv, UNCHANGED cmd, NEW c \in Commands,
         \A r \in Requests : Free(r)' => Free(r),
         Effects(c) + doubt[c] \in Nat, (Effects(c) + doubt[c])' \in Nat,
         \/ (Effects(c) + doubt[c])' <= Effects(c) + doubt[c]
         \/ /\ (Effects(c) + doubt[c])' = Effects(c) + doubt[c] + 1
            /\ \E r \in Requests : cmd[r] = c /\ Free(r) /\ ~Free(r)'
  PROVE  (Effects(c) + doubt[c] <= Cardinality(Used(c)))'
<1>1. PICK U : U = Used(c)
  OBVIOUS
<1>2. PICK V : V = Used(c)'
  OBVIOUS
<1>3. U \in SUBSET Requests /\ V \in SUBSET Requests /\ U \subseteq V
  BY <1>1, <1>2 DEF Used
<1>4. IsFiniteSet(U) /\ IsFiniteSet(V) /\ Cardinality(U) \in Nat /\ Cardinality(V) \in Nat
  BY <1>3, RequestSets
<1>5. Effects(c) + doubt[c] <= Cardinality(U)
  BY <1>1 DEF UsedInv
<1>6. Cardinality(U) <= Cardinality(V)
  BY <1>3, <1>4, FS_Subset
<1>7. CASE (Effects(c) + doubt[c])' <= Effects(c) + doubt[c]
  BY <1>2, <1>4, <1>5, <1>6, <1>7
<1>8. CASE /\ (Effects(c) + doubt[c])' = Effects(c) + doubt[c] + 1
           /\ \E r \in Requests : cmd[r] = c /\ Free(r) /\ ~Free(r)'
  <2>1. PICK r \in Requests : cmd[r] = c /\ Free(r) /\ ~Free(r)'
    BY <1>8
  <2>2. r \notin U /\ r \in V
    BY <1>1, <1>2, <2>1 DEF Used
  <2>3. Cardinality(U \cup {r}) = Cardinality(U) + 1
    BY <1>4, <2>2, FS_AddElement
  <2>4. Cardinality(U \cup {r}) <= Cardinality(V)
    BY <1>3, <1>4, <2>2, FS_Subset
  <2> QED
    BY <1>2, <1>4, <1>5, <1>8, <2>3, <2>4
<1> QED
  BY <1>7, <1>8

LEMMA SumType ==
  ASSUME Store!TypeOK, NEW c \in Commands
  PROVE  Effects(c) \in Nat /\ doubt[c] \in Nat
BY EffectsType DEF Store!TypeOK

LEMMA UsedQuiet ==
  ASSUME Inv, UsedInv, Quiet, UNCHANGED <<cmd, log, doubt>>
  PROVE  UsedInv'
<1> SUFFICES ASSUME NEW c \in Commands
             PROVE  (Effects(c) + doubt[c] <= Cardinality(Used(c)))'
  BY DEF UsedInv
<1>1. Effects(c)' = Effects(c) /\ doubt'[c] = doubt[c] /\ Effects(c) \in Nat /\ doubt[c] \in Nat
  BY EffectsSame, SumType DEF Inv
<1> QED
  BY <1>1, UsedKept DEF Quiet

\* The request of a running call loses its freedom when the call does something.
LEMMA RunningIsFree ==
  ASSUME Inv, NEW s \in Servers, phase[s] = "running", ~Pending(s)',
         UNCHANGED <<client, cur>>,
         \A t \in Servers \ {s} : Pending(t)' => Pending(t),
         \A t \in Servers, r \in Requests : Queued(t, r)' => Queued(t, r)
  PROVE  /\ cur[s] \in Requests /\ call[s] = cmd[cur[s]]
         /\ Free(cur[s]) /\ ~Free(cur[s])'
<1>1. step[s] = "running" /\ cur[s] \in Requests /\ call[s] = cmd[cur[s]]
  BY DEF Inv, PhaseInv
<1>0. PICK r \in Requests : r = cur[s]
  BY <1>1
<1>2. Free(r)
  BY <1>0, <1>1 DEF Free, Pending
<1>3. Handled(s, r)
  BY <1>0, <1>1 DEF Handled
<1>4. client[r] \in {"waiting", "timeout"} /\ \A t \in Servers : ~Queued(t, r)
  BY <1>3 DEF Inv, PlaceInv
<1>5. \A t \in Servers : Pending(t) /\ cur[t] = r => t = s
  <2>1. \A t \in Servers : Pending(t) /\ cur[t] = r => Handled(t, r)
    BY DEF Pending, Handled
  <2> QED
    BY <1>3, <2>1 DEF Inv, PlaceInv
<1>6. ~Free(r)'
  BY <1>4, <1>5 DEF Free
<1> QED
  BY <1>0, <1>1, <1>2, <1>6

LEMMA ExecutePoint ==
  ASSUME Inv, NEW s \in Servers, Execute(s)
  PROVE  /\ \A t \in Servers : Pending(t)' => Pending(t)
         /\ \A t \in Servers \ {s} : Succeeded(t)' => Succeeded(t)
         /\ \A t \in Servers, r \in Requests : Queued(t, r)' => Queued(t, r)
         /\ UNCHANGED <<client, cur, cmd>>
<1>1. /\ step[s] = "running" /\ ExecuteStep(s)
      /\ UNCHANGED <<cmd, client, queue, step, cur>>
  BY DEF Execute, ExecuteStep, serverVars
<1>2. Store!TypeOK
  BY DEF Inv
<1>3. /\ \A u \in Servers : u # s => phase'[u] = phase[u] /\ result'[u] = result[u]
      /\ \/ phase'[s] = "applied"
         \/ phase'[s] = "idle" /\ result'[s] \in {"ok", "error"}
         \/ phase[s] = "running" /\ phase'[s] = "idle"
  BY <1>1, <1>2, ExecuteShape
<1>4. Pending(s)' => Pending(s)
  BY <1>1, <1>3 DEF Pending
<1>5. \A t \in Servers \ {s} : (Pending(t)' => Pending(t)) /\ (Succeeded(t)' => Succeeded(t))
  BY <1>1, <1>3 DEF Pending, Succeeded
<1>6. \A t \in Servers, r \in Requests : Queued(t, r)' => Queued(t, r)
  BY <1>1 DEF Queued
<1> QED
  BY <1>1, <1>4, <1>5, <1>6

LEMMA UsedExecute ==
  ASSUME Inv, UsedInv, OwnFirst, NEW s \in Servers, Execute(s)
  PROVE  UsedInv'
<1>1. /\ step[s] = "running" /\ step' = step /\ ExecuteStep(s) /\ Store!TypeOK
  BY DEF Execute, ExecuteStep, serverVars, Inv
<1>2. /\ call[s] \in Commands /\ phase[s] # "idle"
  BY <1>1, ExecuteShape DEF Store!TypeOK, Servers
<1>3. \A r \in Requests : Free(r)' => Free(r)
  BY ExecutePoint DEF Free
<1> SUFFICES ASSUME NEW c \in Commands
             PROVE  (Effects(c) + doubt[c] <= Cardinality(Used(c)))'
  BY DEF UsedInv
<1>4. Effects(c) \in Nat /\ doubt[c] \in Nat
  BY <1>1, SumType
<1>5. CASE UNCHANGED <<log, doubt>>
  <2>1. Effects(c)' = Effects(c)
    BY <1>5, EffectsSame
  <2> QED
    BY <1>3, <1>4, <1>5, <2>1, ExecutePoint, UsedKept
<1>6. ASSUME phase[s] = "running", ~Pending(s)',
             Effects(c)' \in Nat, doubt'[c] \in Nat,
             Effects(c)' + doubt'[c] = IF c = call[s] THEN Effects(c) + doubt[c] + 1
                                                       ELSE Effects(c) + doubt[c]
      PROVE  (Effects(c) + doubt[c] <= Cardinality(Used(c)))'
  <2>1. /\ cur[s] \in Requests /\ call[s] = cmd[cur[s]]
        /\ Free(cur[s]) /\ ~Free(cur[s])'
    BY <1>6, ExecutePoint, RunningIsFree
  <2>2. CASE c = call[s]
    <3>1. \E r \in Requests : cmd[r] = c /\ Free(r) /\ ~Free(r)'
      <4>1. PICK r \in Requests : r = cur[s]
        BY <2>1
      <4>2. cmd[r] = c /\ Free(r)
        BY <2>1, <2>2, <4>1
      <4>3. ~Free(r)'
        BY <2>1, <4>1, ExecutePoint DEF Free
      <4> QED
        BY <4>2, <4>3
    <3> QED
      BY <1>3, <1>4, <1>6, <2>2, <3>1, ExecutePoint, UsedKept
  <2>3. CASE c # call[s]
    BY <1>3, <1>4, <1>6, <2>3, ExecutePoint, UsedKept
  <2> QED
    BY <2>2, <2>3
<1>7. CASE /\ phase[s] = "running" /\ phase'[s] = "applied"
           /\ Store!Append1(call[s]) /\ UNCHANGED doubt
  <2>1. ~Pending(s)'
    BY <1>1, <1>7 DEF Pending
  <2>2. Effects(c)' \in Nat /\ Effects(c)' = IF c = call[s] THEN Effects(c) + 1 ELSE Effects(c)
    BY <1>1, <1>2, <1>7, EffectsAppend
  <2> QED
    BY <1>4, <1>6, <1>7, <2>1, <2>2
<1>8. CASE /\ phase[s] = "running" /\ phase'[s] = "idle" /\ result'[s] = "error"
           /\ UNCHANGED log /\ doubt' = [doubt EXCEPT ![call[s]] = @ + 1]
  <2>1. ~Pending(s)'
    BY <1>1, <1>8 DEF Pending
  <2>2. Effects(c)' = Effects(c)
    BY <1>8, EffectsSame
  <2>3. doubt'[c] = IF c = call[s] THEN doubt[c] + 1 ELSE doubt[c]
    BY <1>1, <1>8 DEF Store!TypeOK
  <2> QED
    BY <1>4, <1>6, <1>8, <2>1, <2>2, <2>3
<1> QED
  BY <1>1, <1>5, <1>7, <1>8, ExecuteShape

LEMMA UsedCrash ==
  ASSUME Inv, UsedInv, NEW s \in Servers, Crash(s)
  PROVE  UsedInv'
<1>1. /\ queue' = [queue EXCEPT ![s] = <<>>] /\ step' = [step EXCEPT ![s] = "idle"]
      /\ UNCHANGED <<cmd, client, cur, log>> /\ Store!TypeOK
      /\ \/ UNCHANGED doubt
         \/ /\ phase[s] = "running" /\ doubt' = [doubt EXCEPT ![call[s]] = @ + 1]
            /\ phase' = [phase EXCEPT ![s] = "idle"] /\ result' = [result EXCEPT ![s] = "error"]
  BY DEF Crash, GoTo, Store!ReturnError, Store!Return, storeVars, Inv
<1>2. Quiet /\ ~Pending(s)'
  BY CrashQuiet
<1>3. CASE UNCHANGED doubt
  BY <1>1, <1>2, <1>3, UsedQuiet
<1>4. CASE /\ phase[s] = "running" /\ doubt' = [doubt EXCEPT ![call[s]] = @ + 1]
           /\ phase' = [phase EXCEPT ![s] = "idle"] /\ result' = [result EXCEPT ![s] = "error"]
  <2>1. \A t \in Servers \ {s} : Pending(t)' => Pending(t)
    <3>1. \A t \in Servers \ {s} :
            step'[t] = step[t] /\ phase'[t] = phase[t] /\ result'[t] = result[t]
      BY <1>1, <1>4 DEF Inv, ServerTypes, Store!TypeOK, Servers
    <3> QED
      BY <3>1 DEF Pending
  <2>2. \A t \in Servers, r \in Requests : Queued(t, r)' => Queued(t, r)
    <3>1. \A t \in Servers : queue'[t] = queue[t] \/ queue'[t] = <<>>
      BY <1>1 DEF Inv, ServerTypes
    <3> QED
      BY <3>1 DEF Queued
  <2>3. /\ cur[s] \in Requests /\ call[s] = cmd[cur[s]]
        /\ Free(cur[s]) /\ ~Free(cur[s])'
    BY <1>1, <1>2, <1>4, <2>1, <2>2, RunningIsFree
  <2>4. PICK r \in Requests : r = cur[s]
    BY <2>3
  <2>5. cmd[r] = call[s] /\ Free(r)
    BY <2>3, <2>4
  <2>6. ~Free(r)'
    BY <1>1, <2>3, <2>4 DEF Free
  <2>7. ASSUME NEW c \in Commands
        PROVE  (Effects(c) + doubt[c] <= Cardinality(Used(c)))'
    <3>1. /\ Effects(c)' = Effects(c) /\ Effects(c) \in Nat /\ doubt[c] \in Nat
          /\ doubt'[c] = IF c = call[s] THEN doubt[c] + 1 ELSE doubt[c]
      <4>1. Effects(c)' = Effects(c) /\ Effects(c) \in Nat /\ doubt[c] \in Nat
        BY <1>1, EffectsSame, SumType
      <4>2. doubt'[c] = IF c = call[s] THEN doubt[c] + 1 ELSE doubt[c]
        BY <1>1, <1>4 DEF Store!TypeOK
      <4> QED
        BY <4>1, <4>2
    <3>2. \A q \in Requests : Free(q)' => Free(q)
      BY <1>2 DEF Quiet
    <3>3. CASE c = call[s]
      <4>1. (Effects(c) + doubt[c])' = Effects(c) + doubt[c] + 1
        BY <3>1, <3>3
      <4> QED
        BY <1>1, <2>5, <2>6, <3>1, <3>2, <3>3, <4>1, UsedKept
    <3>4. CASE c # call[s]
      BY <1>1, <3>1, <3>2, <3>4, UsedKept
    <3> QED
      BY <3>3, <3>4
  <2> QED
    BY <2>7 DEF UsedInv
<1> QED
  BY <1>1, <1>3, <1>4

LEMMA UsedResolve ==
  ASSUME Inv, UsedInv, OwnFirst, NEW c \in Commands, Resolve(c)
  PROVE  UsedInv'
<1>1. /\ UNCHANGED <<cmd, client, queue, step, cur, phase, result>> /\ Store!TypeOK
      /\ doubt[c] > 0 /\ doubt' = [doubt EXCEPT ![c] = @ - 1]
      /\ Store!Append1(c) \/ UNCHANGED log
  BY DEF Resolve, serverVars, Store!Resolve, Inv
<1>2. \A r \in Requests : Free(r)' => Free(r)
  BY <1>1 DEF Free, Pending, Queued
<1> SUFFICES ASSUME NEW d \in Commands
             PROVE  (Effects(d) + doubt[d] <= Cardinality(Used(d)))'
  BY DEF UsedInv
<1>3. Effects(d) \in Nat /\ doubt[d] \in Nat /\ doubt[c] \in Nat
  BY <1>1, SumType
<1>4. doubt'[d] = IF d = c THEN doubt[d] - 1 ELSE doubt[d]
  BY <1>1 DEF Store!TypeOK
<1>5. Effects(d)' \in Nat /\ Effects(d)' <= IF d = c THEN Effects(d) + 1 ELSE Effects(d)
  <2>1. CASE UNCHANGED log
    BY <1>3, <2>1, EffectsSame
  <2>2. CASE Store!Append1(c)
    BY <1>1, <1>3, <2>2, EffectsAppend
  <2> QED
    BY <1>1, <2>1, <2>2
<1>6. /\ (Effects(d) + doubt[d])' <= Effects(d) + doubt[d]
      /\ Effects(d) + doubt[d] \in Nat /\ (Effects(d) + doubt[d])' \in Nat
  BY <1>1, <1>3, <1>4, <1>5
<1> QED
  BY <1>1, <1>2, <1>6, UsedKept

\* A dispatched command takes effect at most once, whatever the retries, the
\* crashes and the late requests do, and never if the caller was told that it
\* lost every race or that nobody was there to handle it.
THEOREM TakesEffectOnce ==
  ASSUME Option >= 0, OwnFirst
  PROVE  Spec => []AtMostOnce
<1>1. Init => Inv /\ UsedInv
  <2> SUFFICES ASSUME Init PROVE Inv /\ UsedInv
    OBVIOUS
  <2>1. Inv
    BY InitInv
  <2>2. ASSUME NEW c \in Commands PROVE Effects(c) = 0 /\ doubt[c] = 0
    <3>1. log[AggOf[c]] = <<>> /\ doubt[c] = 0
      BY DomainAssumption DEF Init, Store!Init
    <3>2. Effects(c) \in Nat /\ ~(Effects(c) > 0)
      BY <2>1, <3>1, EffectsType DEF Inv, Has
    <3> QED
      BY <3>1, <3>2
  <2>3. \A c \in Commands : Cardinality(Used(c)) \in Nat
    BY RequestSets DEF Used
  <2> QED
    BY <2>1, <2>2, <2>3 DEF UsedInv
<1>2. Inv /\ UsedInv /\ [Next]_vars => UsedInv'
  <2> SUFFICES ASSUME Inv, UsedInv, [Next]_vars PROVE UsedInv'
    OBVIOUS
  <2>1. ASSUME NEW r \in Requests, Dispatch(r) \/ DispatchNowhere(r) \/ Timeout(r)
        PROVE  UsedInv'
    <3>1. UNCHANGED <<cmd, log, doubt>>
      BY <2>1 DEF Dispatch, DispatchNowhere, Timeout, storeVars
    <3> QED
      BY <2>1, <3>1, ClientQuiet, UsedQuiet
  <2>2. ASSUME NEW s \in Servers, Handling(s)
        PROVE  UsedInv'
    <3>1. CASE Execute(s)
      BY <3>1, UsedExecute
    <3>2. CASE Take(s) \/ Attempt(s) \/ GiveUp(s) \/ Executed(s) \/ Respond(s)
      <4>1. UNCHANGED <<cmd, log, doubt>>
        BY <3>2 DEF Take, Attempt, Store!Call, GiveUp, Executed, Respond, storeVars
      <4> QED
        BY <3>2, <4>1, TakeQuiet, LoopQuiet, RespondQuiet, UsedQuiet
    <3> QED
      BY <2>2, <3>1, <3>2 DEF Handling, Serving
  <2>3. ASSUME NEW s \in Servers, Connect(s) \/ Disconnect(s) \/ Drained(s)
        PROVE  UsedInv'
    <3>1. UNCHANGED <<cmd, log, doubt>> /\ UNCHANGED <<storeVars, client, queue, step, cur>>
      BY <2>3 DEF Connect, Disconnect, Drained, storeVars
    <3> QED
      BY <3>1, StateQuiet, UsedQuiet
  <2>4. ASSUME NEW s \in Servers, Crash(s)
        PROVE  UsedInv'
    BY <2>4, UsedCrash
  <2>5. ASSUME NEW c \in Commands, Resolve(c)
        PROVE  UsedInv'
    BY <2>5, UsedResolve
  <2>6. CASE UNCHANGED vars
    <3>1. UNCHANGED <<cmd, log, doubt>> /\ UNCHANGED <<storeVars, client, queue, step, cur>>
      BY <2>6 DEF vars, storeVars, serverVars
    <3> QED
      BY <3>1, StateQuiet, UsedQuiet
  <2> QED
    BY <2>1, <2>2, <2>3, <2>4, <2>5, <2>6 DEF Next
<1>3. Inv /\ UsedInv => AtMostOnce
  <2> SUFFICES ASSUME Inv, UsedInv, NEW c \in Commands
               PROVE  Effects(c) <= Cardinality(Answered(c, {"waiting", "ok", "error", "timeout"}))
    BY DEF AtMostOnce
  <2> DEFINE A == Answered(c, {"waiting", "ok", "error", "timeout"})
  <2>1. Used(c) \subseteq A /\ Used(c) \in SUBSET Requests /\ A \in SUBSET Requests
    BY DEF Used, Free, Answered, Inv, ClientTypes, Answers
  <2>2. /\ IsFiniteSet(A) /\ Cardinality(A) \in Nat /\ Cardinality(Used(c)) \in Nat
        /\ Cardinality(Used(c)) <= Cardinality(A)
    BY <2>1, RequestSets, FS_Subset
  <2>3. Effects(c) \in Nat /\ doubt[c] \in Nat /\ Effects(c) + doubt[c] <= Cardinality(Used(c))
    BY SumType DEF Inv, UsedInv
  <2> QED
    BY <2>2, <2>3
<1>4. Inv /\ [Next]_vars => Inv'
  BY InvInductive
<1> QED
  BY <1>1, <1>2, <1>3, <1>4, PTL DEF Spec

-----------------------------------------------------------------------------
(* A success has an effect of its own *)

LEMMA DoneKept ==
  ASSUME DoneInv, UNCHANGED cmd, NEW c \in Commands,
         Effects(c) \in Nat, Effects(c)' \in Nat, Effects(c)' >= Effects(c),
         \/ \A r \in Requests : cmd[r] = c /\ Success(r)' => Success(r)
         \/ /\ c \in Idempotent => Effects(c)' > 0
            /\ c \notin Idempotent => Effects(c)' >= Effects(c) + 1
            /\ \E q \in Requests : \A r \in Requests : Success(r)' => Success(r) \/ r = q
  PROVE  (IF c \in Idempotent THEN Done(c) # {} => Effects(c) > 0
                              ELSE Cardinality(Done(c)) <= Effects(c))'
<1>1. PICK D : D = Done(c)
  OBVIOUS
<1>2. PICK E : E = Done(c)'
  OBVIOUS
<1>3. D \in SUBSET Requests /\ E \in SUBSET Requests
  BY <1>1, <1>2 DEF Done
<1>4. IsFiniteSet(D) /\ IsFiniteSet(E) /\ Cardinality(D) \in Nat /\ Cardinality(E) \in Nat
  BY <1>3, RequestSets
<1>5. IF c \in Idempotent THEN D # {} => Effects(c) > 0 ELSE Cardinality(D) <= Effects(c)
  BY <1>1 DEF DoneInv
<1>6. CASE \A r \in Requests : cmd[r] = c /\ Success(r)' => Success(r)
  <2>1. E \subseteq D
    BY <1>1, <1>2, <1>6 DEF Done
  <2>2. Cardinality(E) <= Cardinality(D)
    BY <1>4, <2>1, FS_Subset
  <2> QED
    BY <1>2, <1>4, <1>5, <2>1, <2>2
<1>7. CASE /\ c \in Idempotent => Effects(c)' > 0
           /\ c \notin Idempotent => Effects(c)' >= Effects(c) + 1
           /\ \E q \in Requests : \A r \in Requests : Success(r)' => Success(r) \/ r = q
  <2>1. PICK q \in Requests : \A r \in Requests : Success(r)' => Success(r) \/ r = q
    BY <1>7
  <2>2. E \subseteq D \cup {q}
    BY <1>1, <1>2, <2>1 DEF Done
  <2>3. IsFiniteSet(D \cup {q}) /\ Cardinality(D \cup {q}) <= Cardinality(D) + 1
    <3>1. CASE q \in D
      <4>1. D \cup {q} = D
        BY <3>1
      <4> QED
        BY <1>4, <4>1
    <3>2. CASE q \notin D
      <4>1. IsFiniteSet(D \cup {q}) /\ Cardinality(D \cup {q}) = Cardinality(D) + 1
        BY <1>4, <3>2, FS_AddElement
      <4> QED
        BY <1>4, <4>1
    <3> QED
      BY <3>1, <3>2
  <2>4. Cardinality(D \cup {q}) \in Nat /\ Cardinality(E) <= Cardinality(D \cup {q})
    BY <2>2, <2>3, FS_Subset, FS_CardinalityType
  <2>5. CASE c \in Idempotent
    BY <1>7, <2>5
  <2>6. CASE c \notin Idempotent
    <3>1. Cardinality(E) <= Effects(c)'
      BY <1>4, <1>5, <1>7, <2>3, <2>4, <2>6
    <3> QED
      BY <1>2, <2>6, <3>1
  <2> QED
    BY <2>5, <2>6
<1> QED
  BY <1>6, <1>7

LEMMA DoneQuiet ==
  ASSUME Inv, DoneInv, Quiet, UNCHANGED <<cmd, log>>
  PROVE  DoneInv'
<1> SUFFICES ASSUME NEW c \in Commands
             PROVE  (IF c \in Idempotent THEN Done(c) # {} => Effects(c) > 0
                                         ELSE Cardinality(Done(c)) <= Effects(c))'
  BY DEF DoneInv
<1>1. Effects(c)' = Effects(c) /\ Effects(c) \in Nat
  BY EffectsSame, SumType DEF Inv
<1> QED
  BY <1>1, DoneKept DEF Quiet

LEMMA DoneExecute ==
  ASSUME Inv, DoneInv, NEW s \in Servers, Execute(s)
  PROVE  DoneInv'
<1>1. /\ step[s] = "running" /\ step' = step /\ ExecuteStep(s) /\ Store!TypeOK
  BY DEF Execute, ExecuteStep, serverVars, Inv
<1>2. /\ call[s] \in Commands /\ phase[s] # "idle"
      /\ cur[s] \in Requests /\ call[s] = cmd[cur[s]]
  <2>1. call[s] \in Commands /\ phase[s] # "idle"
    BY <1>1, ExecuteShape DEF Store!TypeOK, Servers
  <2> QED
    BY <1>1, <2>1 DEF Inv, PhaseInv
<1>3. PICK q \in Requests : q = cur[s]
  BY <1>2
<1>4. \A r \in Requests : Success(r)' => Success(r) \/ (r = q /\ Succeeded(s)')
  BY <1>3, ExecutePoint DEF Success
<1> SUFFICES ASSUME NEW c \in Commands
             PROVE  (IF c \in Idempotent THEN Done(c) # {} => Effects(c) > 0
                                         ELSE Cardinality(Done(c)) <= Effects(c))'
  BY DEF DoneInv
<1>5. Effects(c) \in Nat /\ cmd' = cmd
  BY <1>1, SumType, ExecutePoint
<1>6. CASE Store!Append1(call[s])
  <2>1. /\ Effects(c)' \in Nat /\ Effects(c)' >= Effects(c)
        /\ c = call[s] => Effects(c)' >= Effects(c) + 1
    BY <1>1, <1>2, <1>6, EffectsAppend
  <2>2. CASE c = call[s]
    BY <1>4, <1>5, <2>1, <2>2, DoneKept
  <2>3. CASE c # call[s]
    <3>1. \A r \in Requests : cmd[r] = c /\ Success(r)' => Success(r)
      BY <1>2, <1>3, <1>4, <2>3
    <3> QED
      BY <1>5, <2>1, <3>1, DoneKept
  <2> QED
    BY <2>2, <2>3
<1>7. CASE UNCHANGED log /\ (Succeeded(s)' => Succeeded(s))
  <2>1. \A r \in Requests : Success(r)' => Success(r)
    BY <1>3, <1>4, <1>7 DEF Success
  <2>2. Effects(c)' = Effects(c)
    BY <1>7, EffectsSame
  <2> QED
    BY <1>5, <2>1, <2>2, DoneKept
<1>8. CASE UNCHANGED log /\ Store!Decide(call[s], log[AggOf[call[s]]]) = <<>>
  <2>1. call[s] \in Idempotent /\ Has(log[AggOf[call[s]]], Outcome[call[s]][1])
    <3>1. Outcome[call[s]] # <<>>
      BY <1>2, DomainAssumption
    <3> QED
      BY <1>8, <3>1 DEF Store!Decide, Store!Has, Has
  <2>2. Effects(call[s]) > 0
    BY <1>1, <1>2, <2>1, EffectsType
  <2>3. Effects(c)' = Effects(c)
    BY <1>8, EffectsSame
  <2>4. CASE c = call[s]
    BY <1>4, <1>5, <2>1, <2>2, <2>3, <2>4, DoneKept
  <2>5. CASE c # call[s]
    <3>1. \A r \in Requests : cmd[r] = c /\ Success(r)' => Success(r)
      BY <1>2, <1>3, <1>4, <2>5
    <3> QED
      BY <1>5, <2>3, <3>1, DoneKept
  <2> QED
    BY <2>4, <2>5
<1>9. \/ Store!Append1(call[s])
      \/ UNCHANGED log /\ phase[s] = "applied"
      \/ UNCHANGED log /\ Store!Decide(call[s], log[AggOf[call[s]]]) = <<>>
      \/ UNCHANGED log /\ phase'[s] = "idle" /\ result'[s] \in {"conflict", "error"}
  BY <1>1, ExecuteShape
<1>10. CASE UNCHANGED log /\ phase[s] = "applied"
  BY <1>1, <1>7, <1>10 DEF Succeeded
<1>11. CASE UNCHANGED log /\ phase'[s] = "idle" /\ result'[s] \in {"conflict", "error"}
  BY <1>1, <1>7, <1>11 DEF Succeeded
<1> QED
  BY <1>6, <1>8, <1>9, <1>10, <1>11

LEMMA DoneResolve ==
  ASSUME Inv, DoneInv, NEW c \in Commands, Resolve(c)
  PROVE  DoneInv'
<1>1. /\ UNCHANGED <<cmd, client, step, cur, phase, result>> /\ Store!TypeOK
      /\ Store!Append1(c) \/ UNCHANGED log
  BY DEF Resolve, serverVars, Store!Resolve, Inv
<1>2. \A r \in Requests : Success(r)' => Success(r)
  BY <1>1 DEF Success, Succeeded
<1> SUFFICES ASSUME NEW d \in Commands
             PROVE  (IF d \in Idempotent THEN Done(d) # {} => Effects(d) > 0
                                         ELSE Cardinality(Done(d)) <= Effects(d))'
  BY DEF DoneInv
<1>3. Effects(d) \in Nat
  BY <1>1, SumType
<1>4. Effects(d)' \in Nat /\ Effects(d)' >= Effects(d)
  <2>1. CASE UNCHANGED log
    BY <1>3, <2>1, EffectsSame
  <2>2. CASE Store!Append1(c)
    BY <1>1, <1>3, <2>2, EffectsAppend
  <2> QED
    BY <1>1, <2>1, <2>2
<1> QED
  BY <1>1, <1>2, <1>3, <1>4, DoneKept

\* A nil error of DispatchCommand means that the command is in the log, and
\* that each success of a command that is not idempotent is there by itself.
THEOREM NilMeansDone ==
  ASSUME Option >= 0
  PROVE  Spec => []OkIsDurable
<1>1. Init => Inv /\ DoneInv
  <2> SUFFICES ASSUME Init PROVE Inv /\ DoneInv
    OBVIOUS
  <2>1. Inv
    BY InitInv
  <2>2. \A r \in Requests : ~Success(r)
    BY DEF Init, Success, Succeeded
  <2>3. ASSUME NEW c \in Commands
        PROVE  Done(c) = {} /\ Cardinality(Done(c)) = 0 /\ Effects(c) \in Nat
    <3>1. Done(c) = {}
      BY <2>2 DEF Done
    <3> QED
      BY <2>1, <3>1, SumType, FS_EmptySet DEF Inv
  <2> QED
    BY <2>1, <2>3 DEF DoneInv
<1>2. Inv /\ DoneInv /\ [Next]_vars => DoneInv'
  <2> SUFFICES ASSUME Inv, DoneInv, [Next]_vars PROVE DoneInv'
    OBVIOUS
  <2>1. ASSUME NEW r \in Requests, Dispatch(r) \/ DispatchNowhere(r) \/ Timeout(r)
        PROVE  DoneInv'
    <3>1. UNCHANGED <<cmd, log>>
      BY <2>1 DEF Dispatch, DispatchNowhere, Timeout, storeVars
    <3> QED
      BY <2>1, <3>1, ClientQuiet, DoneQuiet
  <2>2. ASSUME NEW s \in Servers, Handling(s)
        PROVE  DoneInv'
    <3>1. CASE Execute(s)
      BY <3>1, DoneExecute
    <3>2. CASE Take(s) \/ Attempt(s) \/ GiveUp(s) \/ Executed(s) \/ Respond(s)
      <4>1. UNCHANGED <<cmd, log>>
        BY <3>2 DEF Take, Attempt, Store!Call, GiveUp, Executed, Respond, storeVars
      <4> QED
        BY <3>2, <4>1, TakeQuiet, LoopQuiet, RespondQuiet, DoneQuiet
    <3> QED
      BY <2>2, <3>1, <3>2 DEF Handling, Serving
  <2>3. ASSUME NEW s \in Servers, Connect(s) \/ Disconnect(s) \/ Drained(s)
        PROVE  DoneInv'
    <3>1. UNCHANGED <<cmd, log>> /\ UNCHANGED <<storeVars, client, queue, step, cur>>
      BY <2>3 DEF Connect, Disconnect, Drained, storeVars
    <3> QED
      BY <3>1, StateQuiet, DoneQuiet
  <2>4. ASSUME NEW s \in Servers, Crash(s)
        PROVE  DoneInv'
    <3>1. UNCHANGED <<cmd, log>>
      BY <2>4 DEF Crash, Store!ReturnError, Store!Return, storeVars
    <3> QED
      BY <2>4, <3>1, CrashQuiet, DoneQuiet
  <2>5. ASSUME NEW c \in Commands, Resolve(c)
        PROVE  DoneInv'
    BY <2>5, DoneResolve
  <2>6. CASE UNCHANGED vars
    <3>1. UNCHANGED <<cmd, log>> /\ UNCHANGED <<storeVars, client, queue, step, cur>>
      BY <2>6 DEF vars, storeVars, serverVars
    <3> QED
      BY <3>1, StateQuiet, DoneQuiet
  <2> QED
    BY <2>1, <2>2, <2>3, <2>4, <2>5, <2>6 DEF Next
<1>3. Inv /\ DoneInv => OkIsDurable
  <2> SUFFICES ASSUME Inv, DoneInv, NEW c \in Commands
               PROVE  IF c \in Idempotent
                      THEN Answered(c, {"ok"}) # {} => Effects(c) > 0
                      ELSE Cardinality(Answered(c, {"ok"})) <= Effects(c)
    BY DEF OkIsDurable
  <2> DEFINE A == Answered(c, {"ok"})
  <2>1. A \subseteq Done(c) /\ Done(c) \in SUBSET Requests /\ A \in SUBSET Requests
    BY DEF Done, Success, Answered
  <2>2. /\ Cardinality(A) \in Nat /\ Cardinality(Done(c)) \in Nat
        /\ Cardinality(A) <= Cardinality(Done(c))
    BY <2>1, RequestSets, FS_Subset
  <2>3. /\ Effects(c) \in Nat
        /\ IF c \in Idempotent THEN Done(c) # {} => Effects(c) > 0
                               ELSE Cardinality(Done(c)) <= Effects(c)
    BY SumType DEF Inv, DoneInv
  <2> QED
    BY <2>1, <2>2, <2>3
<1>4. Inv /\ [Next]_vars => Inv'
  BY InvInductive
<1> QED
  BY <1>1, <1>2, <1>3, <1>4, PTL DEF Spec
=============================================================================
