----------------------------- MODULE EventStore -----------------------------
(***************************************************************************)
(* event.Execute (execute.go) over the NATS event store (nats/event_store  *)
(* .go, nats/read.go): load an aggregate from its latest snapshot and the  *)
(* events after it, decide, and save with optimistic concurrency, a new    *)
(* snapshot riding in the same atomic batch.  Many workers run it against  *)
(* one JetStream stream, which is external and modelled from how the code  *)
(* uses it: a sequence of messages, a conditional (batch) publish, and     *)
(* reads that a lagging replica may serve.                                 *)
(***************************************************************************)
EXTENDS Domain, FiniteSets

CONSTANTS
  Foreign,       \* events other programs append through Publisher, without CAS
  SnapshotEvery, \* EventStoreConfig.SnapshotEvery, 0 disables snapshots
  MaxAttempts,   \* ExecuteConfig.MaxAttempts
  MaxLate,       \* bound: abandoned requests on the way at once
  Deadlines,     \* workers whose caller's context has a deadline
  Replicated     \* whether reads may be served by a replica that lags behind

ASSUME StoreAssumption ==
  /\ Commands # {}
  /\ Foreign \subseteq Events
  /\ SnapshotEvery \in Nat
  /\ MaxAttempts \in Nat \ {0}
  /\ MaxLate \in Nat
  /\ Replicated \in BOOLEAN
  /\ Deadlines \subseteq Workers

VARIABLES
  stream,   \* the JetStream stream: position n holds sequence n
  truth,    \* history: truth[n][a] is aggregate a after the first n messages
  late,     \* requests whose publisher has given up, not yet at the server
  pc,       \* pc[w]: where the Execute call of worker w is
  cmd,      \* cmd[w]: the command of that call
  attempt,  \* attempt[w]: its attempt number, from 0
  result,   \* result[w]: what the last call returned
  st,       \* st[w]: the aggregate value, fresh on every attempt
  ver,      \* ver[w]: the version Load has reached, then the expected version
  mark,     \* mark[w]: Load: how much of the stream its consumer has accounted
            \*   for; snapshotForSave: the version of the latest snapshot
  since,    \* history: the stream's length when Load began, until mutate
  evs,      \* evs[w]: the events mutate produced
  snap,     \* snap[w]: whether a snapshot is saved with them
  staged    \* staged[w]: batch messages the server has staged

loadVars == <<st, ver, mark, since>>
saveVars == <<evs, snap, staged>>
callVars == <<cmd, attempt, result>>
serverVars == <<stream, truth, late>>
vars == <<stream, truth, late, pc, cmd, attempt, result,
          st, ver, mark, since, evs, snap, staged>>

PCs == {"idle", "load", "open", "replay", "mutate", "snapshot", "count",
        "publish", "await", "acked", "conflicted", "backoff"}

Message == [agg : Aggregates, snap : BOOLEAN, body : State]
Request == [cmd : Commands, exp : Nat, evs : State, snap : BOOLEAN, st : State]

-----------------------------------------------------------------------------
(* The stream *)

\* Every aggregate after the first n messages.
At(n) == IF n = 0 THEN [a \in Aggregates |-> <<>>] ELSE truth[n]
Now == At(Len(stream))

\* Sequences in (lo, hi] of messages that match the aggregate's filter.
Between(a, lo, hi) == {n \in (lo + 1)..hi : stream[n].agg = a}

\* How much of the stream the replica serving a read may hold.
Visible == IF Replicated THEN 0..Len(stream) ELSE {Len(stream)}

\* s is the last snapshot of a in the first n messages, 0 if there is none.
IsLastSnapshot(a, s, n) ==
  /\ s \in 0..n
  /\ s # 0 => stream[s].agg = a /\ stream[s].snap
  /\ \A m \in Between(a, s, n) : ~stream[m].snap

\* Mutant: the expected sequence is that of the whole stream.
IsLastSequence_OfStream(a, v) == v = Len(stream)

\* WithExpectLastSequenceForSubject: v is the last sequence of a's subjects.
IsLastSequence(a, v) ==
  /\ v \in 0..Len(stream)
  /\ v # 0 => stream[v].agg = a
  /\ Between(a, v, Len(stream)) = {}

\* The messages of a Save: its events and, last, the snapshot.
Size(r) == Len(r.evs) + (IF r.snap THEN 1 ELSE 0)
Batch(r) ==
  [i \in 1..Size(r) |->
     [agg  |-> AggOf[r.cmd],
      snap |-> i > Len(r.evs),
      body |-> IF i > Len(r.evs) THEN r.st ELSE <<r.evs[i]>>]]

\* The server appends the whole batch, or nothing.
AppendBatch(r) ==
  /\ stream' = stream \o Batch(r)
  /\ truth' = truth \o
       [i \in 1..Size(r) |->
          [Now EXCEPT ![AggOf[r.cmd]] =
             @ \o (IF i > Len(r.evs) THEN r.evs ELSE SubSeq(r.evs, 1, i))]]

-----------------------------------------------------------------------------
(* Execute *)

Agg(w) == AggOf[cmd[w]]

Goto(w, next) == pc' = [pc EXCEPT ![w] = next]

\* newAggregate(): the value, version and position of an unloaded aggregate.
Fresh(w) ==
  /\ st' = [st EXCEPT ![w] = <<>>]
  /\ ver' = [ver EXCEPT ![w] = 0]
  /\ mark' = [mark EXCEPT ![w] = 0]

NoSave(w) ==
  /\ evs' = [evs EXCEPT ![w] = <<>>]
  /\ snap' = [snap EXCEPT ![w] = FALSE]
  /\ staged' = [staged EXCEPT ![w] = 0]

Return(w, r) ==
  /\ Goto(w, "idle")
  /\ result' = [result EXCEPT ![w] = r]
  /\ attempt' = [attempt EXCEPT ![w] = 0]
  /\ since' = [since EXCEPT ![w] = 0]
  /\ Fresh(w) /\ NoSave(w)
  /\ UNCHANGED <<cmd, stream, truth>>

Execute(w, c) ==
  /\ pc[w] = "idle"
  /\ c \in Idempotent \/ Len(stream) < MaxStream
  /\ Goto(w, "load")
  /\ cmd' = [cmd EXCEPT ![w] = c]
  /\ result' = [result EXCEPT ![w] = "none"]
  /\ since' = [since EXCEPT ![w] = Len(stream)]
  /\ UNCHANGED <<attempt, st, ver, mark, saveVars, serverVars>>

-----------------------------------------------------------------------------
(* Load *)

\* The direct get of the latest snapshot, decoded into the aggregate.
LoadSnapshot(w) ==
  /\ pc[w] = "load"
  /\ \E n \in Visible : \E s \in 0..n :
       /\ IsLastSnapshot(Agg(w), s, n)
       /\ st' = [st EXCEPT ![w] = IF s = 0 THEN @ ELSE stream[s].body]
       /\ ver' = [ver EXCEPT ![w] = s]
  /\ Goto(w, "open")
  /\ UNCHANGED <<mark, since, callVars, saveVars, serverVars>>

\* A consumer of the aggregate's filter is created just after the snapshot.
\* Its NumPending decides whether there is anything to replay.
OpenConsumer(w) ==
  /\ pc[w] = "open"
  /\ \E n \in Visible :
       IF Between(Agg(w), ver[w], n) = {}
       THEN Goto(w, "mutate") /\ UNCHANGED mark
       ELSE Goto(w, "replay") /\ mark' = [mark EXCEPT ![w] = n]
  /\ UNCHANGED <<st, ver, since, callVars, saveVars, serverVars>>

\* Mutants: a snapshot met in the replay is applied on top of the aggregate;
\* the iteration stops after one message.
ReplayOne(w, q, n) ==
  /\ Between(Agg(w), ver[w], q) = {q}
  /\ ver' = [ver EXCEPT ![w] = q]
  /\ UNCHANGED <<since, callVars, saveVars, serverVars>>
Replay_SnapshotOnTop(w) ==
  /\ pc[w] = "replay"
  /\ \E q \in Between(Agg(w), ver[w], mark[w]), n \in mark[w]..Len(stream) :
       /\ ReplayOne(w, q, n)
       /\ st' = [st EXCEPT ![w] = @ \o stream[q].body]
       /\ IF Between(Agg(w), q, n) = {}
          THEN Goto(w, "mutate") /\ mark' = [mark EXCEPT ![w] = 0]
          ELSE UNCHANGED pc /\ mark' = [mark EXCEPT ![w] = n]
Replay_FirstOnly(w) ==
  /\ pc[w] = "replay"
  /\ \E q \in Between(Agg(w), ver[w], mark[w]), n \in mark[w]..Len(stream) :
       /\ ReplayOne(w, q, n)
       /\ st' = [st EXCEPT ![w] =
                   IF stream[q].snap THEN stream[q].body ELSE @ \o stream[q].body]
       /\ Goto(w, "mutate") /\ mark' = [mark EXCEPT ![w] = 0]

\* One message is applied: an event extends the aggregate, a snapshot
\* replaces it.  The loop ends on the message whose metadata, computed when
\* the server sent it, says nothing is pending.
Replay(w) ==
  /\ pc[w] = "replay"
  /\ \E q \in Between(Agg(w), ver[w], mark[w]), n \in mark[w]..Len(stream) :
       /\ Between(Agg(w), ver[w], q) = {q}
       /\ st' = [st EXCEPT ![w] =
                   IF stream[q].snap THEN stream[q].body ELSE @ \o stream[q].body]
       /\ ver' = [ver EXCEPT ![w] = q]
       /\ IF Between(Agg(w), q, n) = {}
          THEN Goto(w, "mutate") /\ mark' = [mark EXCEPT ![w] = 0]
          ELSE UNCHANGED pc /\ mark' = [mark EXCEPT ![w] = n]
  /\ UNCHANGED <<since, callVars, saveVars, serverVars>>

\* The stream lookup, the get, the consumer or the iterator fails.
FailLoad(w) ==
  /\ pc[w] \in {"load", "open", "replay"}
  /\ Return(w, "error")
  /\ UNCHANGED late

-----------------------------------------------------------------------------
(* mutate and Save *)

\* mutate produces nothing: Execute returns nil without a Save.
MutateNothing(w) ==
  /\ pc[w] = "mutate"
  /\ Decide(cmd[w], st[w]) = <<>>
  /\ Return(w, "ok")
  /\ UNCHANGED late

Mutate(w) ==
  /\ pc[w] = "mutate"
  /\ Decide(cmd[w], st[w]) # <<>>
  /\ evs' = [evs EXCEPT ![w] = Decide(cmd[w], st[w])]
  /\ Goto(w, IF SnapshotEvery = 0 THEN "publish" ELSE "snapshot")
  /\ since' = [since EXCEPT ![w] = 0]
  /\ UNCHANGED <<snap, staged, st, ver, mark, callVars, serverVars>>

\* mutate returns an error, or its events fail validateEvents.
FailMutate(w) ==
  /\ pc[w] = "mutate"
  /\ Return(w, "error")
  /\ UNCHANGED late

\* lastSnapshotVersion: another direct get.
LastSnapshotVersion(w) ==
  /\ pc[w] = "snapshot"
  /\ \E n \in Visible : \E s \in 0..n :
       /\ IsLastSnapshot(Agg(w), s, n)
       /\ mark' = [mark EXCEPT ![w] = s]
  /\ Goto(w, "count")
  /\ UNCHANGED <<st, ver, since, callVars, saveVars, serverVars>>

\* Mutant: the snapshot is due one event too late.
Due_OffByOne(w, n) ==
  Cardinality(Between(Agg(w), mark[w], n)) + Len(evs[w]) > SnapshotEvery

\* eventsSinceSnapshot + len(events) reaches SnapshotEvery.
Due(w, n) == Cardinality(Between(Agg(w), mark[w], n)) + Len(evs[w]) >= SnapshotEvery

\* Mutant: the snapshot is taken before the new events are applied.
SnapshotForSave_NotApplied(w) ==
  /\ pc[w] = "count"
  /\ \E n \in Visible : snap' = [snap EXCEPT ![w] = Due(w, n)]
  /\ mark' = [mark EXCEPT ![w] = 0]
  /\ Goto(w, "publish")
  /\ UNCHANGED <<st, ver, since, evs, staged, callVars, serverVars>>

\* The new events are applied to the caller's aggregate and its value becomes
\* the snapshot; otherwise only the events are saved.
SnapshotForSave(w) ==
  /\ pc[w] = "count"
  /\ \E n \in Visible :
       IF Due(w, n)
       THEN /\ st' = [st EXCEPT ![w] = @ \o evs[w]]
            /\ snap' = [snap EXCEPT ![w] = TRUE]
       ELSE UNCHANGED <<st, snap>>
  /\ mark' = [mark EXCEPT ![w] = 0]
  /\ Goto(w, "publish")
  /\ UNCHANGED <<ver, since, evs, staged, callVars, serverVars>>

\* A failing get, count or TakeSnapshot fails the Save.
FailSnapshot(w) ==
  /\ pc[w] \in {"snapshot", "count"}
  /\ Return(w, "snapshot_error")
  /\ UNCHANGED late

RequestOf(w) ==
  [cmd |-> cmd[w], exp |-> ver[w], evs |-> evs[w], snap |-> snap[w], st |-> st[w]]

\* Mutant: the events are published one by one instead of in a batch.
Stage_Unbatched(w) ==
  LET m == Batch(RequestOf(w))[staged[w] + 1]
  IN /\ pc[w] = "publish"
     /\ staged[w] + 1 < Size(RequestOf(w))
     /\ staged' = [staged EXCEPT ![w] = @ + 1]
     /\ stream' = Append(stream, m)
     /\ truth' = Append(truth, [Now EXCEPT ![Agg(w)] = @ \o m.body])
     /\ UNCHANGED <<late, pc, evs, snap, loadVars, callVars>>

\* publishBatch: each message but the last is acknowledged as staged.
Stage(w) ==
  /\ pc[w] = "publish"
  /\ staged[w] + 1 < Size(RequestOf(w))
  /\ staged' = [staged EXCEPT ![w] = @ + 1]
  /\ UNCHANGED <<pc, evs, snap, loadVars, callVars, serverVars>>

\* publishOne, or the batch message that carries the commit header.
Publish(w) ==
  /\ pc[w] = "publish"
  /\ staged[w] + 1 = Size(RequestOf(w))
  /\ Goto(w, "await")
  /\ UNCHANGED <<loadVars, callVars, saveVars, serverVars>>

\* The server commits the request of w and its acknowledgement is on the way.
Commit(w) ==
  /\ pc[w] = "await"
  /\ IsLastSequence(Agg(w), ver[w])
  /\ AppendBatch(RequestOf(w))
  /\ Goto(w, "acked")
  /\ UNCHANGED <<late, loadVars, callVars, saveVars>>

\* The server refuses it: wrong last sequence.  A batch may be refused while
\* it is still being staged.
Refuse(w) ==
  /\ pc[w] = "await" \/ (pc[w] = "publish" /\ staged[w] > 0)
  /\ ~IsLastSequence(Agg(w), ver[w])
  /\ Goto(w, "conflicted")
  /\ UNCHANGED <<loadVars, callVars, saveVars, serverVars>>

SaveOk(w) ==
  /\ pc[w] = "acked"
  /\ Return(w, "ok")
  /\ UNCHANGED late

\* Mutants: one attempt too many; Save is retried without a new Load.
Retry_OneMore(w) ==
  /\ pc[w] = "conflicted"
  /\ attempt[w] < MaxAttempts
  /\ attempt' = [attempt EXCEPT ![w] = @ + 1]
  /\ Goto(w, "backoff")
  /\ Fresh(w) /\ NoSave(w)
  /\ UNCHANGED <<since, cmd, result, serverVars>>
Retry_SameVersion(w) ==
  /\ pc[w] = "conflicted"
  /\ Goto(w, "publish")
  /\ staged' = [staged EXCEPT ![w] = 0]
  /\ UNCHANGED <<loadVars, callVars, evs, snap, serverVars>>

\* ErrConflict: the next attempt starts with a fresh aggregate after a backoff.
Retry(w) ==
  /\ pc[w] = "conflicted"
  /\ attempt[w] + 1 < MaxAttempts
  /\ attempt' = [attempt EXCEPT ![w] = @ + 1]
  /\ Goto(w, "backoff")
  /\ Fresh(w) /\ NoSave(w)
  /\ UNCHANGED <<since, cmd, result, serverVars>>

\* Mutant: the last conflict is dropped.
Exhausted_Ignored(w) ==
  /\ pc[w] = "conflicted"
  /\ attempt[w] + 1 >= MaxAttempts
  /\ Return(w, "ok")
  /\ UNCHANGED late

Exhausted(w) ==
  /\ pc[w] = "conflicted"
  /\ attempt[w] + 1 >= MaxAttempts
  /\ Return(w, "conflict")
  /\ UNCHANGED late

Backoff(w) ==
  /\ pc[w] = "backoff"
  /\ Goto(w, "load")
  /\ since' = [since EXCEPT ![w] = Len(stream)]
  /\ UNCHANGED <<st, ver, mark, callVars, saveVars, serverVars>>

\* The context ends during the backoff.
CancelBackoff(w) ==
  /\ pc[w] = "backoff"
  /\ Return(w, "error")
  /\ UNCHANGED late

\* Mutant: a publish that times out is reported as a conflict.
FailPublish_AsConflict(w) ==
  /\ pc[w] \in {"publish", "await", "acked", "conflicted"}
  /\ late' = IF pc[w] = "await" /\ Cardinality(late) < MaxLate
             THEN late \cup {RequestOf(w)} ELSE late
  /\ Return(w, "conflict")

\* The publish times out or the connection drops.  A request that is on the
\* way may still reach the server; a half-staged batch may not.
FailPublish(w) ==
  /\ pc[w] \in {"publish", "await", "acked", "conflicted"}
  /\ late' = IF pc[w] = "await" /\ Cardinality(late) < MaxLate
             THEN late \cup {RequestOf(w)} ELSE late
  /\ Return(w, "error")

-----------------------------------------------------------------------------
(* The server, and other publishers *)

\* An abandoned request reaches the server after all.
CommitLate(r) ==
  /\ r \in late
  /\ IsLastSequence(AggOf[r.cmd], r.exp)
  /\ AppendBatch(r)
  /\ late' = late \ {r}
  /\ UNCHANGED <<pc, callVars, loadVars, saveVars>>

\* It is refused, or lost.
DropLate(r) ==
  /\ r \in late
  /\ late' = late \ {r}
  /\ UNCHANGED <<stream, truth, pc, callVars, loadVars, saveVars>>

\* Publisher.Publish (nats/publisher.go): one event, no expected version.
PublishForeign(a, e) ==
  /\ Len(stream) < MaxStream
  /\ stream' = Append(stream, [agg |-> a, snap |-> FALSE, body |-> <<e>>])
  /\ truth' = Append(truth, [Now EXCEPT ![a] = Append(@, e)])
  /\ UNCHANGED <<late, pc, callVars, loadVars, saveVars>>

-----------------------------------------------------------------------------
Init ==
  /\ stream = <<>> /\ truth = <<>> /\ late = {}
  /\ pc = [w \in Workers |-> "idle"]
  /\ cmd = [w \in Workers |-> CHOOSE c \in Commands : TRUE]
  /\ attempt = [w \in Workers |-> 0]
  /\ result = [w \in Workers |-> "none"]
  /\ st = [w \in Workers |-> <<>>]
  /\ ver = [w \in Workers |-> 0]
  /\ mark = [w \in Workers |-> 0]
  /\ since = [w \in Workers |-> 0]
  /\ evs = [w \in Workers |-> <<>>]
  /\ snap = [w \in Workers |-> FALSE]
  /\ staged = [w \in Workers |-> 0]

\* What moves a call of Execute on.
Step(w) ==
  \/ LoadSnapshot(w) \/ OpenConsumer(w) \/ Replay(w) \/ FailLoad(w)
  \/ MutateNothing(w) \/ Mutate(w) \/ FailMutate(w)
  \/ LastSnapshotVersion(w) \/ SnapshotForSave(w) \/ FailSnapshot(w)
  \/ Stage(w) \/ Publish(w) \/ Commit(w) \/ Refuse(w) \/ FailPublish(w)
  \/ SaveOk(w) \/ Retry(w) \/ Exhausted(w) \/ Backoff(w) \/ CancelBackoff(w)

Next ==
  \/ \E w \in Workers : Step(w) \/ \E c \in Commands : Execute(w, c)
  \/ \E r \in late : CommitLate(r) \/ DropLate(r)
  \/ \E a \in Aggregates, e \in Foreign : PublishForeign(a, e)

Spec == Init /\ [][Next]_vars

\* Waits that nothing in the code bounds.  The iterator of a replay is not given
\* the context (iter.Next), and the requests of a batch end only with the caller's
\* context (RequestMsgWithContext), which may have no deadline.
Unanswered(w) ==
  \/ pc[w] = "replay"
  \/ /\ pc[w] \in {"publish", "await", "acked", "conflicted"}
     /\ Size(RequestOf(w)) > 1 /\ w \notin Deadlines

\* All other waits are bounded: the JetStream API and single publishes have a
\* default timeout, the backoff is a timer, and mutate is assumed to return.
FairSpec == Spec /\ \A w \in Workers : WF_vars(~Unanswered(w) /\ Step(w))

-----------------------------------------------------------------------------
(* Properties *)

\* The state of a call is well formed.
TypeOK ==
  /\ stream \in Seq(Message)
  /\ truth \in Seq([Aggregates -> State])
  /\ Len(truth) = Len(stream)
  /\ late \subseteq Request
  /\ pc \in [Workers -> PCs]
  /\ cmd \in [Workers -> Commands]
  /\ attempt \in [Workers -> 0..(MaxAttempts - 1)]
  /\ result \in [Workers -> {"none", "ok", "conflict", "error", "snapshot_error"}]
  /\ st \in [Workers -> State]
  /\ ver \in [Workers -> Nat]
  /\ mark \in [Workers -> Nat]
  /\ since \in [Workers -> Nat]
  /\ evs \in [Workers -> State]
  /\ snap \in [Workers -> BOOLEAN]
  /\ staged \in [Workers -> Nat]

\* Load gives mutate a value that existed: the aggregate is exactly what the
\* first ver messages make of it, however old the snapshot it was loaded from
\* and whatever was appended while it was being replayed.
LoadConsistent ==
  \A w \in Workers : pc[w] \in {"open", "replay", "mutate"} =>
    st[w] = At(ver[w])[Agg(w)]

\* The history variable is what replaying every event from the start gives.
EventAt(n, a) == IF stream[n].agg = a /\ ~stream[n].snap THEN stream[n].body ELSE <<>>
TruthIsReplay ==
  \A n \in 1..Len(stream) : \A a \in Aggregates :
    At(n)[a] = At(n - 1)[a] \o EventAt(n, a)

\* A snapshot in the stream holds the value of its aggregate at that point:
\* loading from it gives the same aggregate as replaying every event.
SnapshotCorrect ==
  /\ TruthIsReplay
  /\ \A n \in 1..Len(stream) : stream[n].snap => stream[n].body = At(n)[stream[n].agg]

Positions(s, e) == {i \in 1..Len(s) : s[i] = e}

\* The events of an idempotent command are in the log at most once, together
\* and in order, although its request may be retried, time out and arrive late.
ExactlyOnce ==
  \A c \in Idempotent : LET s == Now[AggOf[c]] IN
    /\ Cardinality(Positions(s, Outcome[c][1])) <= 1
    /\ \A i \in 1..Len(Outcome[c]) : \A j \in Positions(s, Outcome[c][i]) :
         \A k \in 1..Len(Outcome[c]) :
           j - i + k \in 1..Len(s) /\ s[j - i + k] = Outcome[c][k]

\* Execute returned nil: the command's events are in the log.
AckedIsDurable ==
  \A w \in Workers : result[w] = "ok" =>
    \A i \in 1..Len(Outcome[cmd[w]]) : Has(Now[Agg(w)], Outcome[cmd[w]][i])

\* Without lagging replicas, Load sees everything appended before it began, so
\* a command sees the effects of every command that returned before it.
LoadIsFresh ==
  \A w \in Workers : pc[w] = "mutate" => Between(Agg(w), ver[w], since[w]) = {}

\* A conflict has a reason: another message reached the aggregate after this
\* attempt loaded it.  A lone writer is never refused.
ConflictHasCause ==
  \A w \in Workers : pc[w] = "conflicted" => Between(Agg(w), ver[w], Len(stream)) # {}

\* Domain events of a not yet covered by a snapshot.
Unsnapshotted(a) ==
  {n \in 1..Len(stream) : /\ stream[n].agg = a /\ ~stream[n].snap
                          /\ \A m \in Between(a, n, Len(stream)) : ~stream[m].snap}

\* A committed Save leaves fewer than SnapshotEvery events to replay, although
\* it counts them with two separate reads that other writers interleave with.
SnapshotCadence ==
  [][\A w \in Workers : pc[w] = "await" /\ pc'[w] = "acked" =>
       Cardinality(Unsnapshotted(Agg(w))') < SnapshotEvery]_vars

\* Execute is atomic: see AggregateLog.
Log == INSTANCE AggregateLog WITH
  log    <- Now,
  phase  <- [w \in Workers |-> CASE pc[w] = "idle"  -> "idle"
                                 [] pc[w] = "acked" -> "applied"
                                 [] OTHER           -> "running"],
  call   <- cmd,
  result <- [w \in Workers |-> IF result[w] = "snapshot_error" THEN "error" ELSE result[w]],
  doubt  <- [c \in Commands |-> Cardinality({r \in late : r.cmd = c})]
ImplementsAggregateLog == Log!Spec

\* Every call of Execute returns, however often it conflicts, unless one of its
\* waits that nothing bounds never ends: a worker is idle again and again.
ExecuteReturns ==
  \A w \in Workers : []<>(pc[w] = "idle") \/ <>[]Unanswered(w)

\* README.md, "Event Store Snapshots": a snapshot that cannot be written does
\* not fail the Save, "because the domain events were already committed".
SnapshotFailureKeepsEvents ==
  \A w \in Workers : result[w] = "snapshot_error" =>
    Has(Now[Agg(w)], Outcome[cmd[w]][1])
=============================================================================
