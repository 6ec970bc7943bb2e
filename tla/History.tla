------------------------------- MODULE History -------------------------------
(***************************************************************************)
(* Reading the history of one aggregate (event.Reader: Stream, Collect and *)
(* FindFirst; nats/read.go) while it is being written: typed and generic   *)
(* readers, snapshots, ReadOptions, and the named consumer that a reader   *)
(* leaves behind when it dies, or that a Save deletes under it.  Several   *)
(* versions of the aggregate type (views) share the stream, each with the  *)
(* event types it declares.  Save and Load are atomic here; EventStore     *)
(* takes them apart.                                                       *)
(***************************************************************************)
EXTENDS Naturals, Sequences, FiniteSets, FiniteSetsExt

CONSTANTS
  Types,         \* event types of the aggregate
  Views,         \* versions of the aggregate type
  Known,         \* Known[v]: the types that EventTypes of v declares
  Writers,       \* views that save events, and with them snapshots
  SnapshotEvery, \* EventStoreConfig.SnapshotEvery, at least 1 here
  MaxStream,     \* bound: no Save starts once the stream is this long
  MaxCrashes     \* bound: readers that die

ASSUME HistoryAssumption ==
  /\ Known \in [Views -> SUBSET Types] /\ Writers \subseteq Views
  /\ SnapshotEvery \in Nat \ {0} /\ MaxStream \in Nat /\ MaxCrashes \in Nat

Options == [skip : BOOLEAN, include : BOOLEAN]

VARIABLES
  stream,   \* the aggregate's messages
  explicit, \* whether the aggregate is Snapshottable
  named,    \* whether EventStoreConfig.ConsumerName is set
  durable,  \* the named consumer at the server: its start and next positions
  pc,       \* where the reader is; "refused" is the error of a snapshot
  view,     \* what it was given: a view, or "generic" for a plain AggregateRef
  opts,     \* its ReadOptions
  start,    \* the first position of its replay, 0 for "all"
  at,       \* the position it has read up to
  out,      \* the positions of the messages it has yielded
  began,    \* messages in the stream when the call began
  cut,      \* who cut the call short: "no" one, its "caller" or an "error"
  crashes

readVars == <<view, opts, start, out, began, cut>>
vars == <<stream, explicit, named, durable, pc, at, readVars, crashes>>

NoDurable == [start |-> 0, next |-> 0]
Event(t) == [kind |-> "event", type |-> t, state |-> <<>>]
Snapshot(s) == [kind |-> "snapshot", type |-> "", state |-> s]

Init ==
  /\ stream = <<>> /\ crashes = 0 /\ durable = NoDurable
  /\ explicit \in BOOLEAN /\ named \in BOOLEAN
  /\ pc = "idle" /\ view = "generic" /\ opts = [skip |-> FALSE, include |-> FALSE]
  /\ start = 0 /\ at = 0 /\ out = <<>> /\ began = 0 /\ cut = "no"

-----------------------------------------------------------------------------
(* Load and Save *)

\* Where the latest of the first n messages that is a snapshot is, or 0.
LastSnapshot(n) == Max({0} \cup {i \in 1..n : stream[i].kind = "snapshot"})

\* The sequences f[i], ..., f[j], one after the other.
Joined(f, i, j) ==
  LET upTo[n \in (i - 1)..j] == IF n < i THEN <<>> ELSE upTo[n - 1] \o f[n]
  IN upTo[j]

\* The value of an aggregate: the types of the events applied to it.
\* applyMessage skips the events that the view does not declare.
IsKnown(m, v) == m.kind = "event" /\ m.type \in Known[v]
Apply(m, v) == IF IsKnown(m, v) THEN <<m.type>> ELSE <<>>
Replay(v, i, j) == Joined([n \in i..j |-> Apply(stream[n], v)], i, j)

Base(n) == IF n = 0 THEN <<>> ELSE stream[n].state

\* What Load leaves in an aggregate of view v when n messages are stored.
Load(v, n) == Base(LastSnapshot(n)) \o Replay(v, LastSnapshot(n) + 1, n)

\* Mutant: the snapshot is taken before the new event is applied to it.
StateToSave_Stale(v, t) == Load(v, Len(stream))

\* snapshotForSave applies the events that are about to be saved.
StateToSave(v, t) == Append(Load(v, Len(stream)), t)

\* Save with a snapshot when one is due, in one batch.  Counting the messages
\* since the last snapshot opens and deletes the named consumer.
Save(v, t) ==
  LET last == LastSnapshot(Len(stream))
      due == Len(stream) - last + 1 >= SnapshotEvery
  IN /\ Len(stream) < MaxStream
     /\ t \in Known[v]
     /\ stream' = stream \o <<Event(t)>> \o
          IF due THEN <<Snapshot(StateToSave(v, t))>> ELSE <<>>
     /\ durable' = NoDurable
     /\ UNCHANGED <<explicit, named, pc, at, readVars, crashes>>

-----------------------------------------------------------------------------
(* Stream *)

\* storedEventFromMessage: which messages reader r yields.
Yields(r, m) ==
  \/ r = "generic"
  \/ m.kind = "snapshot" /\ opts.include /\ explicit
  \/ m.kind = "event" /\ m.type \in Known[r]

Resting == pc \in {"idle", "done", "failed", "refused"}

\* Mutant: when the snapshot itself is not wanted, any message is taken for it.
FastPath_AnyMessage(r, o) ==
  IF r = "generic" \/ o.skip THEN 0
  ELSE IF o.include THEN LastSnapshot(Len(stream)) ELSE Len(stream)

\* The snapshot after which reader r may start, or 0.
FastPath(r, o) == IF r = "generic" \/ o.skip THEN 0 ELSE LastSnapshot(Len(stream))

\* startSeqAfterSnapshot: a typed reader starts after the latest snapshot, and
\* yields that snapshot first if it is asked for.  An implicit one fails it.
Begin(r, o) ==
  LET last == FastPath(r, o)
      raw == last > 0 /\ o.include
  IN /\ Resting
     /\ view' = r /\ opts' = o
     /\ start' = IF r = "generic" THEN 1 ELSE IF last = 0 THEN 0 ELSE last + 1
     /\ out' = IF raw /\ explicit THEN <<last>> ELSE <<>>
     /\ at' = last
     /\ began' = Len(stream)
     /\ \E enough \in {FALSE, raw /\ explicit} :
          /\ cut' = IF enough THEN "caller" ELSE "no"
          /\ pc' = IF raw /\ ~explicit THEN "refused" ELSE IF enough THEN "done" ELSE "opening"
     /\ UNCHANGED <<stream, explicit, named, durable, crashes>>

\* Mutant: a consumer of an earlier call is used again if it fits.
Existing_Reused == durable

\* openNamedAggregateConsumer deletes a consumer that an earlier call left.
Existing == NoDurable

\* NumPending = 0 when the consumer has delivered the first n messages.
LastOne(n) == n = Len(stream)

\* Mutant: the reader starts at its position, not after it.
Resume_Shifted(n) == n

\* The position before a consumer's next message.
Resume(n) == n - 1

\* openAggregateConsumer.  A durable cannot change its start (external).
\* forEachAggregateMessage returns at once if nothing is pending by then.
Open ==
  LET mine == IF named /\ Existing # NoDurable THEN Existing
              ELSE [start |-> start, next |-> IF start = 0 THEN 1 ELSE start]
  IN /\ pc = "opening" /\ mine.start = start
     /\ at' = Resume(mine.next)
     /\ durable' = IF named THEN mine ELSE durable
     /\ pc' = IF LastOne(at') THEN "closing" ELSE "reading"
     /\ UNCHANGED <<stream, explicit, named, readVars, crashes>>

\* Nothing could be opened.
OpenFails ==
  /\ pc = "opening"
  /\ pc' = "failed" /\ cut' = "error"
  /\ UNCHANGED <<stream, explicit, named, durable, view, opts, start, at, out, began, crashes>>

\* forEachAggregateMessage: one message.  The caller may have seen enough.
Read ==
  /\ pc = "reading" /\ at < Len(stream)
  /\ named => durable # NoDurable
  /\ at' = at + 1
  /\ durable' = IF named THEN [durable EXCEPT !.next = at' + 1] ELSE durable
  /\ \E enough \in {FALSE, Yields(view, stream[at'])} :
       /\ out' = IF Yields(view, stream[at']) THEN Append(out, at') ELSE out
       /\ cut' = IF enough THEN "caller" ELSE "no"
       /\ pc' = IF enough \/ LastOne(at') THEN "closing" ELSE "reading"
  /\ UNCHANGED <<stream, explicit, named, view, opts, start, began, crashes>>

\* The context ends, the connection is lost, or the consumer is deleted: the
\* error is yielded to the caller.
Interrupted ==
  /\ pc = "reading"
  /\ pc' = "closing" /\ cut' = "error"
  /\ UNCHANGED <<stream, explicit, named, durable, view, opts, start, at, out, began, crashes>>

\* The deferred cleanup; a delete that fails is logged.
Close ==
  /\ pc = "closing"
  /\ durable' \in IF named THEN {durable, NoDurable} ELSE {durable}
  /\ pc' = IF cut = "error" THEN "failed" ELSE "done"
  /\ UNCHANGED <<stream, explicit, named, at, readVars, crashes>>

Crash ==
  /\ pc \in {"opening", "reading", "closing"} /\ crashes < MaxCrashes
  /\ crashes' = crashes + 1
  /\ pc' = "idle"
  /\ UNCHANGED <<stream, explicit, named, durable, at, readVars>>

\* InactiveThreshold: the server removes a consumer that nobody reads from.
Inactive ==
  /\ Resting /\ durable # NoDurable
  /\ durable' = NoDurable
  /\ UNCHANGED <<stream, explicit, named, pc, at, readVars, crashes>>

Next ==
  \/ \E v \in Writers, t \in Types : Save(v, t)
  \/ \E r \in Views \cup {"generic"}, o \in Options : Begin(r, o)
  \/ Open \/ OpenFails \/ Read \/ Interrupted \/ Close \/ Crash \/ Inactive

Spec == Init /\ [][Next]_vars

-----------------------------------------------------------------------------
TypeOK ==
  /\ \A i \in DOMAIN stream :
       \/ stream[i].kind = "event" /\ stream[i].type \in Types
       \/ stream[i].kind = "snapshot" /\ stream[i].state \in Seq(Types)
  /\ explicit \in BOOLEAN /\ named \in BOOLEAN
  /\ durable \in [start : 0..(Len(stream) + 1), next : 0..(Len(stream) + 1)]
  /\ durable # NoDurable => named /\ durable.next >= durable.start
  /\ pc \in {"idle", "opening", "reading", "closing", "done", "failed", "refused"}
  /\ view \in Views \cup {"generic"} /\ opts \in Options
  /\ start \in 0..(Len(stream) + 1) /\ at \in 0..Len(stream)
  /\ out \in Seq(1..at)
  /\ began \in 0..Len(stream) /\ cut \in {"no", "caller", "error"}
  /\ crashes \in 0..MaxCrashes

\* Stream yields, oldest first, every message of its window that the reader may
\* see, once each, up to where it stopped; and unless its caller stops it, a
\* call without an error goes up to what was stored when it began.  Neither
\* writers nor the remains of earlier readers change that.
StreamIsHistory ==
  pc = "done" =>
    /\ cut = "no" => at >= began
    /\ LET first == IF opts.include /\ start > 1 THEN start - 1 ELSE start
       IN /\ \A i \in 1..at : i >= first /\ Yields(view, stream[i])
                                <=> \E j \in DOMAIN out : out[j] = i
          /\ \A j, k \in DOMAIN out : j < k => out[j] < out[k]

Declared(v, s) ==
  Joined([n \in DOMAIN s |-> IF s[n] \in Known[v] THEN <<s[n]>> ELSE <<>>], 1, Len(s))

\* README.md, "Reading Aggregate History": by default streaming starts after
\* the latest snapshot, "matching the replay window Load uses".  On top of that
\* snapshot the streamed events give the aggregate that Load builds.
StreamMatchesLoad ==
  pc = "done" /\ cut = "no" /\ view # "generic" /\ ~opts.skip /\ ~opts.include =>
    LET base == IF start = 0 THEN 0 ELSE start - 1
        read == [j \in DOMAIN out |-> stream[out[j]].type]
    IN Declared(view, Base(base) \o read) = Declared(view, Load(view, at))

\* README.md: an ESAggregate "rebuilds state by applying the event types it
\* explicitly declares".  What Load rebuilds for a view is what all the events
\* of the types it declares make of it, whoever wrote the snapshots.
LoadsDeclared ==
  \A v \in Views :
    Declared(v, Load(v, Len(stream))) = Replay(v, 1, Len(stream))
=============================================================================
