-------------------------- MODULE EventStoreProofs --------------------------
(***************************************************************************)
(* Proofs about EventStore for every set of workers, commands and          *)
(* aggregates, every SnapshotEvery, MaxAttempts and stream length, with or *)
(* without lagging replicas.  First the inductive invariant and what the   *)
(* store promises; then what a caller of Execute may rely on: Execute over *)
(* the event store implements AggregateLog, the events of an idempotent    *)
(* command are appended once, nil means durable, and, where reads are      *)
(* fresh, so is Load and snapshots keep their cadence.                     *)
(***************************************************************************)
EXTENDS EventStore, SequenceTheorems, FiniteSetTheorems, WellFoundedInduction, TLAPS

-----------------------------------------------------------------------------
(* The inductive invariant *)

\* Messages of other aggregates do not change an aggregate.  With it no proof
\* needs an induction over the stream.
Frame ==
  \A a \in Aggregates : \A p \in 0..Len(stream), q \in 0..Len(stream) :
    p <= q /\ Between(a, p, q) = {} => At(p)[a] = At(q)[a]

\* v is a version of aggregate a: 0 or the sequence of one of its messages.
IsVersion(a, v) == v \in 0..Len(stream) /\ (v # 0 => stream[v].agg = a)

\* A request carries the events mutate decides on for the version it expects,
\* and its snapshot is that version with those events applied.
RequestInv(r) ==
  /\ IsVersion(AggOf[r.cmd], r.exp)
  /\ r.evs = Decide(r.cmd, At(r.exp)[AggOf[r.cmd]])
  /\ r.evs # <<>>
  /\ r.snap => r.st = At(r.exp)[AggOf[r.cmd]] \o r.evs

Before == {"idle", "load", "backoff"}
Loading == {"open", "replay", "mutate"}
Counting == {"snapshot", "count"}
Requesting == {"publish", "await"}

WorkerInv(w) ==
  /\ pc[w] \in Before => st[w] = <<>> /\ ver[w] = 0
  /\ pc[w] \in Before \cup Loading \cup Counting => ~snap[w]
  /\ pc[w] \in Loading \cup Counting =>
       IsVersion(Agg(w), ver[w]) /\ st[w] = At(ver[w])[Agg(w)]
  /\ pc[w] = "replay" => mark[w] <= Len(stream)
  /\ pc[w] \in Counting =>
       evs[w] = Decide(cmd[w], At(ver[w])[Agg(w)]) /\ evs[w] # <<>>
  /\ pc[w] \in Requesting => RequestInv(RequestOf(w))
  /\ pc[w] = "conflicted" => Between(Agg(w), ver[w], Len(stream)) # {}

Inv ==
  /\ TypeOK
  /\ Frame
  /\ SnapshotCorrect
  /\ \A w \in Workers : WorkerInv(w)
  /\ \A r \in late : RequestInv(r)

\* The stream and its history grow by messages of aggregate a only.
Extended(a) ==
  /\ stream' \in Seq(Message) /\ truth' \in Seq([Aggregates -> State])
  /\ Len(truth') = Len(stream') /\ Len(stream) <= Len(stream')
  /\ \A n \in 1..Len(stream) : stream'[n] = stream[n] /\ truth'[n] = truth[n]
  /\ \A n \in (Len(stream) + 1)..Len(stream') :
       /\ stream'[n].agg = a
       /\ \A b \in Aggregates : b # a => truth'[n][b] = Now[b]

-----------------------------------------------------------------------------
(* Lemmas *)

\* What mutate produces is a sequence of events.
LEMMA DecideType ==
  ASSUME NEW c \in Commands, NEW s
  PROVE  Decide(c, s) \in State
BY DomainAssumption DEF Decide, State

\* A function on 1..n is a sequence.
LEMMA FunctionIsSeq ==
  ASSUME NEW S, NEW n \in Nat, NEW f \in [1..n -> S]
  PROVE  f \in Seq(S) /\ Len(f) = n
BY SMT

\* Appending a prefix of t one element at a time.
LEMMA PrefixStep ==
  ASSUME NEW S, NEW s \in Seq(S), NEW t \in Seq(S), NEW i \in 1..Len(t)
  PROVE  s \o SubSeq(t, 1, i) = (s \o SubSeq(t, 1, i - 1)) \o <<t[i]>>
<1>1. SubSeq(t, 1, i) \in Seq(S) /\ Len(SubSeq(t, 1, i)) = i
      /\ \A k \in 1..i : SubSeq(t, 1, i)[k] = t[k]
  BY SMT
<1>2. SubSeq(t, 1, i - 1) \in Seq(S) /\ Len(SubSeq(t, 1, i - 1)) = i - 1
      /\ \A k \in 1..(i - 1) : SubSeq(t, 1, i - 1)[k] = t[k]
  BY SMT
<1>3. <<t[i]>> \in Seq(S) /\ Len(<<t[i]>>) = 1
  BY SMT
<1> DEFINE l == s \o SubSeq(t, 1, i)
           r == (s \o SubSeq(t, 1, i - 1)) \o <<t[i]>>
<1>4. l \in Seq(S) /\ Len(l) = Len(s) + i
  BY <1>1, SMT
<1>5. r \in Seq(S) /\ Len(r) = Len(s) + i
  BY <1>2, <1>3, SMT
<1>6. \A k \in 1..Len(l) : l[k] = r[k]
  BY <1>1, <1>2, <1>3, SMT
<1>7. l = r
  BY <1>4, <1>5, <1>6, SeqEqual
<1> QED BY <1>7

\* The messages and the history of a Save are as long as each other and typed.
LEMMA BatchType ==
  ASSUME TypeOK, NEW r \in Request, Len(r.evs) > 0
  PROVE  /\ Size(r) \in Nat /\ Size(r) > 0
         /\ Batch(r) \in Seq(Message) /\ Len(Batch(r)) = Size(r)
         /\ Now \in [Aggregates -> State]
<1>1. r.cmd \in Commands /\ r.evs \in State /\ r.st \in State
  BY DEF Request
<1>2. r.snap \in BOOLEAN
  BY DEF Request
<1>3. AggOf[r.cmd] \in Aggregates
  BY <1>1, DomainAssumption
<1>4. Len(r.evs) \in Nat
  BY <1>1 DEF State
<1>5. Size(r) \in Nat /\ Size(r) > 0
  <2>1. CASE r.snap
    <3>1. Size(r) = Len(r.evs) + 1
      BY <2>1, Zenon DEF Size
    <3> QED BY <3>1, <1>4
  <2>2. CASE ~r.snap
    <3>1. Size(r) = Len(r.evs) + 0
      BY <2>2, Zenon DEF Size
    <3> QED BY <3>1, <1>4
  <2> QED BY <2>1, <2>2
<1>6. ASSUME NEW i \in 1..Len(r.evs)
      PROVE  [agg |-> AggOf[r.cmd], snap |-> FALSE, body |-> <<r.evs[i]>>] \in Message
  <2>1. r.evs[i] \in Events
    BY <1>1 DEF State
  <2>2. <<r.evs[i]>> \in State
    BY <2>1 DEF State
  <2> QED BY <1>3, <2>2 DEF Message
<1>7. [agg |-> AggOf[r.cmd], snap |-> TRUE, body |-> r.st] \in Message
  BY <1>1, <1>3 DEF Message
<1>8. Batch(r) \in [1..Size(r) -> Message]
  <2> DEFINE m(i) == [agg  |-> AggOf[r.cmd],
                      snap |-> i > Len(r.evs),
                      body |-> IF i > Len(r.evs) THEN r.st ELSE <<r.evs[i]>>]
  <2>1. ASSUME NEW i \in 1..Size(r)
        PROVE  m(i) \in Message
    <3>1. CASE i > Len(r.evs)
      <4>1. (i > Len(r.evs)) = TRUE
        BY <3>1
      <4>2. m(i) = [agg |-> AggOf[r.cmd], snap |-> TRUE, body |-> r.st]
        BY <4>1, Zenon
      <4> QED BY <4>2, <1>7, Zenon
    <3>2. CASE ~(i > Len(r.evs))
      <4>1. (i > Len(r.evs)) = FALSE
        BY <3>2
      <4>2. m(i) = [agg |-> AggOf[r.cmd], snap |-> FALSE, body |-> <<r.evs[i]>>]
        BY <4>1, Zenon
      <4>3. i \in 1..Len(r.evs)
        BY <3>2, <1>4, <1>5
      <4> QED BY <4>2, <4>3, <1>6, Zenon
    <3> QED BY <3>1, <3>2
  <2>2. Batch(r) = [i \in 1..Size(r) |-> m(i)]
    BY Zenon DEF Batch
  <2> HIDE DEF m
  <2> QED BY <2>1, <2>2, Zenon
<1>9. Batch(r) \in Seq(Message) /\ Len(Batch(r)) = Size(r)
  BY <1>5, <1>8, FunctionIsSeq
<1>10. Now \in [Aggregates -> State]
  <2>1. CASE Len(stream) = 0
    BY <2>1 DEF Now, At, State
  <2>2. CASE Len(stream) # 0
    <3>1. Len(stream) \in 1..Len(truth)
      BY <2>2 DEF TypeOK
    <3>2. truth[Len(stream)] \in [Aggregates -> State]
      BY <3>1 DEF TypeOK
    <3> QED BY <2>2, <3>2 DEF Now, At
  <2> QED BY <2>1, <2>2
<1> QED BY <1>5, <1>9, <1>10

\* Growing the stream changes no earlier version and no earlier gap.
LEMMA ExtendedStable ==
  ASSUME TypeOK, NEW a \in Aggregates, Extended(a)
  PROVE  /\ \A n \in 0..Len(stream) : At(n)' = At(n)
         /\ \A b \in Aggregates, v \in 0..Len(stream) : IsVersion(b, v) => IsVersion(b, v)'
         /\ \A b \in Aggregates, p \in 0..Len(stream), q \in 0..Len(stream) :
              Between(b, p, q)' = Between(b, p, q)
<1>1. \A n \in 0..Len(stream) : At(n)' = At(n)
  BY DEF TypeOK, Extended, At
<1>2. \A b \in Aggregates, v \in 0..Len(stream) : IsVersion(b, v) => IsVersion(b, v)'
  BY DEF TypeOK, Extended, IsVersion
<1>3. \A b \in Aggregates, p \in 0..Len(stream), q \in 0..Len(stream) :
        Between(b, p, q)' = Between(b, p, q)
  BY DEF TypeOK, Extended, Between
<1> QED BY <1>1, <1>2, <1>3

LEMMA ExtendedFrame ==
  ASSUME TypeOK, Frame, NEW a \in Aggregates, Extended(a)
  PROVE  Frame'
<1> SUFFICES ASSUME NEW b \in Aggregates,
                    NEW p \in 0..Len(stream'), NEW q \in 0..Len(stream'),
                    p <= q, Between(b, p, q)' = {}
             PROVE  At(p)'[b] = At(q)'[b]
  BY DEF Frame
<1> Len(stream) \in Nat /\ Len(stream') \in Nat /\ Len(stream) <= Len(stream')
  BY DEF TypeOK, Extended
<1>1. CASE p = q
  BY <1>1
<1>2. CASE q <= Len(stream)
  <2>1. p \in 0..Len(stream) /\ q \in 0..Len(stream)
    BY <1>2
  <2>2. Between(b, p, q) = {} /\ At(p)' = At(p) /\ At(q)' = At(q)
    BY <2>1, ExtendedStable
  <2> QED BY <2>1, <2>2 DEF Frame
<1>3. CASE p # q /\ q > Len(stream)
  <2>1. q \in (p + 1)..q /\ q \in (Len(stream) + 1)..Len(stream')
    BY <1>3
  <2>2. b # a
    BY <2>1 DEF Extended, Between
  <2>3. At(q)'[b] = Now[b]
    BY <2>1, <2>2 DEF Extended, At
  <2>4. CASE p > Len(stream)
    <3>1. p \in (Len(stream) + 1)..Len(stream')
      BY <2>4
    <3>2. At(p)'[b] = Now[b]
      BY <3>1, <2>2 DEF Extended, At
    <3> QED BY <2>3, <3>2
  <2>5. CASE p <= Len(stream)
    <3>1. p \in 0..Len(stream) /\ Len(stream) \in 0..Len(stream)
      BY <2>5
    <3>2. Between(b, p, Len(stream)) = {}
      BY <3>1, <1>3 DEF Extended, Between
    <3>3. At(p)' = At(p) /\ At(p)[b] = Now[b]
      BY <3>1, <3>2, ExtendedStable DEF Frame, Now
    <3> QED BY <2>3, <3>3
  <2> QED BY <2>4, <2>5
<1> QED BY <1>1, <1>2, <1>3

\* A request still means what it meant when it was made.
LEMMA ExtendedRequest ==
  ASSUME TypeOK, NEW a \in Aggregates, Extended(a),
         NEW r \in Request, RequestInv(r)
  PROVE  RequestInv(r)'
<1>1. AggOf[r.cmd] \in Aggregates /\ r.exp \in 0..Len(stream)
  BY DomainAssumption DEF Request, RequestInv, IsVersion
<1>2. At(r.exp)' = At(r.exp) /\ IsVersion(AggOf[r.cmd], r.exp)'
  BY <1>1, ExtendedStable DEF RequestInv
<1> QED BY <1>2 DEF RequestInv

\* The aggregate after message i of the batch of r.
HistoryOf(r, i) == IF i > Len(r.evs) THEN r.evs ELSE SubSeq(r.evs, 1, i)

LEMMA AppendBatchShape ==
  ASSUME TypeOK, NEW r \in Request, Len(r.evs) > 0, AppendBatch(r)
  PROVE  /\ Extended(AggOf[r.cmd])
         /\ Len(stream') = Len(stream) + Size(r)
         /\ \A i \in 1..Size(r) :
              /\ stream'[Len(stream) + i] = Batch(r)[i]
              /\ truth'[Len(stream) + i] =
                   [Now EXCEPT ![AggOf[r.cmd]] = @ \o HistoryOf(r, i)]
<1> DEFINE a == AggOf[r.cmd]
           H == [i \in 1..Size(r) |-> [Now EXCEPT ![a] = @ \o HistoryOf(r, i)]]
<1>1. /\ Size(r) \in Nat /\ Size(r) > 0
      /\ Batch(r) \in Seq(Message) /\ Len(Batch(r)) = Size(r)
      /\ Now \in [Aggregates -> State]
  BY BatchType
<1>2. a \in Aggregates
  BY DomainAssumption DEF Request
<1>3. \A i \in 1..Size(r) : HistoryOf(r, i) \in State
  BY DEF HistoryOf, Request, State, Size
<1>4. \A i \in 1..Size(r) : Now[a] \o HistoryOf(r, i) \in State
  BY <1>1, <1>2, <1>3 DEF State
<1>5. \A i \in 1..Size(r) : [Now EXCEPT ![a] = @ \o HistoryOf(r, i)] \in [Aggregates -> State]
  BY <1>1, <1>2, <1>4
<1>6. H \in Seq([Aggregates -> State]) /\ Len(H) = Size(r)
  <2>1. H \in [1..Size(r) -> [Aggregates -> State]]
    BY <1>5
  <2> HIDE DEF H
  <2> QED BY <2>1, <1>1, FunctionIsSeq
<1>7. stream' = stream \o Batch(r) /\ truth' = truth \o H
  BY DEF AppendBatch, HistoryOf
<1>8. /\ stream \in Seq(Message) /\ truth \in Seq([Aggregates -> State])
      /\ Len(truth) = Len(stream)
  BY DEF TypeOK
<1> HIDE DEF H
<1>9. /\ stream' \in Seq(Message) /\ Len(stream') = Len(stream) + Size(r)
      /\ \A n \in 1..Len(stream) : stream'[n] = stream[n]
      /\ \A i \in 1..Size(r) : stream'[Len(stream) + i] = Batch(r)[i]
  <2>1. stream \in Seq(Message) /\ Batch(r) \in Seq(Message) /\ stream' = stream \o Batch(r)
    BY <1>1, <1>7, <1>8
  <2>2. stream' \in Seq(Message) /\ Len(stream') = Len(stream) + Len(Batch(r))
    BY <2>1
  <2>3. \A n \in 1..Len(stream) : stream'[n] = stream[n]
    BY <2>1
  <2>4. \A i \in 1..Len(Batch(r)) : stream'[Len(stream) + i] = Batch(r)[i]
    BY <2>1
  <2> QED BY <2>2, <2>3, <2>4, <1>1, Zenon
<1>10. /\ truth' \in Seq([Aggregates -> State]) /\ Len(truth') = Len(stream) + Size(r)
       /\ \A n \in 1..Len(stream) : truth'[n] = truth[n]
       /\ \A i \in 1..Size(r) : truth'[Len(stream) + i] = H[i]
  <2> DEFINE T == [Aggregates -> State]
  <2>1. truth \in Seq(T) /\ H \in Seq(T) /\ truth' = truth \o H
    BY <1>6, <1>7, <1>8
  <2> HIDE DEF T
  <2>2. truth' \in Seq(T) /\ Len(truth') = Len(truth) + Len(H)
    BY <2>1
  <2>3. \A n \in 1..Len(truth) : truth'[n] = truth[n]
    BY <2>1
  <2>4. \A i \in 1..Len(H) : truth'[Len(truth) + i] = H[i]
    BY <2>1
  <2> USE DEF T
  <2> QED BY <2>2, <2>3, <2>4, <1>6, <1>8, Zenon
<1>11. \A i \in 1..Size(r) : H[i] = [Now EXCEPT ![a] = @ \o HistoryOf(r, i)]
  BY DEF H
<1>12. \A i \in 1..Size(r) : Batch(r)[i].agg = a
  BY <1>1 DEF Batch
<1>13. \A i \in 1..Size(r) : \A b \in Aggregates : b # a => H[i][b] = Now[b]
  BY <1>1, <1>11
<1>14. \A n \in (Len(stream) + 1)..Len(stream') :
         n - Len(stream) \in 1..Size(r) /\ n = Len(stream) + (n - Len(stream))
  BY <1>1, <1>8, <1>9
<1>15. Extended(a)
  <2>1. \A n \in (Len(stream) + 1)..Len(stream') :
          /\ stream'[n].agg = a
          /\ \A b \in Aggregates : b # a => truth'[n][b] = Now[b]
    <3> TAKE n \in (Len(stream) + 1)..Len(stream')
    <3> DEFINE i == n - Len(stream)
    <3>1. i \in 1..Size(r) /\ n = Len(stream) + i
      BY <1>14
    <3> HIDE DEF i
    <3>2. stream'[n] = Batch(r)[i] /\ truth'[n] = H[i]
      BY <3>1, <1>9, <1>10
    <3> QED BY <3>1, <3>2, <1>12, <1>13
  <2> QED BY <2>1, <1>1, <1>8, <1>9, <1>10 DEF Extended
<1> QED BY <1>9, <1>10, <1>11, <1>15

\* The version check: the aggregate has not changed since the version expected.
LEMMA LastSequenceIsNow ==
  ASSUME TypeOK, Frame, NEW a \in Aggregates, NEW v, IsLastSequence(a, v)
  PROVE  At(v)[a] = Now[a]
<1>1. v \in 0..Len(stream) /\ Len(stream) \in 0..Len(stream) /\ v <= Len(stream)
  BY DEF TypeOK, IsLastSequence
<1> QED BY <1>1 DEF Frame, IsLastSequence, Now

\* A batch that passes the version check leaves every snapshot correct.
LEMMA AppendBatchSnapshot ==
  ASSUME TypeOK, Frame, SnapshotCorrect, NEW r \in Request, RequestInv(r),
         Len(r.evs) > 0, IsLastSequence(AggOf[r.cmd], r.exp), AppendBatch(r)
  PROVE  SnapshotCorrect'
<1> DEFINE a == AggOf[r.cmd]
<1>0. PICK L \in Nat : L = Len(stream)
  BY DEF TypeOK
<1>1. a \in Aggregates /\ r.evs \in State /\ r.st \in State
  BY DomainAssumption DEF Request
<1>2. /\ Extended(a)
      /\ Len(stream') = L + Size(r)
      /\ \A i \in 1..Size(r) :
           /\ stream'[L + i] = Batch(r)[i]
           /\ truth'[L + i] = [Now EXCEPT ![a] = @ \o HistoryOf(r, i)]
  BY AppendBatchShape, <1>0
<1>3. Now \in [Aggregates -> State] /\ Size(r) \in Nat /\ L \in Nat /\ Len(r.evs) \in Nat
  <2>1. Now \in [Aggregates -> State] /\ Size(r) \in Nat
    BY BatchType
  <2>2. Len(r.evs) \in Nat
    BY <1>1 DEF State
  <2> QED BY <2>1, <2>2
<1>a. Now[a] \in Seq(Events) /\ r.evs \in Seq(Events)
  BY <1>1, <1>3 DEF State
<1>n. L \in Nat /\ Size(r) \in Nat /\ Len(r.evs) \in Nat /\ Len(stream') = L + Size(r)
  BY <1>2, <1>3
<1>s. /\ r.snap => Size(r) = Len(r.evs) + 1
      /\ ~r.snap => Size(r) = Len(r.evs)
  <2>1. CASE r.snap
    <3>1. Size(r) = Len(r.evs) + 1
      BY <2>1, Zenon DEF Size
    <3> QED BY <3>1, <2>1, Zenon
  <2>2. CASE ~r.snap
    <3>1. Size(r) = Len(r.evs) + 0
      BY <2>2, Zenon DEF Size
    <3>2. Size(r) = Len(r.evs)
      BY <3>1, <1>3
    <3> QED BY <3>2, <2>2, Zenon
  <2> QED BY <2>1, <2>2, Zenon
<1>4. \A n \in 0..L : At(n)' = At(n)
  BY <1>0, <1>1, <1>2, ExtendedStable
<1>5. \A i \in 1..Size(r) : At(L + i)' = [Now EXCEPT ![a] = @ \o HistoryOf(r, i)]
  <2> SUFFICES ASSUME NEW i \in 1..Size(r)
               PROVE  At(L + i)' = [Now EXCEPT ![a] = @ \o HistoryOf(r, i)]
    OBVIOUS
  <2>1. L + i # 0
    BY <1>n
  <2>2. At(L + i)' = truth'[L + i]
    BY <2>1 DEF At
  <2> QED BY <2>2, <1>2
<1>6. \A i \in 1..Size(r) :
        /\ stream'[L + i].agg = a
        /\ stream'[L + i].snap = (i > Len(r.evs))
        /\ stream'[L + i].body = IF i > Len(r.evs) THEN r.st ELSE <<r.evs[i]>>
  <2>1. \A i \in 1..Size(r) :
          /\ Batch(r)[i].agg = a
          /\ Batch(r)[i].snap = (i > Len(r.evs))
          /\ Batch(r)[i].body = IF i > Len(r.evs) THEN r.st ELSE <<r.evs[i]>>
    BY DEF Batch
  <2> TAKE i \in 1..Size(r)
  <2>2. stream'[L + i] = Batch(r)[i]
    BY <1>2
  <2>3. /\ Batch(r)[i].agg = a
        /\ Batch(r)[i].snap = (i > Len(r.evs))
        /\ Batch(r)[i].body = IF i > Len(r.evs) THEN r.st ELSE <<r.evs[i]>>
    BY <2>1, Zenon
  <2> HIDE DEF a
  <2> QED BY <2>2, <2>3, Zenon
<1> HIDE DEF a
<1>7. \A n \in 1..Len(stream') : n \in 1..L \/ \E i \in 1..Size(r) : n = L + i
  <2> TAKE n \in 1..Len(stream')
  <2>1. CASE n > L
    <3>1. n - L \in 1..Size(r) /\ n = L + (n - L)
      BY <2>1, <1>n
    <3> QED BY <3>1
  <2>2. CASE n <= L
    BY <2>2, <1>n
  <2> QED BY <2>1, <2>2, <1>n
<1>8. ASSUME NEW i \in 1..Size(r), NEW b \in Aggregates
      PROVE  At(L + i)'[b] = At(L + i - 1)'[b] \o EventAt(L + i, b)'
  <2>1. CASE b # a
    <3>1. EventAt(L + i, b)' = <<>>
      BY <2>1, <1>6 DEF EventAt
    <3>2. At(L + i)'[b] = Now[b]
      BY <2>1, <1>5, <1>3
    <3>3. At(L + i - 1)'[b] = Now[b]
      <4>1. CASE i = 1
        <5>1. L + i - 1 = L /\ L \in 0..L
          BY <4>1, <1>n
        <5> QED BY <5>1, <1>4, <1>0 DEF Now
      <4>2. CASE i # 1
        <5>1. i - 1 \in 1..Size(r) /\ L + i - 1 = L + (i - 1)
          BY <4>2, <1>n
        <5>2. At(L + (i - 1))' = [Now EXCEPT ![a] = @ \o HistoryOf(r, i - 1)]
          BY <5>1, <1>5
        <5>3. At(L + (i - 1))'[b] = Now[b]
          BY <5>2, <2>1, <1>3
        <5> QED BY <5>1, <5>3
      <4> QED BY <4>1, <4>2
    <3>4. Now[b] \in Seq(Events)
      BY <1>3 DEF State
    <3> QED BY <3>1, <3>2, <3>3, <3>4, ConcatEmptySeq
  <2>2. CASE b = a
    <3>1. At(L + i)'[a] = Now[a] \o HistoryOf(r, i)
      BY <1>5, <1>3, <1>1
    <3>2. At(L + i - 1)'[a] = IF i = 1 THEN Now[a] ELSE Now[a] \o HistoryOf(r, i - 1)
      <4>1. CASE i = 1
        <5>1. L + i - 1 = L /\ L \in 0..L
          BY <4>1, <1>n
        <5> QED BY <5>1, <4>1, <1>4, <1>0 DEF Now
      <4>2. CASE i # 1
        <5>1. i - 1 \in 1..Size(r) /\ L + i - 1 = L + (i - 1)
          BY <4>2, <1>n
        <5>2. At(L + (i - 1))' = [Now EXCEPT ![a] = @ \o HistoryOf(r, i - 1)]
          BY <5>1, <1>5
        <5>3. At(L + (i - 1))'[a] = Now[a] \o HistoryOf(r, i - 1)
          BY <5>2, <1>3, <1>1
        <5> QED BY <5>1, <5>3, <4>2
      <4> QED BY <4>1, <4>2
    <3>3. Now[a] \in Seq(Events) /\ r.evs \in Seq(Events)
      BY <1>a
    <3>4. CASE i <= Len(r.evs)
      <4>1. EventAt(L + i, a)' = <<r.evs[i]>>
        <5>1. ~(i > Len(r.evs))
          BY <3>4, <1>n
        <5> QED BY <5>1, <1>6, Zenon DEF EventAt
      <4>2. i \in 1..Len(r.evs)
        BY <3>4, <1>n
      <4>3. Now[a] \o SubSeq(r.evs, 1, i) = (Now[a] \o SubSeq(r.evs, 1, i - 1)) \o <<r.evs[i]>>
        BY <4>2, <3>3, PrefixStep
      <4>4. HistoryOf(r, i) = SubSeq(r.evs, 1, i)
        BY <4>2, <1>n DEF HistoryOf
      <4>5. CASE i = 1
        <5>1. SubSeq(r.evs, 1, i - 1) = <<>>
          BY <4>5, <3>3
        <5>2. Now[a] \o SubSeq(r.evs, 1, i - 1) = Now[a]
          BY <5>1, <3>3, ConcatEmptySeq
        <5> QED BY <5>2, <4>1, <4>3, <4>4, <4>5, <3>1, <3>2, <2>2, Zenon
      <4>6. CASE i # 1
        <5>1. HistoryOf(r, i - 1) = SubSeq(r.evs, 1, i - 1)
          BY <4>2, <1>n DEF HistoryOf
        <5> QED BY <5>1, <4>1, <4>3, <4>4, <4>6, <3>1, <3>2, <2>2, Zenon
      <4> QED BY <4>5, <4>6
    <3>5. CASE i > Len(r.evs)
      <4>1. EventAt(L + i, a)' = <<>>
        BY <3>5, <1>6 DEF EventAt
      <4>2. i = Len(r.evs) + 1 /\ i # 1 /\ i - 1 = Len(r.evs)
        BY <3>5, <1>n, <1>s
      <4>3. HistoryOf(r, i) = r.evs
        BY <3>5 DEF HistoryOf
      <4>4. HistoryOf(r, i - 1) = r.evs
        BY <4>2, <3>3, SubSeqFull DEF HistoryOf
      <4>5. Now[a] \o r.evs \in Seq(Events)
        BY <3>3
      <4>6. (Now[a] \o r.evs) \o <<>> = Now[a] \o r.evs
        BY <4>5, ConcatEmptySeq
      <4> QED BY <4>1, <4>2, <4>3, <4>4, <4>6, <3>1, <3>2, <2>2, Zenon
    <3>6. i <= Len(r.evs) \/ i > Len(r.evs)
      BY <1>n
    <3> QED BY <3>4, <3>5, <3>6, Zenon
  <2> QED BY <2>1, <2>2
<1>9. TruthIsReplay'
  <2> SUFFICES ASSUME NEW n \in 1..Len(stream'), NEW b \in Aggregates
               PROVE  At(n)'[b] = At(n - 1)'[b] \o EventAt(n, b)'
    BY DEF TruthIsReplay
  <2>1. CASE n \in 1..L
    <3>1. n \in 0..L /\ n - 1 \in 0..L
      BY <2>1, <1>n
    <3>2. EventAt(n, b)' = EventAt(n, b)
      BY <2>1, <1>0, <1>2 DEF EventAt, Extended
    <3>3. At(n)[b] = At(n - 1)[b] \o EventAt(n, b)
      BY <2>1, <1>0 DEF SnapshotCorrect, TruthIsReplay
    <3> QED BY <3>1, <3>2, <3>3, <1>4
  <2>2. ASSUME NEW i \in 1..Size(r), n = L + i
        PROVE  At(n)'[b] = At(n - 1)'[b] \o EventAt(n, b)'
    <3>1. n - 1 = L + i - 1
      BY <2>2
    <3> QED BY <3>1, <2>2, <1>8, Zenon
  <2> QED BY <2>1, <2>2, <1>7
<1>10. ASSUME NEW n \in 1..Len(stream'), stream'[n].snap
       PROVE  stream'[n].body = At(n)'[stream'[n].agg]
  <2>1. CASE n \in 1..L
    <3>1. n \in 0..L /\ stream'[n] = stream[n]
      BY <2>1, <1>0, <1>2, <1>n DEF Extended
    <3> QED BY <3>1, <2>1, <1>0, <1>4, <1>10 DEF SnapshotCorrect
  <2>2. ASSUME NEW i \in 1..Size(r), n = L + i
        PROVE  stream'[n].body = At(n)'[stream'[n].agg]
    <3>1. i > Len(r.evs) /\ stream'[n].agg = a /\ stream'[n].body = r.st
      BY <2>2, <1>6, <1>10
    <3>2. r.snap
      BY <3>1, <1>n, <1>s
    <3>3. r.st = Now[a] \o r.evs
      BY <3>2, <1>1, LastSequenceIsNow DEF RequestInv, a
    <3>4. At(L + i)'[a] = Now[a] \o r.evs
      BY <3>1, <1>5, <1>3, <1>1 DEF HistoryOf
    <3> QED BY <3>1, <3>3, <3>4, <2>2
  <2> QED BY <2>1, <2>2, <1>7
<1> QED BY <1>9, <1>10 DEF SnapshotCorrect

\* A publisher without version checks appends one event.
LEMMA PublishForeignShape ==
  ASSUME TypeOK, SnapshotCorrect, NEW a \in Aggregates, NEW e \in Foreign,
         PublishForeign(a, e)
  PROVE  Extended(a) /\ SnapshotCorrect'
<1>0. PICK L \in Nat : L = Len(stream)
  BY DEF TypeOK
<1> DEFINE m == [agg |-> a, snap |-> FALSE, body |-> <<e>>]
           h == [Now EXCEPT ![a] = Append(@, e)]
<1>1. e \in Events /\ Now \in [Aggregates -> State]
  BY StoreAssumption DEF TypeOK, Now, At, State
<1>2. Now[a] \in Seq(Events) /\ Append(Now[a], e) \in Seq(Events) /\ <<e>> \in Seq(Events)
  BY <1>1 DEF State
<1>3. m \in Message
  BY <1>2 DEF Message, State
<1>4. h \in [Aggregates -> State] /\ h[a] = Append(Now[a], e)
      /\ \A b \in Aggregates : b # a => h[b] = Now[b]
  BY <1>1, <1>2 DEF State
<1>5. stream' = Append(stream, m) /\ truth' = Append(truth, h)
  BY DEF PublishForeign
<1>6. m.agg = a /\ m.snap = FALSE /\ m.body = <<e>>
  OBVIOUS
<1> HIDE DEF m, h
<1>7. stream \in Seq(Message) /\ truth \in Seq([Aggregates -> State]) /\ Len(truth) = L
  BY <1>0 DEF TypeOK
<1>8. /\ stream' \in Seq(Message) /\ Len(stream') = L + 1 /\ stream'[L + 1] = m
      /\ \A n \in 1..L : stream'[n] = stream[n]
  BY <1>0, <1>3, <1>5, <1>7
<1>9. /\ truth' \in Seq([Aggregates -> State]) /\ Len(truth') = L + 1 /\ truth'[L + 1] = h
      /\ \A n \in 1..L : truth'[n] = truth[n]
  <2> DEFINE T == [Aggregates -> State]
  <2>1. truth \in Seq(T) /\ h \in T
    BY <1>4, <1>7
  <2> HIDE DEF T
  <2>2. /\ truth' \in Seq(T) /\ Len(truth') = L + 1 /\ truth'[L + 1] = h
        /\ \A n \in 1..L : truth'[n] = truth[n]
    BY <2>1, <1>5, <1>7
  <2> QED BY <2>2 DEF T
<1>10. Extended(a)
  <2>1. \A n \in (L + 1)..(L + 1) : n = L + 1
    OBVIOUS
  <2>2. \A n \in (L + 1)..(L + 1) :
          stream'[n].agg = a /\ \A b \in Aggregates : b # a => truth'[n][b] = Now[b]
    BY <2>1, <1>4, <1>6, <1>8, <1>9
  <2>3. L <= L + 1
    OBVIOUS
  <2> QED BY <1>0, <1>8, <1>9, <2>2, <2>3, Zenon DEF Extended
<1>11. \A n \in 0..L : At(n)' = At(n)
  BY <1>0, <1>10, ExtendedStable
<1>12. At(L + 1)' = h /\ At(L)' = Now
  <2>1. L + 1 # 0 /\ L \in 0..L
    OBVIOUS
  <2>2. At(L + 1)' = truth'[L + 1]
    BY <2>1, Zenon DEF At
  <2> QED BY <2>1, <2>2, <1>0, <1>9, <1>11 DEF Now
<1>13. \A n \in 1..Len(stream') : n \in 1..L \/ n = L + 1
  BY <1>8
<1>14. \A b \in Aggregates : At(L + 1)'[b] = At(L)'[b] \o EventAt(L + 1, b)'
  <2> TAKE b \in Aggregates
  <2>1. CASE b = a
    <3>1. EventAt(L + 1, a)' = <<e>>
      BY <1>6, <1>8, Zenon DEF EventAt
    <3>2. Append(Now[a], e) = Now[a] \o <<e>>
      BY <1>1, <1>2, AppendIsConcat
    <3> QED BY <2>1, <3>1, <3>2, <1>4, <1>12, Zenon
  <2>2. CASE b # a
    <3>1. EventAt(L + 1, b)' = <<>>
      BY <2>2, <1>6, <1>8, Zenon DEF EventAt
    <3>2. Now[b] \in Seq(Events)
      BY <1>1 DEF State
    <3>3. Now[b] \o <<>> = Now[b]
      BY <3>2, ConcatEmptySeq
    <3> QED BY <2>2, <3>1, <3>3, <1>4, <1>12, Zenon
  <2> QED BY <2>1, <2>2
<1>15. TruthIsReplay'
  <2> SUFFICES ASSUME NEW n \in 1..Len(stream'), NEW b \in Aggregates
               PROVE  At(n)'[b] = At(n - 1)'[b] \o EventAt(n, b)'
    BY DEF TruthIsReplay
  <2>1. CASE n \in 1..L
    <3>1. n \in 0..L /\ n - 1 \in 0..L
      BY <2>1
    <3>2. EventAt(n, b)' = EventAt(n, b)
      BY <2>1, <1>8 DEF EventAt
    <3>3. At(n)[b] = At(n - 1)[b] \o EventAt(n, b)
      BY <2>1, <1>0 DEF SnapshotCorrect, TruthIsReplay
    <3> QED BY <3>1, <3>2, <3>3, <1>11
  <2>2. CASE n = L + 1
    <3>1. n - 1 = L
      BY <2>2
    <3> QED BY <3>1, <2>2, <1>14, Zenon
  <2> QED BY <2>1, <2>2, <1>13
<1>16. ASSUME NEW n \in 1..Len(stream'), stream'[n].snap
       PROVE  stream'[n].body = At(n)'[stream'[n].agg]
  <2>1. n # L + 1
    BY <1>16, <1>6, <1>8, Zenon
  <2>2. n \in 1..L /\ n \in 0..L
    BY <2>1, <1>13
  <2> QED BY <2>2, <1>0, <1>8, <1>11, <1>16 DEF SnapshotCorrect
<1> QED BY <1>10, <1>15, <1>16 DEF SnapshotCorrect

-----------------------------------------------------------------------------
(* Preservation by the steps of one worker *)

\* The variables of worker u do not change.
SameWorker(u) ==
  /\ pc'[u] = pc[u] /\ cmd'[u] = cmd[u]
  /\ st'[u] = st[u] /\ ver'[u] = ver[u] /\ mark'[u] = mark[u]
  /\ evs'[u] = evs[u] /\ snap'[u] = snap[u]

\* Whatever others append, a worker that does not move keeps its invariant.
LEMMA SameWorkerInv ==
  ASSUME TypeOK, NEW a \in Aggregates, Extended(a),
         NEW u \in Workers, WorkerInv(u), SameWorker(u)
  PROVE  WorkerInv(u)'
<1>1. Agg(u) \in Aggregates /\ Agg(u)' = Agg(u) /\ ver[u] \in Nat /\ mark[u] \in Nat
  BY DomainAssumption DEF TypeOK, Agg, SameWorker
<1>2. Len(stream) \in Nat /\ Len(stream') \in Nat /\ Len(stream) <= Len(stream')
  BY DEF TypeOK, Extended
<1>3. /\ pc'[u] \in Before => st'[u] = <<>> /\ ver'[u] = 0
      /\ pc'[u] \in Before \cup Loading \cup Counting => ~snap'[u]
      /\ pc'[u] = "replay" => mark'[u] <= Len(stream')
  <2>1. pc'[u] = "replay" => mark'[u] <= Len(stream')
    BY <1>1, <1>2 DEF WorkerInv, SameWorker
  <2> QED BY <2>1, Zenon DEF WorkerInv, SameWorker
<1>4. ASSUME pc[u] \in Loading \cup Counting
      PROVE  /\ IsVersion(Agg(u), ver[u])'
             /\ At(ver[u])' = At(ver[u])
             /\ st'[u] = At(ver[u])'[Agg(u)']
  <2>1. IsVersion(Agg(u), ver[u]) /\ st[u] = At(ver[u])[Agg(u)]
    BY <1>4 DEF WorkerInv
  <2>2. PICK v \in 0..Len(stream) : v = ver[u]
    BY <2>1 DEF IsVersion
  <2>3. PICK b \in Aggregates : b = Agg(u)
    BY <1>1
  <2>4. At(v)' = At(v) /\ IsVersion(b, v)'
    BY <2>1, <2>2, <2>3, ExtendedStable
  <2>5. ver'[u] = v /\ b = Agg(u)'
    BY <2>2, <2>3, <1>1 DEF SameWorker
  <2>6. At(ver[u])' = At(v)' /\ IsVersion(Agg(u), ver[u])'
    BY <2>4, <2>5 DEF At, IsVersion
  <2> QED BY <2>1, <2>2, <2>4, <2>6, <1>1 DEF SameWorker
<1>5. pc'[u] \in Counting =>
        evs'[u] = Decide(cmd'[u], At(ver[u])'[Agg(u)']) /\ evs'[u] # <<>>
  BY <1>1, <1>4 DEF WorkerInv, SameWorker
<1>6. ASSUME pc'[u] \in Requesting
      PROVE  RequestInv(RequestOf(u))'
  <2>1. RequestInv(RequestOf(u)) /\ RequestOf(u) \in Request
    BY <1>6, <1>1 DEF WorkerInv, SameWorker, TypeOK, RequestOf, Request
  <2>2. PICK r \in Request : r = RequestOf(u)
    BY <2>1
  <2>3. RequestInv(r)'
    BY <2>1, <2>2, ExtendedRequest
  <2>4. RequestOf(u)' = r
    BY <2>2 DEF RequestOf, SameWorker
  <2> QED BY <2>3, <2>4 DEF RequestInv, IsVersion, At
<1>7. pc'[u] = "conflicted" => Between(Agg(u), ver[u], Len(stream))' # {}
  <2> SUFFICES ASSUME pc'[u] = "conflicted"
               PROVE  Between(Agg(u), ver[u], Len(stream))' # {}
    OBVIOUS
  <2>1. PICK n \in (ver[u] + 1)..Len(stream) : stream[n].agg = Agg(u)
    BY <1>1 DEF WorkerInv, SameWorker, Between
  <2>2. n \in (ver'[u] + 1)..Len(stream') /\ n \in 1..Len(stream)
    BY <2>1, <1>1, <1>2 DEF SameWorker
  <2>3. stream'[n].agg = Agg(u)'
    BY <2>1, <2>2, <1>1 DEF Extended
  <2> QED BY <2>2, <2>3 DEF Between
<1> QED BY <1>3, <1>4, <1>5, <1>6, <1>7 DEF WorkerInv, SameWorker

LEMMA UnchangedExtends ==
  ASSUME TypeOK, SnapshotCorrect, NEW a \in Aggregates, UNCHANGED <<stream, truth>>
  PROVE  Extended(a) /\ SnapshotCorrect'
<1>1. stream' = stream /\ truth' = truth
  OBVIOUS
<1>2. Extended(a)
  <2>1. \A n \in (Len(stream) + 1)..Len(stream) : FALSE
    BY DEF TypeOK
  <2>2. Len(stream) <= Len(stream)
    BY DEF TypeOK
  <2> QED BY <1>1, <2>1, <2>2 DEF TypeOK, Extended
<1>3. SnapshotCorrect'
  <2>1. \A n : At(n)' = At(n)
    BY <1>1, Zenon DEF At
  <2>2. \A n, b : EventAt(n, b)' = EventAt(n, b)
    BY <1>1, Zenon DEF EventAt
  <2>3. TruthIsReplay'
    BY <1>1, <2>1, <2>2, Zenon DEF SnapshotCorrect, TruthIsReplay
  <2> QED BY <1>1, <2>1, <2>3, Zenon DEF SnapshotCorrect
<1> QED BY <1>2, <1>3

\* A worker outside any attempt has nothing to say about the stream.
LEMMA BeforeInv ==
  ASSUME NEW w \in Workers, pc'[w] \in Before, st'[w] = <<>>, ver'[w] = 0, ~snap'[w]
  PROVE  WorkerInv(w)'
<1>1. /\ pc'[w] \notin Loading \cup Counting /\ pc'[w] # "replay"
      /\ pc'[w] \notin Counting /\ pc'[w] \notin Requesting /\ pc'[w] # "conflicted"
  BY DEF Before, Loading, Counting, Requesting
<1> QED BY <1>1, Zenon DEF WorkerInv

LEMMA ReturnInv ==
  ASSUME TypeOK, NEW w \in Workers, NEW res, Return(w, res)
  PROVE  WorkerInv(w)' /\ \A u \in Workers \ {w} : SameWorker(u)
<1>1. pc'[w] = "idle" /\ st'[w] = <<>> /\ ver'[w] = 0
  BY DEF TypeOK, Return, Goto, Fresh
<1>2. snap'[w] = FALSE
  BY DEF TypeOK, Return, NoSave
<1>3. WorkerInv(w)'
  BY <1>1, <1>2, BeforeInv DEF Before
<1>4. \A u \in Workers \ {w} : SameWorker(u)
  <2> TAKE u \in Workers \ {w}
  <2>1. pc'[u] = pc[u] /\ cmd'[u] = cmd[u]
    BY DEF TypeOK, Return, Goto
  <2>2. st'[u] = st[u] /\ ver'[u] = ver[u] /\ mark'[u] = mark[u]
    BY DEF TypeOK, Return, Fresh
  <2>3. evs'[u] = evs[u] /\ snap'[u] = snap[u]
    BY DEF TypeOK, Return, NoSave
  <2> QED BY <2>1, <2>2, <2>3 DEF SameWorker
<1> QED BY <1>3, <1>4

LEMMA LoadSnapshotInv ==
  ASSUME TypeOK, SnapshotCorrect, NEW w \in Workers, WorkerInv(w), LoadSnapshot(w)
  PROVE  WorkerInv(w)'
<1>1. PICK s \in 0..Len(stream) :
        /\ s # 0 => stream[s].agg = Agg(w) /\ stream[s].snap
        /\ st'[w] = IF s = 0 THEN st[w] ELSE stream[s].body
        /\ ver'[w] = s
  BY DEF LoadSnapshot, Visible, IsLastSnapshot, TypeOK
<1>2. pc[w] = "load" /\ pc'[w] = "open" /\ stream' = stream /\ truth' = truth
      /\ Agg(w)' = Agg(w) /\ snap' = snap
  BY DEF LoadSnapshot, Goto, TypeOK, serverVars, callVars, saveVars, Agg
<1>3. st[w] = <<>> /\ ~snap[w]
  BY <1>2, Zenon DEF WorkerInv, Before
<1>4. Agg(w) \in Aggregates
  BY DomainAssumption DEF TypeOK, Agg
<1>5. IsVersion(Agg(w), ver[w])'
  BY <1>1, <1>2 DEF IsVersion
<1>6. st'[w] = At(ver[w])'[Agg(w)']
  <2>1. CASE s = 0
    BY <2>1, <1>1, <1>2, <1>3, <1>4 DEF At
  <2>2. CASE s # 0
    <3>1. s \in 1..Len(stream) /\ stream[s].snap /\ stream[s].agg = Agg(w)
      BY <2>2, <1>1 DEF TypeOK
    <3>2. stream[s].body = At(s)[Agg(w)]
      BY <3>1 DEF SnapshotCorrect
    <3> QED BY <2>2, <3>2, <1>1, <1>2 DEF At
  <2> QED BY <2>1, <2>2
<1>7. /\ pc'[w] \notin Before /\ pc'[w] # "replay" /\ pc'[w] \notin Counting
      /\ pc'[w] \notin Requesting /\ pc'[w] # "conflicted"
  BY <1>2 DEF Before, Counting, Requesting
<1> QED BY <1>2, <1>3, <1>5, <1>6, <1>7, Zenon DEF WorkerInv

LEMMA OpenConsumerInv ==
  ASSUME TypeOK, NEW w \in Workers, WorkerInv(w), OpenConsumer(w)
  PROVE  WorkerInv(w)'
<1>1. /\ pc[w] = "open" /\ pc'[w] \in {"mutate", "replay"}
      /\ pc'[w] = "replay" => mark'[w] <= Len(stream)
  BY DEF OpenConsumer, Goto, TypeOK, Visible
<1>2. /\ stream' = stream /\ truth' = truth /\ Agg(w)' = Agg(w)
      /\ snap' = snap /\ st' = st /\ ver' = ver
  BY DEF OpenConsumer, serverVars, callVars, saveVars, Agg
<1>3. IsVersion(Agg(w), ver[w]) /\ st[w] = At(ver[w])[Agg(w)] /\ ~snap[w]
  BY <1>1, Zenon DEF WorkerInv, Loading
<1>4. IsVersion(Agg(w), ver[w])' /\ st'[w] = At(ver[w])'[Agg(w)']
  BY <1>2, <1>3 DEF IsVersion, At
<1>5. /\ pc'[w] \notin Before /\ pc'[w] \notin Counting
      /\ pc'[w] \notin Requesting /\ pc'[w] # "conflicted"
  BY <1>1 DEF Before, Counting, Requesting
<1>6. pc'[w] = "replay" => mark'[w] <= Len(stream')
  BY <1>1, <1>2
<1> QED BY <1>2, <1>3, <1>4, <1>5, <1>6, Zenon DEF WorkerInv

\* Replaying one message takes the aggregate from its version to the next.
LEMMA ReplayInv ==
  ASSUME TypeOK, Frame, SnapshotCorrect, NEW w \in Workers, WorkerInv(w), Replay(w)
  PROVE  WorkerInv(w)'
<1> DEFINE a == Agg(w)
           v == ver[w]
<1>1. /\ pc[w] = "replay" /\ stream' = stream /\ truth' = truth /\ Agg(w)' = a
      /\ snap' = snap
  BY DEF Replay, serverVars, callVars, saveVars, Agg
<1>2. /\ IsVersion(a, v) /\ st[w] = At(v)[a] /\ ~snap[w] /\ mark[w] <= Len(stream)
  BY <1>1, Zenon DEF WorkerInv, Loading
<1>3. a \in Aggregates /\ v \in 0..Len(stream) /\ mark[w] \in 0..Len(stream)
      /\ Len(stream) \in Nat
  BY <1>2, DomainAssumption DEF TypeOK, Agg, IsVersion
<1>4. PICK q \in Between(a, v, mark[w]), n \in mark[w]..Len(stream) :
        /\ Between(a, v, q) = {q}
        /\ st'[w] = IF stream[q].snap THEN stream[q].body ELSE st[w] \o stream[q].body
        /\ ver'[w] = q
        /\ pc'[w] \in {"mutate", "replay"}
        /\ mark'[w] \in {0, n}
  BY <1>1 DEF Replay, TypeOK, Goto
<1>5. q \in 1..Len(stream) /\ stream[q].agg = a /\ v < q /\ q - 1 \in 0..Len(stream) /\ v <= q - 1
  BY <1>3, <1>4 DEF Between
<1>6. Between(a, v, q - 1) = {}
  BY <1>3, <1>4, <1>5 DEF Between
<1>7. At(v)[a] = At(q - 1)[a]
  BY <1>3, <1>5, <1>6 DEF Frame
<1>8. st'[w] = At(q)[a]
  <2>1. CASE stream[q].snap
    <3>1. stream[q].body = At(q)[a]
      BY <2>1, <1>5 DEF SnapshotCorrect
    <3> QED BY <3>1, <2>1, <1>4, Zenon
  <2>2. CASE ~stream[q].snap
    <3>1. At(q)[a] = At(q - 1)[a] \o EventAt(q, a)
      BY <1>3, <1>5 DEF SnapshotCorrect, TruthIsReplay
    <3>2. EventAt(q, a) = stream[q].body
      BY <2>2, <1>5, Zenon DEF EventAt
    <3> QED BY <3>1, <3>2, <2>2, <1>2, <1>4, <1>7, Zenon
  <2> QED BY <2>1, <2>2, Zenon
<1>9. IsVersion(Agg(w), ver[w])' /\ st'[w] = At(ver[w])'[Agg(w)']
  BY <1>1, <1>4, <1>5, <1>8 DEF IsVersion, At
<1>10. mark'[w] <= Len(stream')
  BY <1>1, <1>3, <1>4
<1>11. /\ pc'[w] \notin Before /\ pc'[w] \notin Counting
       /\ pc'[w] \notin Requesting /\ pc'[w] # "conflicted"
  BY <1>4 DEF Before, Counting, Requesting
<1> QED BY <1>1, <1>2, <1>9, <1>10, <1>11, Zenon DEF WorkerInv

LEMMA MutateInv ==
  ASSUME TypeOK, NEW w \in Workers, WorkerInv(w), Mutate(w)
  PROVE  WorkerInv(w)'
<1> DEFINE a == Agg(w)
           v == ver[w]
<1>1. /\ pc[w] = "mutate" /\ stream' = stream /\ truth' = truth /\ cmd' = cmd
      /\ snap' = snap /\ st' = st /\ ver' = ver /\ Agg(w)' = a
  BY DEF Mutate, serverVars, callVars, Agg
<1>2. pc'[w] \in {"publish", "snapshot"} /\ evs'[w] = Decide(cmd[w], st[w]) /\ evs'[w] # <<>>
  BY DEF Mutate, Goto, TypeOK
<1>3. IsVersion(a, v) /\ st[w] = At(v)[a] /\ ~snap[w]
  BY <1>1, Zenon DEF WorkerInv, Loading
<1>4. IsVersion(Agg(w), ver[w])' /\ st'[w] = At(ver[w])'[Agg(w)']
      /\ evs'[w] = Decide(cmd'[w], At(ver[w])'[Agg(w)']) /\ ~snap'[w]
  BY <1>1, <1>2, <1>3 DEF IsVersion, At
<1>5. RequestInv(RequestOf(w))'
  BY <1>1, <1>2, <1>4 DEF RequestInv, RequestOf, IsVersion, At, Agg
<1>6. /\ pc'[w] \notin Before /\ pc'[w] # "replay" /\ pc'[w] # "conflicted"
  BY <1>2 DEF Before
<1> QED BY <1>2, <1>4, <1>5, <1>6, Zenon DEF WorkerInv

LEMMA LastSnapshotVersionInv ==
  ASSUME TypeOK, NEW w \in Workers, WorkerInv(w), LastSnapshotVersion(w)
  PROVE  WorkerInv(w)'
<1> DEFINE a == Agg(w)
           v == ver[w]
<1>1. /\ pc[w] = "snapshot" /\ stream' = stream /\ truth' = truth /\ cmd' = cmd
      /\ snap' = snap /\ st' = st /\ ver' = ver /\ evs' = evs /\ Agg(w)' = a
  BY DEF LastSnapshotVersion, serverVars, callVars, saveVars, Agg
<1>2. pc'[w] = "count"
  BY DEF LastSnapshotVersion, Goto, TypeOK
<1>3. /\ IsVersion(a, v) /\ st[w] = At(v)[a] /\ ~snap[w]
      /\ evs[w] = Decide(cmd[w], At(v)[a]) /\ evs[w] # <<>>
  BY <1>1, Zenon DEF WorkerInv, Counting
<1>4. /\ IsVersion(Agg(w), ver[w])' /\ st'[w] = At(ver[w])'[Agg(w)'] /\ ~snap'[w]
      /\ evs'[w] = Decide(cmd'[w], At(ver[w])'[Agg(w)']) /\ evs'[w] # <<>>
  BY <1>1, <1>3 DEF IsVersion, At
<1>5. /\ pc'[w] \notin Before /\ pc'[w] # "replay" /\ pc'[w] # "conflicted"
      /\ pc'[w] \notin Requesting
  BY <1>2 DEF Before, Requesting
<1> QED BY <1>2, <1>4, <1>5, Zenon DEF WorkerInv

LEMMA SnapshotForSaveInv ==
  ASSUME TypeOK, NEW w \in Workers, WorkerInv(w), SnapshotForSave(w)
  PROVE  WorkerInv(w)'
<1> DEFINE a == Agg(w)
           v == ver[w]
<1>1. /\ pc[w] = "count" /\ stream' = stream /\ truth' = truth /\ cmd' = cmd
      /\ ver' = ver /\ evs' = evs /\ Agg(w)' = a
  BY DEF SnapshotForSave, serverVars, callVars, Agg
<1>2. pc'[w] = "publish"
  BY DEF SnapshotForSave, Goto, TypeOK
<1>3. /\ IsVersion(a, v) /\ st[w] = At(v)[a] /\ ~snap[w]
      /\ evs[w] = Decide(cmd[w], At(v)[a]) /\ evs[w] # <<>>
  BY <1>1, Zenon DEF WorkerInv, Counting
<1>4. snap'[w] => st'[w] = st[w] \o evs[w]
  <2>1. PICK n \in Visible :
          IF Due(w, n)
          THEN /\ st' = [st EXCEPT ![w] = @ \o evs[w]]
               /\ snap' = [snap EXCEPT ![w] = TRUE]
          ELSE UNCHANGED <<st, snap>>
    BY Zenon DEF SnapshotForSave
  <2>2. CASE Due(w, n)
    BY <2>1, <2>2 DEF TypeOK
  <2>3. CASE ~Due(w, n)
    <3>1. snap' = snap
      BY <2>1, <2>3, Zenon
    <3> QED BY <3>1, <1>3, Zenon
  <2> QED BY <2>2, <2>3, Zenon
<1>5. At(ver[w])' = At(v)
  BY <1>1 DEF At
<1>6. IsVersion(Agg(w), ver[w])'
  BY <1>1, <1>3 DEF IsVersion
<1>7. RequestInv(RequestOf(w))'
  <2>1. /\ RequestOf(w)'.cmd = cmd[w] /\ RequestOf(w)'.exp = v
        /\ RequestOf(w)'.evs = evs[w] /\ RequestOf(w)'.snap = snap'[w]
        /\ RequestOf(w)'.st = st'[w]
    BY <1>1 DEF RequestOf
  <2>4. At(RequestOf(w).exp)' = At(v)
    BY <2>1, <1>5, <1>1 DEF At
  <2>5. IsVersion(AggOf[RequestOf(w).cmd], RequestOf(w).exp)'
    BY <2>1, <1>1, <1>3 DEF IsVersion, Agg
  <2>6. (RequestOf(w).evs = Decide(RequestOf(w).cmd, At(RequestOf(w).exp)[AggOf[RequestOf(w).cmd]]))'
    BY <2>1, <2>4, <1>3 DEF Agg
  <2>7. (RequestOf(w).evs # <<>>)'
    BY <2>1, <1>3
  <2>8. RequestOf(w)'.snap => (RequestOf(w).st = At(RequestOf(w).exp)[AggOf[RequestOf(w).cmd]] \o RequestOf(w).evs)'
    BY <2>1, <2>4, <1>3, <1>4, Zenon DEF Agg
  <2> QED BY <2>5, <2>6, <2>7, <2>8, Zenon DEF RequestInv
<1>8. /\ pc'[w] \notin Before /\ pc'[w] # "replay" /\ pc'[w] # "conflicted"
      /\ pc'[w] \notin Loading \cup Counting /\ pc'[w] \notin Counting
      /\ pc'[w] \notin Before \cup Loading \cup Counting
  BY <1>2 DEF Before, Loading, Counting
<1> QED BY <1>7, <1>8, Zenon DEF WorkerInv

\* A worker whose request does not change is still requesting.
LEMMA RequestingInv ==
  ASSUME TypeOK, NEW w \in Workers, WorkerInv(w), pc[w] \in Requesting, pc'[w] \in Requesting,
         UNCHANGED <<stream, truth, cmd, ver, evs, snap, st>>
  PROVE  WorkerInv(w)'
<1>1. RequestInv(RequestOf(w))
  BY DEF WorkerInv
<1>2. RequestInv(RequestOf(w))'
  <2>1. RequestOf(w)' = RequestOf(w)
    BY DEF RequestOf
  <2>2. /\ At(RequestOf(w).exp)' = At(RequestOf(w).exp)
        /\ IsVersion(AggOf[RequestOf(w).cmd], RequestOf(w).exp)'
             = IsVersion(AggOf[RequestOf(w).cmd], RequestOf(w).exp)
    BY <2>1 DEF At, IsVersion
  <2> QED BY <1>1, <2>1, <2>2, Zenon DEF RequestInv
<1>3. /\ pc'[w] \notin Before /\ pc'[w] # "replay" /\ pc'[w] # "conflicted"
      /\ pc'[w] \notin Loading \cup Counting /\ pc'[w] \notin Counting
      /\ pc'[w] \notin Before \cup Loading \cup Counting
  BY DEF Before, Loading, Counting, Requesting
<1> QED BY <1>2, <1>3, Zenon DEF WorkerInv

LEMMA RefuseInv ==
  ASSUME TypeOK, NEW w \in Workers, WorkerInv(w), Refuse(w)
  PROVE  WorkerInv(w)'
<1>1. /\ pc[w] \in Requesting /\ stream' = stream /\ ver' = ver /\ Agg(w)' = Agg(w)
      /\ ~IsLastSequence(Agg(w), ver[w])
  BY DEF Refuse, Requesting, serverVars, callVars, loadVars, Agg
<1>2. pc'[w] = "conflicted"
  BY DEF Refuse, Goto, TypeOK
<1>3. IsVersion(Agg(w), ver[w])
  BY <1>1 DEF WorkerInv, RequestInv, RequestOf, Agg
<1>4. Between(Agg(w), ver[w], Len(stream)) # {}
  BY <1>1, <1>3 DEF IsVersion, IsLastSequence
<1>5. Between(Agg(w), ver[w], Len(stream))' # {}
  BY <1>1, <1>4 DEF Between
<1>6. /\ pc'[w] \notin Before /\ pc'[w] # "replay" /\ pc'[w] \notin Requesting
      /\ pc'[w] \notin Loading \cup Counting /\ pc'[w] \notin Counting
      /\ pc'[w] \notin Before \cup Loading \cup Counting
  BY <1>2 DEF Before, Loading, Counting, Requesting
<1> QED BY <1>5, <1>6, Zenon DEF WorkerInv

\* An acknowledged worker only has to return.
LEMMA CommitInv ==
  ASSUME TypeOK, NEW w \in Workers, Commit(w)
  PROVE  WorkerInv(w)'
<1>1. pc'[w] = "acked"
  BY DEF Commit, Goto, TypeOK
<1>2. /\ pc'[w] \notin Before /\ pc'[w] # "replay" /\ pc'[w] \notin Requesting
      /\ pc'[w] \notin Loading \cup Counting /\ pc'[w] \notin Counting
      /\ pc'[w] \notin Before \cup Loading \cup Counting /\ pc'[w] # "conflicted"
  BY <1>1 DEF Before, Loading, Counting, Requesting
<1> QED BY <1>2, Zenon DEF WorkerInv

LEMMA RetryInv ==
  ASSUME TypeOK, NEW w \in Workers, Retry(w)
  PROVE  WorkerInv(w)'
<1>1. pc'[w] = "backoff" /\ st'[w] = <<>> /\ ver'[w] = 0 /\ snap'[w] = FALSE
  BY DEF Retry, Goto, Fresh, NoSave, TypeOK
<1> QED BY <1>1, BeforeInv DEF Before

LEMMA BackoffInv ==
  ASSUME TypeOK, NEW w \in Workers, WorkerInv(w), Backoff(w)
  PROVE  WorkerInv(w)'
<1>1. pc[w] = "backoff" /\ pc'[w] = "load" /\ st' = st /\ ver' = ver /\ snap' = snap
  BY DEF Backoff, Goto, TypeOK, saveVars
<1>2. st[w] = <<>> /\ ver[w] = 0 /\ ~snap[w]
  BY <1>1, Zenon DEF WorkerInv, Before
<1> QED BY <1>1, <1>2, BeforeInv, Zenon DEF Before

LEMMA ExecuteInv ==
  ASSUME TypeOK, NEW w \in Workers, NEW c \in Commands, WorkerInv(w), Execute(w, c)
  PROVE  WorkerInv(w)'
<1>1. pc[w] = "idle" /\ pc'[w] = "load" /\ st' = st /\ ver' = ver /\ snap' = snap
  BY DEF Execute, Goto, TypeOK, saveVars
<1>2. st[w] = <<>> /\ ver[w] = 0 /\ ~snap[w]
  BY <1>1, Zenon DEF WorkerInv, Before
<1> QED BY <1>1, <1>2, BeforeInv, Zenon DEF Before

LEMMA RequestOfType ==
  ASSUME TypeOK, NEW w \in Workers
  PROVE  RequestOf(w) \in Request
BY DEF TypeOK, RequestOf, Request

LEMMA StepOwn ==
  ASSUME Inv, NEW w \in Workers, Step(w)
  PROVE  WorkerInv(w)'
<1> TypeOK /\ Frame /\ SnapshotCorrect /\ WorkerInv(w)
  BY DEF Inv
<1>1. CASE LoadSnapshot(w)        BY <1>1, LoadSnapshotInv
<1>2. CASE OpenConsumer(w)        BY <1>2, OpenConsumerInv
<1>3. CASE Replay(w)              BY <1>3, ReplayInv
<1>4. CASE FailLoad(w)            BY <1>4, ReturnInv DEF FailLoad
<1>5. CASE MutateNothing(w)       BY <1>5, ReturnInv DEF MutateNothing
<1>6. CASE Mutate(w)              BY <1>6, MutateInv
<1>7. CASE FailMutate(w)          BY <1>7, ReturnInv DEF FailMutate
<1>8. CASE LastSnapshotVersion(w) BY <1>8, LastSnapshotVersionInv
<1>9. CASE SnapshotForSave(w)     BY <1>9, SnapshotForSaveInv
<1>10. CASE FailSnapshot(w)       BY <1>10, ReturnInv DEF FailSnapshot
<1>11. CASE Stage(w)
  <2>1. pc[w] \in Requesting /\ pc' = pc
        /\ UNCHANGED <<stream, truth, cmd, ver, evs, snap, st>>
    BY <1>11 DEF Stage, Requesting, loadVars, callVars, serverVars
  <2> QED BY <2>1, RequestingInv
<1>12. CASE Publish(w)
  <2>1. pc[w] \in Requesting /\ pc'[w] \in Requesting
        /\ UNCHANGED <<stream, truth, cmd, ver, evs, snap, st>>
    BY <1>12 DEF Publish, Goto, TypeOK, Requesting, loadVars, callVars, saveVars, serverVars
  <2> QED BY <2>1, RequestingInv
<1>13. CASE Commit(w)             BY <1>13, CommitInv
<1>14. CASE Refuse(w)             BY <1>14, RefuseInv
<1>15. CASE FailPublish(w)        BY <1>15, ReturnInv DEF FailPublish
<1>16. CASE SaveOk(w)             BY <1>16, ReturnInv DEF SaveOk
<1>17. CASE Retry(w)              BY <1>17, RetryInv
<1>18. CASE Exhausted(w)          BY <1>18, ReturnInv DEF Exhausted
<1>19. CASE Backoff(w)            BY <1>19, BackoffInv
<1>20. CASE CancelBackoff(w)      BY <1>20, ReturnInv DEF CancelBackoff
<1> QED
  BY <1>1, <1>2, <1>3, <1>4, <1>5, <1>6, <1>7, <1>8, <1>9, <1>10, <1>11, <1>12,
     <1>13, <1>14, <1>15, <1>16, <1>17, <1>18, <1>19, <1>20 DEF Step

\* The calls that end by returning.
Returns(w) ==
  \/ FailLoad(w) \/ MutateNothing(w) \/ FailMutate(w) \/ FailSnapshot(w)
  \/ FailPublish(w) \/ SaveOk(w) \/ Exhausted(w) \/ CancelBackoff(w)

LEMMA ReturnsShape ==
  ASSUME NEW w \in Workers, Returns(w)
  PROVE  /\ \E r \in {"ok", "conflict", "error", "snapshot_error"} : Return(w, r)
         /\ late' = late \/ (pc[w] = "await" /\ late' = late \cup {RequestOf(w)})
<1>1. CASE FailPublish(w)
  BY <1>1 DEF FailPublish
<1>2. CASE ~FailPublish(w)
  BY <1>2 DEF Returns, FailLoad, MutateNothing, FailMutate, FailSnapshot, SaveOk,
              Exhausted, CancelBackoff
<1> QED BY <1>1, <1>2

\* One worker's step leaves the variables of the others alone.
LEMMA StepOthers ==
  ASSUME TypeOK, NEW w \in Workers, Step(w), NEW u \in Workers \ {w}
  PROVE  SameWorker(u)
<1>1. CASE Returns(w)
  BY <1>1, ReturnsShape, ReturnInv
<1>2. CASE Retry(w)
  <2>1. pc'[u] = pc[u] /\ cmd'[u] = cmd[u]
    BY <1>2 DEF TypeOK, Retry, Goto
  <2>2. st'[u] = st[u] /\ ver'[u] = ver[u] /\ mark'[u] = mark[u]
    BY <1>2 DEF TypeOK, Retry, Fresh
  <2>3. evs'[u] = evs[u] /\ snap'[u] = snap[u]
    BY <1>2 DEF TypeOK, Retry, NoSave
  <2> QED BY <2>1, <2>2, <2>3 DEF SameWorker
<1>3. CASE LoadSnapshot(w)
  BY <1>3 DEF TypeOK, LoadSnapshot, Goto, callVars, saveVars, SameWorker
<1>4. CASE OpenConsumer(w)
  BY <1>4 DEF TypeOK, OpenConsumer, Goto, callVars, saveVars, SameWorker
<1>5. CASE Replay(w)
  BY <1>5 DEF TypeOK, Replay, Goto, callVars, saveVars, SameWorker
<1>6. CASE Mutate(w)
  BY <1>6 DEF TypeOK, Mutate, Goto, callVars, SameWorker
<1>7. CASE LastSnapshotVersion(w)
  BY <1>7 DEF TypeOK, LastSnapshotVersion, Goto, callVars, saveVars, SameWorker
<1>8. CASE SnapshotForSave(w)
  BY <1>8 DEF TypeOK, SnapshotForSave, Goto, callVars, SameWorker
<1>9. CASE Stage(w)
  BY <1>9 DEF TypeOK, Stage, loadVars, callVars, SameWorker
<1>10. CASE Publish(w) \/ Commit(w) \/ Refuse(w)
  BY <1>10 DEF TypeOK, Publish, Commit, Refuse, Goto, loadVars, callVars, saveVars, SameWorker
<1>11. CASE Backoff(w)
  BY <1>11 DEF TypeOK, Backoff, Goto, callVars, saveVars, SameWorker
<1> QED
  BY <1>1, <1>2, <1>3, <1>4, <1>5, <1>6, <1>7, <1>8, <1>9, <1>10, <1>11 DEF Step, Returns

\* What a worker's step does to the stream and to the abandoned requests.
LEMMA StepServer ==
  ASSUME Inv, NEW w \in Workers, Step(w)
  PROVE  /\ \E a \in Aggregates : Extended(a)
         /\ SnapshotCorrect'
         /\ late' = late \/ (pc[w] = "await" /\ late' = late \cup {RequestOf(w)})
<1> TypeOK /\ Frame /\ SnapshotCorrect /\ WorkerInv(w) /\ Agg(w) \in Aggregates
  BY DomainAssumption DEF Inv, TypeOK, Agg
<1>1. CASE Commit(w)
  <2>1. PICK r \in Request : r = RequestOf(w)
    BY RequestOfType
  <2>2. /\ RequestInv(r) /\ r.cmd = cmd[w] /\ r.exp = ver[w]
        /\ IsLastSequence(AggOf[r.cmd], r.exp) /\ AppendBatch(r)
    BY <1>1, <2>1 DEF Commit, WorkerInv, Requesting, RequestOf, Agg
  <2>3. Len(r.evs) > 0
    BY <2>2 DEF RequestInv, Request, State
  <2>4. AggOf[r.cmd] \in Aggregates
    BY DomainAssumption DEF Request
  <2>5. Extended(AggOf[r.cmd])
    BY <2>2, <2>3, AppendBatchShape
  <2>6. SnapshotCorrect'
    BY <2>2, <2>3, AppendBatchSnapshot
  <2> QED BY <2>4, <2>5, <2>6, <1>1 DEF Commit
<1>2. CASE Returns(w)
  <2>1. UNCHANGED <<stream, truth>>
    BY <1>2, ReturnsShape DEF Return
  <2> QED BY <2>1, <1>2, ReturnsShape, UnchangedExtends
<1>3. CASE ~Commit(w) /\ ~Returns(w)
  <2>1. UNCHANGED <<stream, truth, late>>
    BY <1>3 DEF Step, Returns, LoadSnapshot, OpenConsumer, Replay, Mutate,
       LastSnapshotVersion, SnapshotForSave, Stage, Publish, Refuse, Retry, Backoff, serverVars
  <2> QED BY <2>1, UnchangedExtends
<1> QED BY <1>1, <1>2, <1>3

\* The typing of the workers' variables, apart from the stream.
WorkerTypes ==
  /\ pc \in [Workers -> PCs]
  /\ cmd \in [Workers -> Commands]
  /\ attempt \in [Workers -> 0..(MaxAttempts - 1)]
  /\ result \in [Workers -> {"none", "ok", "conflict", "error", "snapshot_error"}]
  /\ st \in [Workers -> State]
  /\ ver \in [Workers -> Nat]
  /\ mark \in [Workers -> Nat]
  /\ since \in [Workers -> Nat]
  /\ evs \in [Workers -> State]
  /\ snap \in [Workers -> BOOLEAN]
  /\ staged \in [Workers -> Nat]

LEMMA ReturnTypes ==
  ASSUME TypeOK, NEW w \in Workers,
         NEW r \in {"ok", "conflict", "error", "snapshot_error"}, Return(w, r)
  PROVE  WorkerTypes'
<1>1. 0 \in 0..(MaxAttempts - 1) /\ <<>> \in State
  BY StoreAssumption DEF State
<1>2. /\ pc' \in [Workers -> PCs] /\ cmd' \in [Workers -> Commands]
      /\ attempt' \in [Workers -> 0..(MaxAttempts - 1)]
      /\ result' \in [Workers -> {"none", "ok", "conflict", "error", "snapshot_error"}]
      /\ since' \in [Workers -> Nat]
  BY <1>1 DEF Return, Goto, TypeOK, PCs
<1>3. st' \in [Workers -> State] /\ ver' \in [Workers -> Nat] /\ mark' \in [Workers -> Nat]
  BY <1>1 DEF Return, Fresh, TypeOK
<1>4. /\ evs' \in [Workers -> State] /\ snap' \in [Workers -> BOOLEAN]
      /\ staged' \in [Workers -> Nat]
  BY <1>1 DEF Return, NoSave, TypeOK
<1> QED BY <1>2, <1>3, <1>4 DEF WorkerTypes

LEMMA StepTypes ==
  ASSUME Inv, NEW w \in Workers, Step(w)
  PROVE  WorkerTypes'
<1> TypeOK /\ WorkerInv(w) /\ Len(stream) \in Nat
  BY DEF Inv, TypeOK
<1>1. CASE Returns(w)
  BY <1>1, ReturnsShape, ReturnTypes
<1>2. CASE Retry(w)
  <2>1. <<>> \in State /\ MaxAttempts \in Nat
    BY StoreAssumption DEF State
  <2>2. attempt[w] + 1 \in 0..(MaxAttempts - 1)
    BY <1>2, <2>1 DEF Retry, TypeOK
  <2>3. /\ pc' \in [Workers -> PCs] /\ UNCHANGED <<cmd, result, since>>
        /\ attempt' \in [Workers -> 0..(MaxAttempts - 1)]
    BY <1>2, <2>2 DEF Retry, Goto, TypeOK, PCs
  <2>4. st' \in [Workers -> State] /\ ver' \in [Workers -> Nat] /\ mark' \in [Workers -> Nat]
    BY <1>2, <2>1 DEF Retry, Fresh, TypeOK
  <2>5. /\ evs' \in [Workers -> State] /\ snap' \in [Workers -> BOOLEAN]
        /\ staged' \in [Workers -> Nat]
    BY <1>2, <2>1 DEF Retry, NoSave, TypeOK
  <2> QED BY <2>3, <2>4, <2>5 DEF WorkerTypes, TypeOK
<1>3. CASE LoadSnapshot(w)
  <2>0. PICK n \in Visible : \E s \in 0..n :
          /\ st' = [st EXCEPT ![w] = IF s = 0 THEN @ ELSE stream[s].body]
          /\ ver' = [ver EXCEPT ![w] = s]
    BY <1>3, Zenon DEF LoadSnapshot
  <2>1. PICK s \in 0..Len(stream) :
          /\ st' = [st EXCEPT ![w] = IF s = 0 THEN @ ELSE stream[s].body]
          /\ ver' = [ver EXCEPT ![w] = s]
    <3>1. n \in 0..Len(stream)
      BY DEF Visible
    <3>2. 0..n \subseteq 0..Len(stream)
      BY <3>1
    <3> QED BY <3>2, <2>0, Zenon
  <2>2. (IF s = 0 THEN st[w] ELSE stream[s].body) \in State
    <3>1. CASE s = 0
      BY <3>1 DEF TypeOK
    <3>2. CASE s # 0
      <4>1. stream[s] \in Message
        BY <3>2 DEF TypeOK
      <4> QED BY <4>1, <3>2 DEF Message
    <3> QED BY <3>1, <3>2
  <2>3. st' \in [Workers -> State] /\ ver' \in [Workers -> Nat]
    BY <2>1, <2>2 DEF TypeOK
  <2> QED BY <1>3, <2>3 DEF LoadSnapshot, Goto, callVars, saveVars, WorkerTypes, TypeOK, PCs
<1>4. CASE OpenConsumer(w)
  <2>1. pc' \in [Workers -> PCs] /\ mark' \in [Workers -> Nat]
    <3>1. PICK n \in Visible :
            IF Between(Agg(w), ver[w], n) = {}
            THEN Goto(w, "mutate") /\ UNCHANGED mark
            ELSE Goto(w, "replay") /\ mark' = [mark EXCEPT ![w] = n]
      BY <1>4, Zenon DEF OpenConsumer
    <3>2. n \in Nat
      BY DEF Visible
    <3>3. CASE Between(Agg(w), ver[w], n) = {}
      BY <3>1, <3>3 DEF Goto, TypeOK, PCs
    <3>4. CASE Between(Agg(w), ver[w], n) # {}
      <4>1. Goto(w, "replay") /\ mark' = [mark EXCEPT ![w] = n]
        BY <3>1, <3>4, Zenon
      <4> QED BY <4>1, <3>2 DEF Goto, TypeOK, PCs
    <3> QED BY <3>3, <3>4
  <2> QED BY <1>4, <2>1 DEF OpenConsumer, callVars, saveVars, WorkerTypes, TypeOK
<1>5. CASE Replay(w)
  <2>1. mark[w] <= Len(stream) /\ mark[w] \in Nat /\ ver[w] \in Nat
    BY <1>5 DEF Replay, WorkerInv, TypeOK
  <2>2. PICK q \in Between(Agg(w), ver[w], mark[w]), n \in mark[w]..Len(stream) :
          /\ st' = [st EXCEPT ![w] =
                      IF stream[q].snap THEN stream[q].body ELSE @ \o stream[q].body]
          /\ ver' = [ver EXCEPT ![w] = q]
          /\ IF Between(Agg(w), q, n) = {}
             THEN Goto(w, "mutate") /\ mark' = [mark EXCEPT ![w] = 0]
             ELSE UNCHANGED pc /\ mark' = [mark EXCEPT ![w] = n]
    BY <1>5 DEF Replay
  <2>3. q \in 1..Len(stream) /\ n \in Nat
    BY <2>1 DEF Between
  <2>4. stream[q].body \in State
    <3>1. stream[q] \in Message
      BY <2>3 DEF TypeOK
    <3> QED BY <3>1 DEF Message
  <2>5. st[w] \o stream[q].body \in State
    BY <2>4 DEF State, TypeOK
  <2>6. (IF stream[q].snap THEN stream[q].body ELSE st[w] \o stream[q].body) \in State
    BY <2>4, <2>5, Zenon
  <2>7. st' \in [Workers -> State] /\ ver' \in [Workers -> Nat]
    BY <2>2, <2>3, <2>6 DEF TypeOK
  <2>8. pc' \in [Workers -> PCs] /\ mark' \in [Workers -> Nat]
    <3>1. CASE Between(Agg(w), q, n) = {}
      <4>1. Goto(w, "mutate") /\ mark' = [mark EXCEPT ![w] = 0]
        BY <2>2, <3>1, Zenon
      <4> QED BY <4>1 DEF Goto, TypeOK, PCs
    <3>2. CASE Between(Agg(w), q, n) # {}
      BY <2>2, <2>3, <3>2 DEF Goto, TypeOK, PCs
    <3> QED BY <3>1, <3>2
  <2> QED BY <1>5, <2>7, <2>8 DEF Replay, callVars, saveVars, WorkerTypes, TypeOK
<1>6. CASE Mutate(w)
  <2>1. Decide(cmd[w], st[w]) \in State
    BY DecideType DEF TypeOK
  <2>2. pc' \in [Workers -> PCs] /\ evs' \in [Workers -> State] /\ since' \in [Workers -> Nat]
    BY <1>6, <2>1 DEF Mutate, Goto, TypeOK, PCs
  <2> QED BY <1>6, <2>2 DEF Mutate, callVars, WorkerTypes, TypeOK
<1>7. CASE LastSnapshotVersion(w)
  <2>1. mark' \in [Workers -> Nat] /\ pc' \in [Workers -> PCs]
    BY <1>7 DEF LastSnapshotVersion, Visible, Goto, TypeOK, PCs
  <2> QED BY <1>7, <2>1 DEF LastSnapshotVersion, callVars, saveVars, WorkerTypes, TypeOK
<1>8. CASE SnapshotForSave(w)
  <2>1. st[w] \o evs[w] \in State
    BY DEF TypeOK, State
  <2>2. st' \in [Workers -> State] /\ snap' \in [Workers -> BOOLEAN]
    BY <1>8, <2>1 DEF SnapshotForSave, TypeOK
  <2>3. mark' \in [Workers -> Nat] /\ pc' \in [Workers -> PCs]
    BY <1>8 DEF SnapshotForSave, Goto, TypeOK, PCs
  <2> QED BY <1>8, <2>2, <2>3 DEF SnapshotForSave, callVars, WorkerTypes, TypeOK
<1>9. CASE Stage(w)
  BY <1>9 DEF Stage, loadVars, callVars, WorkerTypes, TypeOK
<1>10. CASE Publish(w) \/ Commit(w) \/ Refuse(w)
  BY <1>10 DEF Publish, Commit, Refuse, Goto, loadVars, callVars, saveVars,
               WorkerTypes, TypeOK, PCs
<1>11. CASE Backoff(w)
  BY <1>11 DEF Backoff, Goto, callVars, saveVars, WorkerTypes, TypeOK, PCs
<1> QED
  BY <1>1, <1>2, <1>3, <1>4, <1>5, <1>6, <1>7, <1>8, <1>9, <1>10, <1>11 DEF Step, Returns

\* Putting the parts of the invariant together.
LEMMA InvFromParts ==
  ASSUME Inv, NEW a \in Aggregates, Extended(a), SnapshotCorrect', WorkerTypes',
         late' \subseteq Request,
         \A u \in Workers : WorkerInv(u)',
         \A r \in late' : r \in late \/ RequestInv(r)'
  PROVE  Inv'
<1>1. TypeOK /\ Frame
  BY DEF Inv
<1>2. TypeOK'
  BY DEF Extended, WorkerTypes, TypeOK
<1>3. Frame'
  BY <1>1, ExtendedFrame
<1>4. \A r \in late' : RequestInv(r)'
  <2> TAKE r \in late'
  <2>1. r \in Request
    OBVIOUS
  <2>2. CASE r \in late
    <3>1. RequestInv(r)
      BY <2>2 DEF Inv
    <3> QED BY <2>1, <3>1, <1>1, ExtendedRequest
  <2> QED BY <2>2
<1> QED BY <1>2, <1>3, <1>4 DEF Inv

\* Inv is inductive.
LEMMA InvInductive ==
  ASSUME Inv, [Next]_vars
  PROVE  Inv'
<1> /\ TypeOK /\ Frame /\ SnapshotCorrect
    /\ \A u \in Workers : WorkerInv(u)
    /\ \A r \in late : RequestInv(r)
    /\ late \subseteq Request
  BY DEF Inv, TypeOK
<1>1. ASSUME NEW w \in Workers, Step(w)
      PROVE  Inv'
  <2>1. PICK a \in Aggregates : Extended(a)
    BY <1>1, StepServer
  <2>2. SnapshotCorrect' /\ WorkerTypes'
    BY <1>1, StepServer, StepTypes
  <2>3. late' = late \/ (pc[w] = "await" /\ late' = late \cup {RequestOf(w)})
    BY <1>1, StepServer
  <2>4. \A u \in Workers : WorkerInv(u)'
    <3> TAKE u \in Workers
    <3>1. CASE u = w
      BY <3>1, <1>1, StepOwn
    <3>2. CASE u # w
      <4>1. SameWorker(u)
        BY <3>2, <1>1, StepOthers
      <4> QED BY <4>1, <2>1, SameWorkerInv
    <3> QED BY <3>1, <3>2
  <2>5. late' \subseteq Request
    BY <2>3, RequestOfType
  <2>6. \A r \in late' : r \in late \/ RequestInv(r)'
    <3> TAKE r \in late'
    <3>1. CASE r \notin late
      <4>1. r = RequestOf(w) /\ RequestInv(RequestOf(w)) /\ RequestOf(w) \in Request
        BY <3>1, <2>3, RequestOfType DEF WorkerInv, Requesting
      <4>2. RequestInv(r) /\ r \in Request
        BY <4>1
      <4> QED BY <4>2, <2>1, ExtendedRequest
    <3> QED BY <3>1
  <2> QED BY <2>1, <2>2, <2>4, <2>5, <2>6, InvFromParts
<1>2. ASSUME NEW w \in Workers, NEW c \in Commands, Execute(w, c)
      PROVE  Inv'
  <2>1. UNCHANGED <<stream, truth, late>> /\ AggOf[c] \in Aggregates
    BY <1>2, DomainAssumption DEF Execute, serverVars
  <2>2. Extended(AggOf[c]) /\ SnapshotCorrect'
    BY <2>1, UnchangedExtends
  <2>3. WorkerTypes'
    BY <1>2 DEF Execute, Goto, saveVars, WorkerTypes, TypeOK, PCs
  <2>4. \A u \in Workers : WorkerInv(u)'
    <3> TAKE u \in Workers
    <3>1. CASE u = w
      BY <3>1, <1>2, ExecuteInv
    <3>2. CASE u # w
      <4>1. SameWorker(u)
        BY <3>2, <1>2 DEF Execute, Goto, saveVars, SameWorker, TypeOK
      <4> QED BY <4>1, <2>1, <2>2, SameWorkerInv
    <3> QED BY <3>1, <3>2
  <2> QED BY <2>1, <2>2, <2>3, <2>4, InvFromParts
<1>3. ASSUME UNCHANGED <<pc, callVars, loadVars, saveVars>>,
             late' \subseteq late, SnapshotCorrect', \E a \in Aggregates : Extended(a)
      PROVE  Inv'
  <2>1. PICK a \in Aggregates : Extended(a)
    BY <1>3
  <2>2. WorkerTypes'
    BY <1>3 DEF callVars, loadVars, saveVars, WorkerTypes, TypeOK
  <2>3. \A u \in Workers : SameWorker(u)
    BY <1>3 DEF callVars, loadVars, saveVars, SameWorker
  <2>4. \A u \in Workers : WorkerInv(u)'
    BY <2>1, <2>3, SameWorkerInv
  <2> QED BY <1>3, <2>1, <2>2, <2>4, InvFromParts
<1>4. ASSUME NEW r \in late, CommitLate(r)
      PROVE  Inv'
  <2>1. r \in Request /\ RequestInv(r) /\ AggOf[r.cmd] \in Aggregates
    BY DomainAssumption DEF Request
  <2>2. IsLastSequence(AggOf[r.cmd], r.exp) /\ AppendBatch(r)
    BY <1>4 DEF CommitLate
  <2>3. Len(r.evs) > 0
    BY <2>1 DEF RequestInv, Request, State
  <2>4. Extended(AggOf[r.cmd])
    BY <2>1, <2>2, <2>3, AppendBatchShape
  <2>5. SnapshotCorrect'
    BY <2>1, <2>2, <2>3, AppendBatchSnapshot
  <2>6. UNCHANGED <<pc, callVars, loadVars, saveVars>> /\ late' \subseteq late
    BY <1>4 DEF CommitLate
  <2> QED BY <2>1, <2>4, <2>5, <2>6, <1>3
<1>5. ASSUME NEW r \in late, DropLate(r)
      PROVE  Inv'
  <2>1. AggOf[r.cmd] \in Aggregates
    BY DomainAssumption DEF Request
  <2>2. UNCHANGED <<stream, truth>>
    BY <1>5 DEF DropLate
  <2>3. Extended(AggOf[r.cmd]) /\ SnapshotCorrect'
    BY <2>1, <2>2, UnchangedExtends
  <2>4. UNCHANGED <<pc, callVars, loadVars, saveVars>> /\ late' \subseteq late
    BY <1>5 DEF DropLate
  <2> QED BY <2>1, <2>3, <2>4, <1>3
<1>6. ASSUME NEW a \in Aggregates, NEW e \in Foreign, PublishForeign(a, e)
      PROVE  Inv'
  <2>1. Extended(a) /\ SnapshotCorrect'
    BY <1>6, PublishForeignShape
  <2>2. UNCHANGED <<pc, callVars, loadVars, saveVars>> /\ late' \subseteq late
    BY <1>6 DEF PublishForeign
  <2> QED BY <2>1, <2>2, <1>3
<1>7. CASE UNCHANGED vars
  <2>1. PICK c \in Commands : TRUE
    BY StoreAssumption
  <2>2. AggOf[c] \in Aggregates
    BY DomainAssumption
  <2>3. UNCHANGED <<stream, truth>>
    BY <1>7 DEF vars
  <2>4. Extended(AggOf[c]) /\ SnapshotCorrect'
    BY <2>2, <2>3, UnchangedExtends
  <2>5. UNCHANGED <<pc, callVars, loadVars, saveVars>> /\ late' \subseteq late
    BY <1>7 DEF vars, callVars, loadVars, saveVars
  <2> QED BY <2>2, <2>4, <2>5, <1>3
<1> QED BY <1>1, <1>2, <1>4, <1>5, <1>6, <1>7 DEF Next

LEMMA InitInv == Init => Inv
<1> SUFFICES ASSUME Init PROVE Inv
  OBVIOUS
<1>1. (CHOOSE c \in Commands : TRUE) \in Commands
  BY StoreAssumption
<1>2. <<>> \in State /\ 0 \in 0..(MaxAttempts - 1)
  BY StoreAssumption DEF State
<1>3. TypeOK
  BY <1>1, <1>2 DEF Init, TypeOK, PCs
<1>4. Len(stream) = 0
  BY DEF Init
<1>5. Frame
  BY <1>4 DEF Frame
<1>6. SnapshotCorrect
  BY <1>4 DEF SnapshotCorrect, TruthIsReplay
<1>7. ASSUME NEW w \in Workers
      PROVE  WorkerInv(w)
  <2>1. pc[w] = "idle" /\ st[w] = <<>> /\ ver[w] = 0 /\ snap[w] = FALSE
    BY DEF Init
  <2>2. /\ pc[w] \notin Loading \cup Counting /\ pc[w] # "replay"
        /\ pc[w] \notin Counting /\ pc[w] \notin Requesting /\ pc[w] # "conflicted"
    BY <2>1 DEF Loading, Counting, Requesting
  <2> QED BY <2>1, <2>2, Zenon DEF WorkerInv
<1>8. late = {}
  BY DEF Init
<1> QED BY <1>3, <1>5, <1>6, <1>7, <1>8 DEF Inv

-----------------------------------------------------------------------------
(* Theorems *)

\* Inv holds in every reachable state, for every instance of the constants.
THEOREM Invariance == Spec => []Inv
<1>1. Inv /\ [Next]_vars => Inv'
  BY InvInductive
<1> QED BY <1>1, InitInv, PTL DEF Spec

\* Every variable of Execute and of the store keeps its type.
THEOREM TypeCorrect == Spec => []TypeOK
<1>1. Inv => TypeOK
  BY DEF Inv
<1> QED BY <1>1, Invariance, PTL

\* Load gives mutate an aggregate value that existed, at the version it returns.
THEOREM LoadIsConsistent == Spec => []LoadConsistent
<1>1. Inv => LoadConsistent
  BY DEF Inv, WorkerInv, LoadConsistent, Loading
<1> QED BY <1>1, Invariance, PTL

\* Every snapshot Save writes equals the replay of the events before it.
THEOREM SnapshotsAreCorrect == Spec => []SnapshotCorrect
<1>1. Inv => SnapshotCorrect
  BY DEF Inv
<1> QED BY <1>1, Invariance, PTL

\* The store reports a conflict only when the aggregate did move on.
THEOREM ConflictsHaveCauses == Spec => []ConflictHasCause
<1>1. Inv => ConflictHasCause
  BY DEF Inv, WorkerInv, ConflictHasCause
<1> QED BY <1>1, Invariance, PTL

-----------------------------------------------------------------------------
(* The log grows *)

\* s is how t begins.
Prefix(s, t) == Len(s) <= Len(t) /\ \A i \in 1..Len(s) : s[i] = t[i]

\* A set of numbers that is not empty has a least element.
LEMMA LeastNat ==
  ASSUME NEW S \in SUBSET Nat, S # {}
  PROVE  \E x \in S : \A y \in S : x <= y
<1> DEFINE Less == {ss \in Nat \X Nat : ss[1] < ss[2]}
<1>1. IsWellFoundedOn(Less, Nat)
  BY NatLessThanWellFounded DEF OpToRel
<1> HIDE DEF Less
<1>2. PICK x \in S : \A y \in S : ~(<<y, x>> \in Less)
  BY <1>1, WFMin
<1>3. \A u, v \in Nat : <<v, u>> \in Less <=> v < u
  BY DEF Less
<1>4. \A y \in S : x \in Nat /\ y \in Nat /\ ~(y < x)
  BY <1>2, <1>3, Zenon
<1> QED
  BY <1>4

\* Every version of an aggregate is typed.
LEMMA AtType ==
  ASSUME TypeOK, NEW n \in 0..Len(stream)
  PROVE  At(n) \in [Aggregates -> State]
<1>1. CASE n = 0
  BY <1>1 DEF At, State
<1>2. CASE n # 0
  <2>1. n \in 1..Len(truth)
    BY <1>2 DEF TypeOK
  <2>2. truth[n] \in [Aggregates -> State]
    BY <2>1 DEF TypeOK
  <2> QED
    BY <1>2, <2>2 DEF At
<1> QED
  BY <1>1, <1>2

LEMMA PrefixConcat ==
  ASSUME NEW S, NEW r \in Seq(S), NEW s \in Seq(S), NEW t \in Seq(S), Prefix(r, s)
  PROVE  Prefix(r, s \o t)
BY DEF Prefix

\* An aggregate's earlier version is how its later versions begin: by the
\* least later version of which that is not true.
LEMMA Grows ==
  ASSUME TypeOK, TruthIsReplay, NEW a \in Aggregates,
         NEW p \in 0..Len(stream), NEW q \in 0..Len(stream), p <= q
  PROVE  Prefix(At(p)[a], At(q)[a])
<1> DEFINE Bad == {n \in p..Len(stream) : ~Prefix(At(p)[a], At(n)[a])}
<1>1. Len(stream) \in Nat
  BY DEF TypeOK
<1>2. SUFFICES ASSUME Bad # {}
               PROVE  FALSE
  BY <1>1
<1>3. PICK n \in Bad : \A m \in Bad : n <= m
  <2>1. Bad \in SUBSET Nat
    BY <1>1
  <2> HIDE DEF Bad
  <2> QED
    BY <1>2, <2>1, LeastNat
<1>4. n \in p..Len(stream) /\ ~Prefix(At(p)[a], At(n)[a])
  OBVIOUS
<1>5. \A m \in 0..Len(stream) : At(m)[a] \in Seq(Events)
  BY AtType DEF State
<1>6. n # p
  <2>1. Prefix(At(p)[a], At(p)[a])
    BY <1>5 DEF Prefix
  <2> QED
    BY <1>4, <2>1
<1>7. n - 1 \in p..Len(stream) /\ n \in 1..Len(stream) /\ ~(n <= n - 1)
  BY <1>1, <1>4, <1>6
<1>8. Prefix(At(p)[a], At(n - 1)[a])
  <2>1. n - 1 \notin Bad
    BY <1>3, <1>7
  <2> QED
    BY <1>7, <2>1
<1>9. At(n)[a] = At(n - 1)[a] \o EventAt(n, a)
  BY <1>7 DEF TruthIsReplay
<1>10. EventAt(n, a) \in Seq(Events)
  <2>1. stream[n] \in Message
    BY <1>7 DEF TypeOK
  <2>2. stream[n].body \in Seq(Events) /\ <<>> \in Seq(Events)
    BY <2>1 DEF Message, State
  <2> QED
    BY <2>2 DEF EventAt
<1>11. n - 1 \in 0..Len(stream)
  BY <1>7
<1> HIDE DEF Bad
<1>12. Prefix(At(p)[a], At(n - 1)[a] \o EventAt(n, a))
  BY <1>5, <1>8, <1>10, <1>11, PrefixConcat
<1> QED
  BY <1>4, <1>9, <1>12

\* What is in an earlier version of an aggregate is in it now.
LEMMA StillHas ==
  ASSUME TypeOK, TruthIsReplay, NEW a \in Aggregates, NEW p \in 0..Len(stream),
         NEW e, Has(At(p)[a], e)
  PROVE  Has(Now[a], e)
<1>1. Len(stream) \in 0..Len(stream) /\ p <= Len(stream)
  BY DEF TypeOK
<1>2. Prefix(At(p)[a], Now[a])
  BY <1>1, Grows DEF Now
<1>3. At(p)[a] \in Seq(Events) /\ Now[a] \in Seq(Events)
  BY <1>1, AtType DEF Now, State
<1> QED
  BY <1>2, <1>3 DEF Prefix, Has

\* A Save that passes the version check appends to the log exactly what mutate
\* decides on for the log as it is.
LEMMA SaveAppends ==
  ASSUME Inv, NEW r \in Request, RequestInv(r),
         IsLastSequence(AggOf[r.cmd], r.exp), AppendBatch(r)
  PROVE  /\ Decide(r.cmd, Now[AggOf[r.cmd]]) # <<>>
         /\ Now' = [Now EXCEPT ![AggOf[r.cmd]] = @ \o Decide(r.cmd, @)]
<1> DEFINE a == AggOf[r.cmd]
<1>1. a \in Aggregates /\ r.evs \in Seq(Events) /\ r.evs # <<>> /\ r.cmd \in Commands
  BY DomainAssumption DEF Request, RequestInv, State
<1>2. Len(r.evs) \in Nat /\ Len(r.evs) > 0
  BY <1>1
<1>3. At(r.exp)[a] = Now[a]
  BY <1>1, LastSequenceIsNow DEF Inv
<1>4. r.evs = Decide(r.cmd, Now[a])
  BY <1>3 DEF RequestInv
<1>5. /\ Size(r) \in Nat /\ Size(r) > 0 /\ Len(stream) \in Nat
      /\ Now \in [Aggregates -> State]
  BY <1>2, BatchType DEF Inv, TypeOK
<1>6. /\ Len(stream') = Len(stream) + Size(r)
      /\ truth'[Len(stream) + Size(r)] = [Now EXCEPT ![a] = @ \o HistoryOf(r, Size(r))]
  <2>1. /\ Len(stream') = Len(stream) + Size(r)
        /\ \A i \in 1..Size(r) :
             truth'[Len(stream) + i] = [Now EXCEPT ![a] = @ \o HistoryOf(r, i)]
    BY <1>2, AppendBatchShape DEF Inv
  <2>2. Size(r) \in 1..Size(r)
    BY <1>5
  <2> QED
    BY <2>1, <2>2
<1>7. Now' = truth'[Len(stream) + Size(r)]
  <2>1. Len(stream) + Size(r) # 0
    BY <1>5
  <2> QED
    BY <1>6, <2>1 DEF Now, At
<1>8. HistoryOf(r, Size(r)) = r.evs
  <2>1. CASE r.snap
    <3>1. Size(r) = Len(r.evs) + 1
      BY <2>1, Zenon DEF Size
    <3> QED
      BY <1>2, <3>1 DEF HistoryOf
  <2>2. CASE ~r.snap
    <3>1. Size(r) = Len(r.evs) + 0
      BY <2>2, Zenon DEF Size
    <3>2. SubSeq(r.evs, 1, Len(r.evs)) = r.evs
      BY <1>1
    <3>3. Size(r) = Len(r.evs) /\ ~(Size(r) > Len(r.evs))
      BY <1>2, <3>1
    <3> QED
      BY <3>2, <3>3, Zenon DEF HistoryOf
  <2> QED
    BY <2>1, <2>2
<1> QED
  BY <1>1, <1>4, <1>6, <1>7, <1>8, Zenon

\* Only a commit of its request changes the log in a step of a worker.
LEMMA StepLeaves ==
  ASSUME NEW w \in Workers, Step(w), ~Commit(w)
  PROVE  UNCHANGED <<stream, truth>>
<1>1. CASE Returns(w)
  BY <1>1, ReturnsShape DEF Return
<1>2. CASE ~Returns(w)
  BY <1>2 DEF Returns, Step, LoadSnapshot, OpenConsumer, Replay, Mutate, LastSnapshotVersion,
              SnapshotForSave, Stage, Publish, Refuse, Retry, Backoff, serverVars
<1> QED
  BY <1>1, <1>2

LEMMA NowUnchanged ==
  ASSUME UNCHANGED <<stream, truth>>
  PROVE  Now' = Now
BY DEF Now, At

LEMMA NowType ==
  ASSUME TypeOK
  PROVE  Now \in [Aggregates -> Seq(Events)]
<1>1. Len(stream) \in 0..Len(stream)
  BY DEF TypeOK
<1> QED
  BY <1>1, AtType DEF Now, State

NowTyped == Now \in [Aggregates -> Seq(Events)]
LEMMA NowTypeNext == TypeOK' => NowTyped'
<1>1. TypeOK => NowTyped
  BY NowType DEF NowTyped
<1> QED
  BY <1>1, PTL

\* The outcome of a command becomes part of the log.
Applied(c) ==
  /\ Decide(c, Now[AggOf[c]]) # <<>>
  /\ Now' = [Now EXCEPT ![AggOf[c]] = @ \o Decide(c, @)]

LEMMA CommitApplies ==
  ASSUME Inv, NEW w \in Workers, Commit(w)
  PROVE  Applied(cmd[w])
<1>1. RequestOf(w) \in Request /\ RequestInv(RequestOf(w))
  BY RequestOfType DEF Inv, WorkerInv, Requesting, Commit
<1>2. RequestOf(w).cmd = cmd[w] /\ RequestOf(w).exp = ver[w]
  BY DEF RequestOf
<1>3. IsLastSequence(AggOf[RequestOf(w).cmd], RequestOf(w).exp) /\ AppendBatch(RequestOf(w))
  BY <1>2 DEF Commit, Agg
<1> QED
  BY <1>1, <1>2, <1>3, SaveAppends DEF Applied

LEMMA LateApplies ==
  ASSUME Inv, NEW r \in late, CommitLate(r)
  PROVE  Applied(r.cmd)
<1>1. r \in Request /\ RequestInv(r)
  BY DEF Inv, TypeOK
<1> QED
  BY <1>1, SaveAppends DEF Applied, CommitLate

LEMMA ForeignAppends ==
  ASSUME TypeOK, NEW a \in Aggregates, NEW e \in Foreign, PublishForeign(a, e)
  PROVE  Now' = [Now EXCEPT ![a] = Append(@, e)]
<1>1. Len(stream') = Len(stream) + 1 /\ Len(stream) + 1 # 0
  BY DEF PublishForeign, TypeOK
<1>2. truth'[Len(stream) + 1] = [Now EXCEPT ![a] = Append(@, e)]
  BY DEF PublishForeign, TypeOK
<1> QED
  BY <1>1, <1>2 DEF Now, At

\* All that a step may do to the log.
LEMMA LogEffect ==
  ASSUME Inv, [Next]_vars
  PROVE  \/ Now' = Now
         \/ \E c \in Commands : Applied(c)
         \/ \E a \in Aggregates, e \in Foreign : Now' = [Now EXCEPT ![a] = Append(@, e)]
<1>1. TypeOK
  BY DEF Inv
<1>2. ASSUME NEW w \in Workers, Step(w) \/ \E c \in Commands : Execute(w, c)
      PROVE  Now' = Now \/ \E c \in Commands : Applied(c)
  <2>1. CASE Commit(w)
    BY <1>1, <2>1, CommitApplies DEF TypeOK
  <2>2. CASE Step(w) /\ ~Commit(w)
    BY <2>2, StepLeaves, NowUnchanged
  <2>3. CASE \E c \in Commands : Execute(w, c)
    BY <2>3, NowUnchanged DEF Execute, serverVars
  <2> QED
    BY <1>2, <2>1, <2>2, <2>3
<1>3. ASSUME NEW r \in late, CommitLate(r) \/ DropLate(r)
      PROVE  Now' = Now \/ \E c \in Commands : Applied(c)
  <2>1. r.cmd \in Commands
    BY <1>1 DEF TypeOK, Request
  <2> QED
    BY <1>3, <2>1, LateApplies, NowUnchanged DEF DropLate
<1>4. CASE UNCHANGED vars
  BY <1>4, NowUnchanged DEF vars
<1> QED
  BY <1>1, <1>2, <1>3, <1>4, ForeignAppends DEF Next

\* Every step of the system appends to the log, or leaves it alone.
LEMMA LogGrows ==
  ASSUME Inv, [Next]_vars, NEW a \in Aggregates
  PROVE  Prefix(Now[a], Now'[a])
<1>1. Now \in [Aggregates -> Seq(Events)]
  BY NowType DEF Inv
<1>2. CASE Now' = Now
  BY <1>1, <1>2 DEF Prefix
<1>3. ASSUME NEW c \in Commands, Applied(c)
      PROVE  Prefix(Now[a], Now'[a])
  <2>1. Decide(c, Now[AggOf[c]]) \in Seq(Events)
    BY DecideType DEF State
  <2>2. Now'[a] = IF a = AggOf[c] THEN Now[a] \o Decide(c, Now[AggOf[c]]) ELSE Now[a]
    BY <1>1, <1>3 DEF Applied
  <2>3. Now[a] \in Seq(Events) /\ Prefix(Now[a], Now[a])
    BY <1>1 DEF Prefix
  <2> QED
    BY <2>1, <2>2, <2>3, PrefixConcat
<1>4. ASSUME NEW b \in Aggregates, NEW e \in Foreign, Now' = [Now EXCEPT ![b] = Append(@, e)]
      PROVE  Prefix(Now[a], Now'[a])
  <2>1. Now'[a] = IF a = b THEN Append(Now[a], e) ELSE Now[a]
    BY <1>1, <1>4
  <2>2. Now[a] \in Seq(Events) /\ e \in Events
    BY <1>1, StoreAssumption
  <2> QED
    BY <2>1, <2>2 DEF Prefix
<1> QED
  BY <1>2, <1>3, <1>4, LogEffect

-----------------------------------------------------------------------------
(* Execute implements AggregateLog *)

\* The refinement mapping of Log.
PhaseOf(p) == CASE p = "idle" -> "idle" [] p = "acked" -> "applied" [] OTHER -> "running"
ResultOf(r) == IF r = "snapshot_error" THEN "error" ELSE r
LogPhase == [w \in Workers |-> CASE pc[w] = "idle"  -> "idle"
                                 [] pc[w] = "acked" -> "applied"
                                 [] OTHER           -> "running"]
LogResult == [w \in Workers |-> IF result[w] = "snapshot_error" THEN "error" ELSE result[w]]
LogDoubt == [c \in Commands |-> Cardinality({r \in late : r.cmd = c})]

\* What the mapping makes of an assignment to pc[w], and to result[w].
LEMMA PhaseStep ==
  ASSUME TypeOK, NEW w \in Workers, NEW p \in PCs, Goto(w, p)
  PROVE  LogPhase' = [LogPhase EXCEPT ![w] = PhaseOf(p)]
BY DEF TypeOK, Goto, LogPhase, PhaseOf

LEMMA ResultStep ==
  ASSUME TypeOK, NEW w \in Workers, NEW r, result' = [result EXCEPT ![w] = r]
  PROVE  LogResult' = [LogResult EXCEPT ![w] = ResultOf(r)]
BY DEF TypeOK, LogResult, ResultOf

\* What it makes of a request that is added to late, or taken from it.
LEMMA DoubtAdded ==
  ASSUME IsFiniteSet(late), NEW r, r.cmd \in Commands, r \notin late, late' = late \cup {r}
  PROVE  LogDoubt' = [LogDoubt EXCEPT ![r.cmd] = @ + 1]
<1> DEFINE D(c) == {s \in late : s.cmd = c}
<1>1. \A c : {s \in late' : s.cmd = c} = IF c = r.cmd THEN D(c) \cup {r} ELSE D(c)
  OBVIOUS
<1>2. IsFiniteSet(D(r.cmd)) /\ r \notin D(r.cmd)
  BY FS_Subset
<1> HIDE DEF D
<1>3. Cardinality(D(r.cmd) \cup {r}) = Cardinality(D(r.cmd)) + 1
  BY <1>2, FS_AddElement
<1>4. LogDoubt' = [c \in Commands |-> IF c = r.cmd THEN Cardinality(D(c)) + 1
                                                  ELSE Cardinality(D(c))]
  BY <1>1, <1>3, Zenon DEF LogDoubt
<1>5. LogDoubt = [c \in Commands |-> Cardinality(D(c))]
  BY DEF LogDoubt, D
<1> QED
  BY <1>4, <1>5

LEMMA DoubtResolved ==
  ASSUME IsFiniteSet(late), NEW r \in late, r.cmd \in Commands, late' = late \ {r}
  PROVE  LogDoubt[r.cmd] > 0 /\ LogDoubt' = [LogDoubt EXCEPT ![r.cmd] = @ - 1]
<1> DEFINE D(c) == {s \in late : s.cmd = c}
<1>1. \A c : {s \in late' : s.cmd = c} = IF c = r.cmd THEN D(c) \ {r} ELSE D(c)
  OBVIOUS
<1>2. IsFiniteSet(D(r.cmd)) /\ r \in D(r.cmd)
  BY FS_Subset
<1> HIDE DEF D
<1>3. /\ Cardinality(D(r.cmd) \ {r}) = Cardinality(D(r.cmd)) - 1
      /\ Cardinality(D(r.cmd)) \in Nat /\ Cardinality(D(r.cmd)) # 0
  BY <1>2, FS_RemoveElement, FS_EmptySet, FS_CardinalityType
<1>4. LogDoubt' = [c \in Commands |-> IF c = r.cmd THEN Cardinality(D(c)) - 1
                                                  ELSE Cardinality(D(c))]
  BY <1>1, <1>3, Zenon DEF LogDoubt
<1>5. LogDoubt = [c \in Commands |-> Cardinality(D(c))]
  BY DEF LogDoubt, D
<1> QED
  BY <1>3, <1>4, <1>5

\* A step between two program counters of a running call is invisible.
LEMMA InternalStep ==
  ASSUME TypeOK, NEW w \in Workers, NEW p \in PCs \ {"idle", "acked"}, Goto(w, p),
         pc[w] \notin {"idle", "acked"}, UNCHANGED <<stream, truth, late, cmd, result>>
  PROVE  UNCHANGED Log!vars
<1>1. PhaseOf(p) = "running" /\ LogPhase[w] = "running"
  BY DEF PhaseOf, LogPhase
<1>2. LogPhase' = [LogPhase EXCEPT ![w] = "running"]
  BY <1>1, PhaseStep
<1>3. LogPhase' = LogPhase
  BY <1>1, <1>2 DEF LogPhase
<1>4. Now' = Now
  BY NowUnchanged
<1>5. LogResult' = LogResult /\ LogDoubt' = LogDoubt
  BY DEF LogResult, LogDoubt
<1> QED
  BY <1>3, <1>4, <1>5 DEF Log!vars, LogPhase, LogResult, LogDoubt

\* What a returning call looks like from outside.
LEMMA ReturnMapped ==
  ASSUME TypeOK, NEW w \in Workers, NEW r, Return(w, r)
  PROVE  /\ LogPhase' = [LogPhase EXCEPT ![w] = "idle"]
         /\ LogResult' = [LogResult EXCEPT ![w] = ResultOf(r)]
         /\ Now' = Now /\ cmd' = cmd
<1>1. LogPhase' = [LogPhase EXCEPT ![w] = PhaseOf("idle")]
  BY PhaseStep DEF Return, PCs
<1>2. PhaseOf("idle") = "idle"
  BY DEF PhaseOf
<1>3. LogResult' = [LogResult EXCEPT ![w] = ResultOf(r)]
  BY ResultStep DEF Return
<1>4. Now' = Now /\ cmd' = cmd
  BY NowUnchanged DEF Return
<1> QED
  BY <1>1, <1>2, <1>3, <1>4

LEMMA ErrorMapped ==
  ASSUME TypeOK, NEW w \in Workers, NEW r \in {"error", "snapshot_error"}, Return(w, r),
         pc[w] # "idle",
         \/ LogDoubt' = LogDoubt
         \/ LogPhase[w] = "running" /\ LogDoubt' = [LogDoubt EXCEPT ![cmd[w]] = @ + 1]
  PROVE  Log!ReturnError(w)
<1>1. LogPhase[w] # "idle"
  BY DEF LogPhase
<1>2. ResultOf(r) = "error"
  BY DEF ResultOf
<1>3. /\ LogPhase' = [LogPhase EXCEPT ![w] = "idle"]
      /\ LogResult' = [LogResult EXCEPT ![w] = "error"]
      /\ Now' = Now /\ cmd' = cmd
  BY <1>2, ReturnMapped
<1> QED
  BY <1>1, <1>3, Zenon DEF Log!ReturnError, Log!Return, LogPhase, LogResult, LogDoubt

LEMMA OkMapped ==
  ASSUME TypeOK, NEW w \in Workers, Return(w, "ok"), late' = late,
         \/ LogPhase[w] = "applied"
         \/ LogPhase[w] = "running" /\ Decide(cmd[w], Now[AggOf[cmd[w]]]) = <<>>
  PROVE  Log!ReturnOk(w)
<1>1. ResultOf("ok") = "ok" /\ LogDoubt' = LogDoubt
  BY DEF ResultOf, LogDoubt
<1>2. /\ LogPhase' = [LogPhase EXCEPT ![w] = "idle"]
      /\ LogResult' = [LogResult EXCEPT ![w] = "ok"]
      /\ Now' = Now /\ cmd' = cmd
  BY <1>1, ReturnMapped
<1>3. Decide(cmd[w], Now[AggOf[cmd[w]]]) = Log!Decide(cmd[w], Now[AggOf[cmd[w]]])
  BY DEF Decide, Log!Decide, Has, Log!Has
<1> QED
  BY <1>1, <1>2, <1>3, Zenon DEF Log!ReturnOk, Log!Return, LogPhase, LogResult, LogDoubt

LEMMA AppliedMapped ==
  ASSUME NEW c \in Commands, Applied(c)
  PROVE  Log!Append1(c)
BY DEF Applied, Log!Append1, Decide, Log!Decide, Has, Log!Has

\* mutate found nothing to do in the version that was loaded; there is nothing
\* to do in the log of this instant either.
LEMMA NothingMapped ==
  ASSUME Inv, NEW w \in Workers, MutateNothing(w)
  PROVE  Log!ReturnOk(w)
<1> DEFINE c == cmd[w]
           a == AggOf[c]
<1>1. TypeOK /\ TruthIsReplay /\ WorkerInv(w)
  BY DEF Inv, SnapshotCorrect
<1>2. c \in Commands /\ a \in Aggregates
  BY <1>1, DomainAssumption DEF TypeOK
<1>3. /\ pc[w] = "mutate" /\ Decide(c, st[w]) = <<>>
      /\ Return(w, "ok") /\ late' = late
  BY DEF MutateNothing
<1>4. ver[w] \in 0..Len(stream) /\ st[w] = At(ver[w])[a]
  BY <1>1, <1>3 DEF WorkerInv, Loading, Agg, IsVersion
<1>5. Outcome[c] # <<>>
  BY <1>2, DomainAssumption
<1>6. c \in Idempotent /\ Has(At(ver[w])[a], Outcome[c][1])
  BY <1>3, <1>4, <1>5 DEF Decide
<1>7. Has(Now[a], Outcome[c][1])
  BY <1>1, <1>2, <1>4, <1>6, StillHas
<1>8. Decide(c, Now[a]) = <<>>
  BY <1>6, <1>7 DEF Decide
<1>9. LogPhase[w] = "running"
  BY <1>3 DEF LogPhase
<1> QED
  BY <1>1, <1>3, <1>8, <1>9, OkMapped

LEMMA CommitMapped ==
  ASSUME Inv, NEW w \in Workers, Commit(w)
  PROVE  Log!Apply(w)
<1>1. /\ TypeOK /\ cmd[w] \in Commands
      /\ pc[w] = "await" /\ Goto(w, "acked") /\ UNCHANGED <<late, callVars>>
  BY DEF Inv, TypeOK, Commit
<1>2. LogPhase[w] = "running" /\ PhaseOf("acked") = "applied" /\ "acked" \in PCs
  BY <1>1 DEF LogPhase, PhaseOf, PCs
<1>3. LogPhase' = [LogPhase EXCEPT ![w] = "applied"]
  BY <1>1, <1>2, PhaseStep
<1>4. cmd' = cmd /\ LogResult' = LogResult /\ LogDoubt' = LogDoubt
  BY <1>1 DEF callVars, LogResult, LogDoubt
<1>5. Log!Append1(cmd[w])
  BY <1>1, CommitApplies, AppliedMapped
<1> QED
  BY <1>2, <1>3, <1>4, <1>5, Zenon DEF Log!Apply, LogPhase, LogResult, LogDoubt

\* A timeout: the request is lost, was already in doubt, or is in doubt now.
LEMMA TimeoutMapped ==
  ASSUME Inv, IsFiniteSet(late), NEW w \in Workers, FailPublish(w)
  PROVE  Log!ReturnError(w)
<1>1. /\ TypeOK /\ pc[w] \in {"publish", "await", "acked", "conflicted"}
      /\ Return(w, "error")
      /\ late' = late \/ (pc[w] = "await" /\ late' = late \cup {RequestOf(w)})
  BY DEF Inv, FailPublish
<1>2. RequestOf(w).cmd = cmd[w] /\ cmd[w] \in Commands
  BY <1>1 DEF TypeOK, RequestOf
<1>3. CASE late' = late
  BY <1>1, <1>3, ErrorMapped DEF LogDoubt
<1>4. CASE late' # late
  <2>1. pc[w] = "await" /\ late' = late \cup {RequestOf(w)} /\ RequestOf(w) \notin late
    BY <1>1, <1>4
  <2>2. LogDoubt' = [LogDoubt EXCEPT ![cmd[w]] = @ + 1]
    BY <1>2, <2>1, DoubtAdded
  <2>3. LogPhase[w] = "running"
    BY <2>1 DEF LogPhase
  <2> QED
    BY <1>1, <2>2, <2>3, ErrorMapped
<1> QED
  BY <1>3, <1>4

LEMMA ReturnsMapped ==
  ASSUME Inv, IsFiniteSet(late), NEW w \in Workers, Returns(w)
  PROVE  Log!ReturnOk(w) \/ Log!ReturnConflict(w) \/ Log!ReturnError(w)
<1>1. TypeOK
  BY DEF Inv
<1>2. CASE FailLoad(w) \/ FailMutate(w) \/ FailSnapshot(w) \/ CancelBackoff(w)
  <2>1. /\ \E r \in {"error", "snapshot_error"} : Return(w, r)
        /\ pc[w] # "idle" /\ late' = late
    BY <1>2 DEF FailLoad, FailMutate, FailSnapshot, CancelBackoff
  <2>2. LogDoubt' = LogDoubt
    BY <2>1 DEF LogDoubt
  <2> QED
    BY <1>1, <2>1, <2>2, ErrorMapped
<1>3. CASE SaveOk(w)
  <2>1. LogPhase[w] = "applied" /\ Return(w, "ok") /\ late' = late
    BY <1>3 DEF SaveOk, LogPhase
  <2> QED
    BY <1>1, <2>1, OkMapped
<1>4. CASE Exhausted(w)
  <2>1. LogPhase[w] = "running" /\ Return(w, "conflict") /\ late' = late
    BY <1>4 DEF Exhausted, LogPhase
  <2>2. ResultOf("conflict") = "conflict" /\ LogDoubt' = LogDoubt
    BY <2>1 DEF ResultOf, LogDoubt
  <2>3. /\ LogPhase' = [LogPhase EXCEPT ![w] = "idle"]
        /\ LogResult' = [LogResult EXCEPT ![w] = "conflict"]
        /\ Now' = Now /\ cmd' = cmd
    BY <1>1, <2>1, <2>2, ReturnMapped
  <2> QED
    BY <2>1, <2>2, <2>3, Zenon
    DEF Log!ReturnConflict, Log!Return, LogPhase, LogResult, LogDoubt
<1> QED
  BY <1>2, <1>3, <1>4, NothingMapped, TimeoutMapped DEF Returns

LEMMA WorkerMapped ==
  ASSUME Inv, IsFiniteSet(late), NEW w \in Workers, Step(w)
  PROVE  [Log!Next]_(Log!vars)
<1>1. TypeOK
  BY DEF Inv
<1>2. CASE Returns(w)
  BY <1>2, ReturnsMapped DEF Log!Next
<1>3. CASE Commit(w)
  BY <1>3, CommitMapped DEF Log!Next
<1>4. CASE LoadSnapshot(w) \/ OpenConsumer(w) \/ Replay(w) \/ Mutate(w)
  <2>1. /\ \E p \in PCs \ {"idle", "acked"} : Goto(w, p)
        /\ pc[w] \notin {"idle", "acked"} /\ UNCHANGED <<stream, truth, late, cmd, result>>
    BY <1>1, <1>4 DEF LoadSnapshot, OpenConsumer, Replay, Mutate, Goto, PCs, TypeOK,
                      serverVars, callVars
  <2> QED
    BY <1>1, <2>1, InternalStep
<1>5. CASE LastSnapshotVersion(w) \/ SnapshotForSave(w) \/ Publish(w) \/ Stage(w)
  <2>1. /\ \E p \in PCs \ {"idle", "acked"} : Goto(w, p)
        /\ pc[w] \notin {"idle", "acked"} /\ UNCHANGED <<stream, truth, late, cmd, result>>
    BY <1>1, <1>5 DEF LastSnapshotVersion, SnapshotForSave, Publish, Stage, Goto, PCs,
                      TypeOK, serverVars, callVars
  <2> QED
    BY <1>1, <2>1, InternalStep
<1>6. CASE Refuse(w) \/ Retry(w) \/ Backoff(w)
  <2>1. /\ \E p \in PCs \ {"idle", "acked"} : Goto(w, p)
        /\ pc[w] \notin {"idle", "acked"} /\ UNCHANGED <<stream, truth, late, cmd, result>>
    BY <1>1, <1>6 DEF Refuse, Retry, Backoff, Goto, PCs, TypeOK, serverVars, callVars
  <2> QED
    BY <1>1, <2>1, InternalStep
<1> QED
  BY <1>2, <1>3, <1>4, <1>5, <1>6 DEF Step, Returns

LEMMA ExecuteMapped ==
  ASSUME Inv, NEW w \in Workers, NEW c \in Commands, Execute(w, c)
  PROVE  Log!Call(w, c)
<1>1. /\ TypeOK /\ pc[w] = "idle" /\ Goto(w, "load") /\ cmd' = [cmd EXCEPT ![w] = c]
      /\ result' = [result EXCEPT ![w] = "none"] /\ UNCHANGED <<stream, truth, late>>
  BY DEF Inv, Execute, serverVars
<1>2. LogPhase[w] = "idle" /\ PhaseOf("load") = "running" /\ ResultOf("none") = "none"
  BY <1>1 DEF LogPhase, PhaseOf, ResultOf
<1>3. LogPhase' = [LogPhase EXCEPT ![w] = "running"]
  BY <1>1, <1>2, PhaseStep DEF PCs
<1>4. LogResult' = [LogResult EXCEPT ![w] = "none"]
  BY <1>1, <1>2, ResultStep
<1>5. Now' = Now /\ LogDoubt' = LogDoubt
  BY <1>1, NowUnchanged DEF LogDoubt
<1> QED
  BY <1>1, <1>2, <1>3, <1>4, <1>5, Zenon DEF Log!Call, LogPhase, LogResult, LogDoubt

LEMMA LateMapped ==
  ASSUME Inv, IsFiniteSet(late), NEW r \in late, CommitLate(r) \/ DropLate(r)
  PROVE  Log!Resolve(r.cmd)
<1>1. r.cmd \in Commands /\ late' = late \ {r} /\ UNCHANGED <<pc, callVars>>
  BY DEF Inv, TypeOK, Request, CommitLate, DropLate
<1>2. LogDoubt[r.cmd] > 0 /\ LogDoubt' = [LogDoubt EXCEPT ![r.cmd] = @ - 1]
  BY <1>1, DoubtResolved
<1>3. LogPhase' = LogPhase /\ LogResult' = LogResult /\ cmd' = cmd
  BY <1>1 DEF LogPhase, LogResult, callVars
<1>4. Log!Append1(r.cmd) \/ Now' = Now
  BY <1>1, LateApplies, AppliedMapped, NowUnchanged DEF DropLate
<1> QED
  BY <1>2, <1>3, <1>4, Zenon DEF Log!Resolve, LogPhase, LogResult, LogDoubt

LEMMA ForeignMapped ==
  ASSUME Inv, NEW a \in Aggregates, NEW e \in Foreign, PublishForeign(a, e)
  PROVE  Log!Publish(a, e)
<1>1. Now' = [Now EXCEPT ![a] = Append(@, e)]
  BY ForeignAppends DEF Inv
<1>2. LogPhase' = LogPhase /\ LogResult' = LogResult /\ LogDoubt' = LogDoubt /\ cmd' = cmd
  BY DEF PublishForeign, LogPhase, LogResult, LogDoubt, callVars
<1> QED
  BY <1>1, <1>2, Zenon DEF Log!Publish, LogPhase, LogResult, LogDoubt

LEMMA LateFinite ==
  ASSUME Inv, IsFiniteSet(late), [Next]_vars
  PROVE  IsFiniteSet(late)'
<1>1. ASSUME NEW w \in Workers, Step(w)
      PROVE  IsFiniteSet(late)'
  <2>1. late' = late \/ late' = late \cup {RequestOf(w)}
    BY <1>1, StepServer
  <2> QED
    BY <2>1, FS_AddElement
<1>2. ASSUME NEW r \in late, late' = late \ {r}
      PROVE  IsFiniteSet(late)'
  BY <1>2, FS_RemoveElement
<1> QED
  BY <1>1, <1>2 DEF Next, Execute, CommitLate, DropLate, PublishForeign, serverVars, vars

\* Execute over the NATS event store is atomic: whatever is retried, times out,
\* arrives late or is published in between, every call takes effect on the log
\* as it is at one instant, at most once, and returns what it did.
THEOREM Implementation == Spec => ImplementsAggregateLog
<1>1. Init => Inv /\ IsFiniteSet(late) /\ Log!Init
  <2> SUFFICES ASSUME Init
               PROVE  Inv /\ IsFiniteSet(late) /\ Log!Init
    OBVIOUS
  <2>1. Inv /\ late = {} /\ Len(stream) = 0
    BY InitInv DEF Init
  <2>2. cmd \in [Workers -> Commands]
    BY <2>1 DEF Inv, TypeOK
  <2>3. Now = [a \in Aggregates |-> <<>>]
    BY <2>1 DEF Now, At
  <2>4. LogPhase = [w \in Workers |-> "idle"] /\ LogResult = [w \in Workers |-> "none"]
    BY DEF Init, LogPhase, LogResult
  <2>5. IsFiniteSet(late) /\ LogDoubt = [c \in Commands |-> 0]
    <3>1. \A c : {r \in late : r.cmd = c} = {}
      BY <2>1
    <3> QED
      BY <2>1, <3>1, FS_EmptySet DEF LogDoubt
  <2> QED
    BY <2>1, <2>2, <2>3, <2>4, <2>5, Zenon DEF Log!Init, LogPhase, LogResult, LogDoubt
<1>2. Inv /\ IsFiniteSet(late) /\ [Next]_vars => Inv' /\ IsFiniteSet(late)'
  BY InvInductive, LateFinite
<1>3. Inv /\ IsFiniteSet(late) /\ [Next]_vars => [Log!Next]_(Log!vars)
  <2> SUFFICES ASSUME Inv, IsFiniteSet(late), [Next]_vars
               PROVE  [Log!Next]_(Log!vars)
    OBVIOUS
  <2>1. ASSUME NEW w \in Workers, NEW c \in Commands, Execute(w, c)
        PROVE  Log!Next
    BY <2>1, ExecuteMapped DEF Log!Next
  <2>2. ASSUME NEW r \in late, CommitLate(r) \/ DropLate(r)
        PROVE  Log!Next
    <3>1. r.cmd \in Commands
      BY DEF Inv, TypeOK, Request
    <3> QED
      BY <2>2, <3>1, LateMapped DEF Log!Next
  <2>3. ASSUME NEW a \in Aggregates, NEW e \in Foreign, PublishForeign(a, e)
        PROVE  Log!Next
    <3>1. e \in Events
      BY StoreAssumption
    <3> QED
      BY <2>3, <3>1, ForeignMapped DEF Log!Next
  <2>4. CASE UNCHANGED vars
    <3>1. UNCHANGED <<stream, truth, late, pc, cmd, result>>
      BY <2>4 DEF vars
    <3> QED
      BY <3>1, NowUnchanged DEF Log!vars
  <2> QED
    BY <2>1, <2>2, <2>3, <2>4, WorkerMapped DEF Next
<1> QED
  BY <1>1, <1>2, <1>3, PTL DEF Spec, ImplementsAggregateLog, Log!Spec

-----------------------------------------------------------------------------
(* Exactly once, and durable *)

\* The events of an idempotent command tell what has happened: each stands for
\* one place in the outcome of that command, and nobody else publishes it.
OwnEvents ==
  \A c \in Idempotent : \A i \in 1..Len(Outcome[c]) :
    /\ Outcome[c][i] \notin Foreign
    /\ \A d \in Commands : \A k \in 1..Len(Outcome[d]) :
         Outcome[d][k] = Outcome[c][i] => d = c /\ k = i

\* One of the events of o in s stands for all of them, in order.
Whole(s, o) ==
  \A i \in 1..Len(o) : \A j \in 1..Len(s) : s[j] = o[i] =>
    \A k \in 1..Len(o) : j - i + k \in 1..Len(s) /\ s[j - i + k] = o[k]
Once(s, o) ==
  /\ Whole(s, o)
  /\ \A i, j \in 1..Len(s) : s[i] = o[1] /\ s[j] = o[1] => i = j

OnceInv == \A c \in Idempotent : Once(Now[AggOf[c]], Outcome[c])

\* Execute was acknowledged, or has returned nil: its events are in the log.
AckedInv ==
  \A w \in Workers : pc[w] = "acked" \/ result[w] = "ok" =>
    \A i \in 1..Len(Outcome[cmd[w]]) : Has(Now[AggOf[cmd[w]]], Outcome[cmd[w]][i])

\* Events that are not of o do not matter to o.
LEMMA OnceOther ==
  ASSUME NEW S, NEW s \in Seq(S), NEW t \in Seq(S), NEW o \in Seq(S), Once(s, o), Len(o) > 0,
         \A i \in 1..Len(t), k \in 1..Len(o) : t[i] # o[k]
  PROVE  Once(s \o t, o)
<1>1. /\ Len(s) \in Nat /\ Len(t) \in Nat /\ Len(o) \in Nat /\ 1 \in 1..Len(o)
      /\ Len(s \o t) = Len(s) + Len(t)
      /\ \A i \in 1..Len(s) : (s \o t)[i] = s[i]
      /\ \A i \in 1..(Len(s) + Len(t)) : i > Len(s) =>
           (s \o t)[i] = t[i - Len(s)] /\ i - Len(s) \in 1..Len(t)
  OBVIOUS
<1> DEFINE u == s \o t
<1>2. \A j \in 1..Len(u), k \in 1..Len(o) : u[j] = o[k] => j \in 1..Len(s) /\ s[j] = o[k]
  BY <1>1
<1> HIDE DEF u
<1>3. Len(u) = Len(s) + Len(t) /\ \A i \in 1..Len(s) : u[i] = s[i] /\ i \in 1..Len(u)
  BY <1>1 DEF u
<1>4. Whole(u, o)
  <2> SUFFICES ASSUME NEW i \in 1..Len(o), NEW j \in 1..Len(u), u[j] = o[i],
                      NEW k \in 1..Len(o)
               PROVE  j - i + k \in 1..Len(u) /\ u[j - i + k] = o[k]
    BY DEF Whole
  <2>1. j \in 1..Len(s) /\ s[j] = o[i]
    BY <1>2
  <2>2. j - i + k \in 1..Len(s) /\ s[j - i + k] = o[k]
    BY <2>1 DEF Once, Whole
  <2> QED
    BY <1>3, <2>2
<1>5. \A i, j \in 1..Len(u) : u[i] = o[1] /\ u[j] = o[1] => i = j
  BY <1>1, <1>2 DEF Once
<1> QED
  BY <1>4, <1>5 DEF Once, u

\* Where the first event of o is missing, all of them are, and o can be added.
LEMMA OnceSelf ==
  ASSUME NEW S, NEW s \in Seq(S), NEW o \in Seq(S), Once(s, o), ~Has(s, o[1]),
         \A i, k \in 1..Len(o) : o[i] = o[k] => i = k
  PROVE  Once(s \o o, o)
<1>1. /\ Len(s) \in Nat /\ Len(o) \in Nat
      /\ Len(s \o o) = Len(s) + Len(o)
      /\ \A i \in 1..Len(s) : (s \o o)[i] = s[i]
      /\ \A i \in 1..(Len(s) + Len(o)) : i > Len(s) =>
           (s \o o)[i] = o[i - Len(s)] /\ i - Len(s) \in 1..Len(o)
      /\ \A k \in 1..Len(o) : (s \o o)[Len(s) + k] = o[k] /\ Len(s) + k \in 1..(Len(s) + Len(o))
  OBVIOUS
<1>2. \A j \in 1..Len(s), k \in 1..Len(o) : s[j] # o[k]
  <2> SUFFICES ASSUME NEW j \in 1..Len(s), NEW k \in 1..Len(o), s[j] = o[k]
               PROVE  FALSE
    OBVIOUS
  <2>1. 1 \in 1..Len(o)
    BY <1>1
  <2>2. j - k + 1 \in 1..Len(s) /\ s[j - k + 1] = o[1]
    BY <2>1 DEF Once, Whole
  <2> QED
    BY <2>2 DEF Has
<1> DEFINE u == s \o o
<1>3. \A j \in 1..Len(u), i \in 1..Len(o) : u[j] = o[i] => j = Len(s) + i
  <2> SUFFICES ASSUME NEW j \in 1..Len(u), NEW i \in 1..Len(o), u[j] = o[i]
               PROVE  j = Len(s) + i
    OBVIOUS
  <2>1. j > Len(s)
    BY <1>1, <1>2
  <2>2. j - Len(s) \in 1..Len(o) /\ o[j - Len(s)] = o[i]
    BY <1>1, <2>1
  <2>3. j - Len(s) = i
    BY <2>2
  <2> QED
    BY <1>1, <2>3
<1>4. /\ Len(u) = Len(s) + Len(o)
      /\ \A k \in 1..Len(o) : u[Len(s) + k] = o[k] /\ Len(s) + k \in 1..Len(u)
  BY <1>1
<1> HIDE DEF u
<1>5. Whole(u, o)
  <2> SUFFICES ASSUME NEW i \in 1..Len(o), NEW j \in 1..Len(u), u[j] = o[i],
                      NEW k \in 1..Len(o)
               PROVE  j - i + k \in 1..Len(u) /\ u[j - i + k] = o[k]
    BY DEF Whole
  <2>1. j = Len(s) + i
    BY <1>3
  <2>2. j - i + k = Len(s) + k
    BY <1>1, <2>1
  <2> QED
    BY <1>4, <2>2
<1>6. \A i, j \in 1..Len(u) : u[i] = o[1] /\ u[j] = o[1] => i = j
  <2>1. CASE Len(o) = 0
    <3>1. Len(u) = Len(s) /\ u = s
      BY <1>4, <2>1 DEF u
    <3> QED
      BY <3>1 DEF Once
  <2>2. CASE Len(o) # 0
    <3>1. 1 \in 1..Len(o)
      BY <1>1, <2>2
    <3> QED
      BY <1>3, <3>1
  <2> QED
    BY <2>1, <2>2
<1> QED
  BY <1>5, <1>6 DEF Once, u

LEMMA OnceStep ==
  ASSUME OwnEvents, Inv, OnceInv, [Next]_vars
  PROVE  OnceInv'
<1> SUFFICES ASSUME NEW c \in Idempotent
             PROVE  Once(Now'[AggOf[c]], Outcome[c])
  BY DEF OnceInv
<1> DEFINE a == AggOf[c]
           s == Now[a]
           o == Outcome[c]
<1>1. /\ c \in Commands /\ a \in Aggregates /\ o \in Seq(Events) /\ Len(o) > 0
      /\ Now \in [Aggregates -> Seq(Events)] /\ Once(s, o)
  BY NowType, DomainAssumption DEF Inv, OnceInv
<1>2. s \in Seq(Events)
  BY <1>1
<1>3. CASE Now' = Now
  BY <1>1, <1>3
<1>4. ASSUME NEW d \in Commands, Applied(d)
      PROVE  Once(Now'[a], o)
  <2> DEFINE t == Decide(d, Now[AggOf[d]])
  <2>1. AggOf[d] \in Aggregates /\ t = Outcome[d] /\ t \in Seq(Events)
    BY <1>4, DomainAssumption DEF Applied, Decide
  <2>2. Now'[a] = IF a = AggOf[d] THEN s \o t ELSE s
    BY <1>1, <1>4, <2>1 DEF Applied
  <2>3. CASE a # AggOf[d]
    BY <1>1, <2>2, <2>3
  <2>4. CASE a = AggOf[d] /\ d # c
    <3>1. \A i \in 1..Len(t), k \in 1..Len(o) : t[i] # o[k]
      BY <2>1, <2>4 DEF OwnEvents
    <3> HIDE DEF s, o, t
    <3>2. Once(s \o t, o)
      BY <1>1, <1>2, <2>1, <3>1, OnceOther
    <3> QED
      BY <2>2, <2>4, <3>2
  <2>5. CASE d = c
    <3>1. ~Has(s, o[1])
      BY <1>4, <2>5 DEF Applied, Decide
    <3>2. \A i, k \in 1..Len(o) : o[i] = o[k] => i = k
      BY <1>1 DEF OwnEvents
    <3>3. t = o
      BY <2>1, <2>5
    <3> HIDE DEF s, o, t
    <3>4. Once(s \o o, o)
      BY <1>1, <1>2, <3>1, <3>2, OnceSelf
    <3> QED
      BY <2>2, <2>5, <3>3, <3>4
  <2> QED
    BY <2>3, <2>4, <2>5
<1>5. ASSUME NEW b \in Aggregates, NEW e \in Foreign, Now' = [Now EXCEPT ![b] = Append(@, e)]
      PROVE  Once(Now'[a], o)
  <2>1. e \in Events /\ \A k \in 1..Len(o) : e # o[k]
    BY StoreAssumption DEF OwnEvents
  <2>2. Now'[a] = IF a = b THEN Append(s, e) ELSE s
    BY <1>1, <1>5
  <2>3. CASE a # b
    BY <1>1, <2>2, <2>3
  <2>4. CASE a = b
    <3>1. <<e>> \in Seq(Events) /\ \A i \in 1..Len(<<e>>), k \in 1..Len(o) : <<e>>[i] # o[k]
      BY <2>1
    <3> HIDE DEF s, o
    <3>2. Once(s \o <<e>>, o)
      BY <1>1, <1>2, <3>1, OnceOther
    <3>3. Append(s, e) = s \o <<e>>
      BY <1>2, <2>1
    <3> QED
      BY <2>2, <2>4, <3>2, <3>3
  <2> QED
    BY <2>3, <2>4
<1> QED
  BY <1>3, <1>4, <1>5, LogEffect

\* The whole outcome is in the log when one of its events is.
LEMMA WholeHas ==
  ASSUME NEW S, NEW s \in Seq(S), NEW o \in Seq(S), Len(o) > 0, Whole(s, o), Has(s, o[1])
  PROVE  \A i \in 1..Len(o) : Has(s, o[i])
<1>1. PICK j \in 1..Len(s) : s[j] = o[1]
  BY DEF Has
<1>2. \A k \in 1..Len(o) : j - 1 + k \in 1..Len(s) /\ s[j - 1 + k] = o[k]
  BY <1>1 DEF Whole
<1> QED
  BY <1>2 DEF Has

LEMMA PrefixHas ==
  ASSUME NEW S, NEW s \in Seq(S), NEW t \in Seq(S), Prefix(s, t), NEW e, Has(s, e)
  PROVE  Has(t, e)
BY DEF Prefix, Has

\* A call becomes acknowledged, or returns nil, only in these three ways.
LEMMA AckedHow ==
  ASSUME TypeOK, [Next]_vars, NEW w \in Workers, pc'[w] = "acked" \/ result'[w] = "ok"
  PROVE  /\ cmd'[w] = cmd[w]
         /\ \/ pc[w] = "acked" \/ result[w] = "ok"
            \/ Commit(w) \/ MutateNothing(w)
<1>1. ASSUME NEW u \in Workers, Step(u)
      PROVE  /\ cmd'[w] = cmd[w]
             /\ \/ pc[w] = "acked" \/ result[w] = "ok"
                \/ Commit(w) \/ MutateNothing(w)
  <2>1. CASE Returns(u)
    <3>1. PICK r \in {"ok", "conflict", "error", "snapshot_error"} : Return(u, r)
      BY <2>1, ReturnsShape
    <3>2. /\ cmd' = cmd /\ pc' = [pc EXCEPT ![u] = "idle"]
          /\ result' = [result EXCEPT ![u] = r]
      BY <3>1 DEF Return, Goto
    <3>3. CASE u # w
      BY <3>2, <3>3 DEF TypeOK
    <3>4. CASE u = w
      <4>1. result'[w] = "ok"
        BY <3>2, <3>4 DEF TypeOK
      <4>2. MutateNothing(w) \/ SaveOk(w)
        BY <2>1, <3>4, <4>1 DEF TypeOK, Returns, Return, FailLoad, FailMutate, FailSnapshot,
                                FailPublish, Exhausted, CancelBackoff
      <4> QED
        BY <3>2, <4>2 DEF SaveOk
    <3> QED
      BY <3>3, <3>4
  <2>2. CASE Commit(u)
    BY <2>2 DEF Commit, Goto, callVars, TypeOK
  <2>3. CASE ~Returns(u) /\ ~Commit(u)
    <3>1. cmd' = cmd /\ result' = result /\ (pc' = pc \/ \E p \in PCs \ {"acked"} : Goto(u, p))
      BY <1>1, <2>3 DEF Returns, Step, LoadSnapshot, OpenConsumer, Replay, Mutate,
         LastSnapshotVersion, SnapshotForSave, Stage, Publish, Refuse, Retry, Backoff,
         callVars, PCs
    <3> QED
      BY <3>1 DEF Goto, TypeOK
  <2> QED
    BY <2>1, <2>2, <2>3
<1>2. ASSUME NEW u \in Workers, NEW c \in Commands, Execute(u, c)
      PROVE  cmd'[w] = cmd[w] /\ (pc[w] = "acked" \/ result[w] = "ok")
  BY <1>2 DEF Execute, Goto, TypeOK
<1>3. CASE UNCHANGED <<pc, callVars>>
  BY <1>3 DEF callVars
<1>4. CASE UNCHANGED vars
  BY <1>4 DEF vars
<1> QED
  BY <1>1, <1>2, <1>3, <1>4 DEF Next, CommitLate, DropLate, PublishForeign

LEMMA AckedStep ==
  ASSUME Inv, OnceInv, AckedInv, [Next]_vars
  PROVE  AckedInv'
<1> SUFFICES ASSUME NEW w \in Workers, pc'[w] = "acked" \/ result'[w] = "ok",
                    NEW i \in 1..Len(Outcome[cmd'[w]])
             PROVE  Has(Now'[AggOf[cmd'[w]]], Outcome[cmd'[w]][i])
  BY DEF AckedInv
<1> DEFINE c == cmd[w]
           a == AggOf[c]
           o == Outcome[c]
<1>1. /\ TypeOK /\ TypeOK' /\ c \in Commands /\ a \in Aggregates
      /\ o \in Seq(Events) /\ Len(o) > 0
  BY InvInductive, DomainAssumption DEF Inv, TypeOK
<1>2. Now[a] \in Seq(Events) /\ Now'[a] \in Seq(Events)
  <2>1. Now \in [Aggregates -> Seq(Events)] /\ Now' \in [Aggregates -> Seq(Events)]
    BY <1>1, NowType, NowTypeNext DEF NowTyped
  <2> QED
    BY <1>1, <2>1
<1>3. cmd'[w] = c
  BY <1>1, AckedHow
<1>4. CASE pc[w] = "acked" \/ result[w] = "ok"
  <2>1. Has(Now[a], o[i])
    BY <1>3, <1>4 DEF AckedInv
  <2>2. Prefix(Now[a], Now'[a])
    BY <1>1, LogGrows
  <2> HIDE DEF a, o
  <2>3. Has(Now'[a], o[i])
    BY <1>2, <2>1, <2>2, PrefixHas
  <2> QED
    BY <1>3, <2>3 DEF a, o
<1>5. CASE Commit(w)
  <2>1. Applied(c)
    BY <1>5, CommitApplies
  <2>2. Decide(c, Now[a]) = o
    BY <2>1 DEF Applied, Decide
  <2>3. Now'[a] = Now[a] \o o
    <3>1. Now \in [Aggregates -> Seq(Events)]
      BY <1>1, NowType
    <3> QED
      BY <1>1, <2>1, <2>2, <3>1 DEF Applied
  <2>4. i \in 1..Len(o)
    BY <1>3
  <2> HIDE DEF a, o
  <2>5. Len(Now[a]) + i \in 1..Len(Now[a] \o o) /\ (Now[a] \o o)[Len(Now[a]) + i] = o[i]
    BY <1>1, <1>2, <2>4
  <2>6. Has(Now'[a], o[i])
    BY <2>3, <2>5 DEF Has
  <2> QED
    BY <1>3, <2>6 DEF a, o
<1>6. CASE MutateNothing(w)
  <2>1. pc[w] = "mutate" /\ Decide(c, st[w]) = <<>> /\ Return(w, "ok")
    BY <1>6 DEF MutateNothing
  <2>2. ver[w] \in 0..Len(stream) /\ st[w] = At(ver[w])[a]
    BY <2>1 DEF Inv, WorkerInv, Loading, Agg, IsVersion
  <2>3. c \in Idempotent /\ Has(At(ver[w])[a], o[1])
    BY <1>1, <2>1, <2>2 DEF Decide
  <2>4. Has(Now[a], o[1])
    BY <1>1, <2>2, <2>3, StillHas DEF Inv, SnapshotCorrect
  <2>5. Whole(Now[a], o)
    BY <2>3 DEF OnceInv, Once
  <2>6. i \in 1..Len(o)
    BY <1>3
  <2>7. Now' = Now
    BY <2>1, NowUnchanged DEF Return
  <2> HIDE DEF a, o
  <2>8. Has(Now[a], o[i])
    BY <1>1, <1>2, <2>4, <2>5, <2>6, WholeHas
  <2> QED
    BY <1>3, <2>7, <2>8 DEF a, o
<1> QED
  BY <1>1, <1>4, <1>5, <1>6, AckedHow

LEMMA OnceInit == Init => OnceInv /\ AckedInv
<1> SUFFICES ASSUME Init
             PROVE  OnceInv /\ AckedInv
  OBVIOUS
<1>1. Now = [a \in Aggregates |-> <<>>]
  BY DEF Init, Now, At
<1>2. OnceInv
  BY <1>1, DomainAssumption DEF OnceInv, Once, Whole
<1>3. AckedInv
  BY DEF Init, AckedInv
<1> QED
  BY <1>2, <1>3

LEMMA OnceInvariance ==
  ASSUME OwnEvents
  PROVE  Spec => [](Inv /\ OnceInv /\ AckedInv)
<1>1. Inv /\ OnceInv /\ AckedInv /\ [Next]_vars => Inv' /\ OnceInv' /\ AckedInv'
  BY InvInductive, OnceStep, AckedStep
<1> QED
  BY <1>1, InitInv, OnceInit, PTL DEF Spec

\* However often the request of an idempotent command is retried, and although
\* it may time out and arrive late, its events are in the log at most once,
\* together and in order.
THEOREM AppendedOnce ==
  ASSUME OwnEvents
  PROVE  Spec => []ExactlyOnce
<1>1. Inv /\ OnceInv => ExactlyOnce
  <2> SUFFICES ASSUME Inv, OnceInv, NEW c \in Idempotent
               PROVE  LET s == Now[AggOf[c]] IN
                        /\ Cardinality(Positions(s, Outcome[c][1])) <= 1
                        /\ \A i \in 1..Len(Outcome[c]) : \A j \in Positions(s, Outcome[c][i]) :
                             \A k \in 1..Len(Outcome[c]) :
                               j - i + k \in 1..Len(s) /\ s[j - i + k] = Outcome[c][k]
    BY DEF ExactlyOnce
  <2> DEFINE s == Now[AggOf[c]]
             P == Positions(s, Outcome[c][1])
  <2>1. Once(s, Outcome[c])
    BY DEF OnceInv
  <2>2. \A i, j \in P : i = j
    BY <2>1 DEF Once, Positions
  <2>3. Cardinality(P) <= 1
    <3>1. CASE P = {}
      BY <3>1, FS_EmptySet
    <3>2. CASE P # {}
      <4>1. PICK x : P = {x}
        BY <2>2, <3>2
      <4> HIDE DEF P
      <4>2. Cardinality(P) = 1
        BY <4>1, FS_Singleton
      <4> QED
        BY <4>2
    <3> QED
      BY <3>1, <3>2
  <2>4. \A i \in 1..Len(Outcome[c]) : \A j \in Positions(s, Outcome[c][i]) :
          \A k \in 1..Len(Outcome[c]) :
            j - i + k \in 1..Len(s) /\ s[j - i + k] = Outcome[c][k]
    <3> SUFFICES ASSUME NEW i \in 1..Len(Outcome[c]), NEW j \in Positions(s, Outcome[c][i]),
                        NEW k \in 1..Len(Outcome[c])
                 PROVE  j - i + k \in 1..Len(s) /\ s[j - i + k] = Outcome[c][k]
      OBVIOUS
    <3>1. j \in 1..Len(s) /\ s[j] = Outcome[c][i]
      BY DEF Positions
    <3> HIDE DEF s
    <3>2. Whole(s, Outcome[c])
      BY <2>1 DEF Once
    <3>3. \A m \in 1..Len(Outcome[c]) : j - i + m \in 1..Len(s) /\ s[j - i + m] = Outcome[c][m]
      BY <3>1, <3>2 DEF Whole
    <3> QED
      BY <3>3
  <2> QED
    BY <2>3, <2>4
<1> QED
  BY <1>1, OnceInvariance, PTL

\* When Execute has returned nil the events of its command are in the log: those
\* it has saved, or those of the earlier execution that mutate has found.
THEOREM AckedDurable ==
  ASSUME OwnEvents
  PROVE  Spec => []AckedIsDurable
<1>1. AckedInv => AckedIsDurable
  BY DEF AckedInv, AckedIsDurable, Agg
<1> QED
  BY <1>1, OnceInvariance, PTL

-----------------------------------------------------------------------------
(* Load is fresh where reads are *)

\* Without replicas: what was in the stream when Load began has been accounted
\* for by the time the replay ends.
FreshInv(w) ==
  /\ since[w] <= Len(stream)
  /\ pc[w] = "replay" => since[w] <= mark[w]
  /\ pc[w] = "mutate" => Between(Agg(w), ver[w], since[w]) = {}

\* A worker that does not move stays fresh while the stream grows.
LEMMA FreshSame ==
  ASSUME TypeOK, NEW u \in Workers, WorkerInv(u), FreshInv(u), NEW a \in Aggregates, Extended(a),
         SameWorker(u), since'[u] = since[u]
  PROVE  FreshInv(u)'
<1>1. /\ pc'[u] = pc[u] /\ mark'[u] = mark[u] /\ ver'[u] = ver[u] /\ Agg(u)' = Agg(u)
      /\ Agg(u) \in Aggregates
  BY DomainAssumption DEF SameWorker, Agg, TypeOK
<1>2. /\ Len(stream) \in Nat /\ Len(stream') \in Nat /\ Len(stream) <= Len(stream')
      /\ since[u] \in Nat /\ since[u] <= Len(stream)
  BY DEF TypeOK, Extended, FreshInv
<1>3. since'[u] <= Len(stream') /\ (pc'[u] = "replay" => since'[u] <= mark'[u])
  BY <1>1, <1>2 DEF FreshInv
<1>4. ASSUME pc'[u] = "mutate"
      PROVE  Between(Agg(u), ver[u], since[u])' = {}
  <2>1. ver[u] \in 0..Len(stream) /\ since[u] \in 0..Len(stream)
    BY <1>1, <1>2, <1>4 DEF WorkerInv, Loading, IsVersion
  <2>2. Between(Agg(u), ver[u], since[u]) = {}
    BY <1>1, <1>4 DEF FreshInv
  <2> QED
    BY <1>1, <2>1, <2>2 DEF Between, Extended, TypeOK
<1> QED
  BY <1>3, <1>4 DEF FreshInv

LEMMA FreshOpen ==
  ASSUME TypeOK, NEW w \in Workers, FreshInv(w), OpenConsumer(w), Replicated = FALSE
  PROVE  FreshInv(w)'
<1>1. /\ since' = since /\ stream' = stream /\ ver' = ver /\ Agg(w)' = Agg(w)
      /\ Len(stream) \in Nat /\ since[w] \in Nat /\ since[w] <= Len(stream) /\ ver[w] \in Nat
  BY DEF TypeOK, OpenConsumer, FreshInv, Agg, serverVars, callVars
<1>2. CASE Between(Agg(w), ver[w], Len(stream)) = {}
  <2>1. pc'[w] = "mutate"
    BY <1>2 DEF TypeOK, OpenConsumer, Visible, Goto
  <2>2. Between(Agg(w), ver[w], since[w]) = {}
    BY <1>1, <1>2 DEF Between
  <2> QED
    BY <1>1, <2>1, <2>2 DEF FreshInv, Between
<1>3. CASE Between(Agg(w), ver[w], Len(stream)) # {}
  <2>1. pc'[w] = "replay" /\ mark'[w] = Len(stream)
    BY <1>3 DEF TypeOK, OpenConsumer, Visible, Goto
  <2> QED
    BY <1>1, <2>1 DEF FreshInv
<1> QED
  BY <1>2, <1>3

LEMMA FreshReplay ==
  ASSUME TypeOK, NEW w \in Workers, FreshInv(w), Replay(w)
  PROVE  FreshInv(w)'
<1>1. /\ since' = since /\ stream' = stream /\ Agg(w)' = Agg(w) /\ pc[w] = "replay"
      /\ Len(stream) \in Nat /\ since[w] \in Nat /\ since[w] <= Len(stream)
      /\ mark[w] \in Nat /\ since[w] <= mark[w] /\ ver[w] \in Nat
  BY DEF TypeOK, Replay, FreshInv, Agg, serverVars, callVars
<1>2. PICK q \in Between(Agg(w), ver[w], mark[w]), n \in mark[w]..Len(stream) :
        /\ ver' = [ver EXCEPT ![w] = q]
        /\ IF Between(Agg(w), q, n) = {}
           THEN Goto(w, "mutate") /\ mark' = [mark EXCEPT ![w] = 0]
           ELSE UNCHANGED pc /\ mark' = [mark EXCEPT ![w] = n]
  BY DEF Replay
<1>3. ver'[w] = q /\ q \in Nat
  BY <1>1, <1>2 DEF TypeOK, Between
<1>4. CASE Between(Agg(w), q, n) = {}
  <2>1. pc'[w] = "mutate"
    BY <1>2, <1>4 DEF TypeOK, Goto
  <2>2. Between(Agg(w), q, since[w]) = {}
    BY <1>1, <1>3, <1>4 DEF Between
  <2> QED
    BY <1>1, <1>3, <2>1, <2>2 DEF FreshInv, Between
<1>5. CASE Between(Agg(w), q, n) # {}
  <2>1. pc' = pc /\ mark'[w] = n
    BY <1>2, <1>5 DEF TypeOK
  <2> QED
    BY <1>1, <2>1 DEF FreshInv
<1> QED
  BY <1>4, <1>5

\* Elsewhere since is kept, cleared, or set to the end of the stream, and the
\* call does not arrive where FreshInv looks at it.
LEMMA FreshElsewhere ==
  ASSUME NEW w \in Workers, TypeOK, Step(w), ~OpenConsumer(w), ~Replay(w)
  PROVE  pc'[w] \notin {"replay", "mutate"} /\ since'[w] \in {0, since[w], Len(stream)}
<1>1. CASE Returns(w)
  BY <1>1, ReturnsShape DEF Return, Goto, TypeOK
<1>2. CASE LoadSnapshot(w) \/ Mutate(w) \/ LastSnapshotVersion(w) \/ SnapshotForSave(w)
  BY <1>2 DEF LoadSnapshot, Mutate, LastSnapshotVersion, SnapshotForSave, Goto, TypeOK
<1>3. CASE Stage(w) \/ Publish(w) \/ Commit(w) \/ Refuse(w) \/ Retry(w) \/ Backoff(w)
  BY <1>3 DEF Stage, Publish, Commit, Refuse, Retry, Backoff, Goto, TypeOK, loadVars
<1> QED
  BY <1>1, <1>2, <1>3 DEF Step, Returns

LEMMA SinceOthers ==
  ASSUME TypeOK, NEW w \in Workers, Step(w), NEW u \in Workers \ {w}
  PROVE  since'[u] = since[u]
<1>1. CASE Returns(w)
  BY <1>1, ReturnsShape DEF Return, TypeOK
<1>2. CASE LoadSnapshot(w) \/ OpenConsumer(w) \/ Replay(w) \/ Mutate(w)
           \/ LastSnapshotVersion(w) \/ SnapshotForSave(w)
  BY <1>2 DEF LoadSnapshot, OpenConsumer, Replay, Mutate, LastSnapshotVersion,
              SnapshotForSave, TypeOK
<1>3. CASE Stage(w) \/ Publish(w) \/ Commit(w) \/ Refuse(w) \/ Retry(w) \/ Backoff(w)
  BY <1>3 DEF Stage, Publish, Commit, Refuse, Retry, Backoff, TypeOK, loadVars
<1> QED
  BY <1>1, <1>2, <1>3 DEF Step, Returns

LEMMA FreshStep ==
  ASSUME Replicated = FALSE, Inv, \A w \in Workers : FreshInv(w), [Next]_vars
  PROVE  (\A w \in Workers : FreshInv(w))'
<1>1. TypeOK /\ TypeOK' /\ \A w \in Workers : WorkerInv(w)
  BY InvInductive DEF Inv
<1>2. \A u \in Workers : /\ Len(stream) \in Nat /\ Len(stream') \in Nat
                         /\ since[u] \in Nat /\ since[u] <= Len(stream)
  BY <1>1 DEF TypeOK, FreshInv
<1>3. ASSUME NEW w \in Workers, Len(stream) <= Len(stream'),
             pc'[w] \notin {"replay", "mutate"}, since'[w] \in {0, since[w], Len(stream)}
      PROVE  FreshInv(w)'
  BY <1>2, <1>3 DEF FreshInv
<1>4. ASSUME NEW w \in Workers, Step(w), NEW u \in Workers
      PROVE  FreshInv(u)'
  <2>1. PICK a \in Aggregates : Extended(a)
    BY <1>4, StepServer
  <2>2. CASE u # w
    BY <1>1, <1>4, <2>1, <2>2, StepOthers, SinceOthers, FreshSame
  <2>3. CASE u = w /\ (OpenConsumer(w) \/ Replay(w))
    BY <1>1, <2>3, FreshOpen, FreshReplay
  <2>4. CASE u = w /\ ~OpenConsumer(w) /\ ~Replay(w)
    BY <1>1, <1>3, <1>4, <2>1, <2>4, FreshElsewhere DEF Extended
  <2> QED
    BY <2>2, <2>3, <2>4
<1>5. ASSUME NEW w \in Workers, NEW c \in Commands, Execute(w, c), NEW u \in Workers
      PROVE  FreshInv(u)'
  <2>1. UNCHANGED <<stream, truth>> /\ AggOf[c] \in Aggregates
    BY <1>5, DomainAssumption DEF Execute, serverVars
  <2>2. Extended(AggOf[c])
    BY <1>1, <2>1, UnchangedExtends DEF Inv
  <2>3. CASE u # w
    <3>1. SameWorker(u) /\ since'[u] = since[u]
      BY <1>1, <1>5, <2>3 DEF Execute, Goto, saveVars, SameWorker, TypeOK
    <3> QED
      BY <1>1, <2>1, <2>2, <3>1, FreshSame
  <2>4. CASE u = w
    <3>1. pc'[w] = "load" /\ since'[w] = Len(stream)
      BY <1>1, <1>5 DEF Execute, Goto, TypeOK
    <3> QED
      BY <1>2, <1>3, <2>1, <2>4, <3>1
  <2> QED
    BY <2>3, <2>4
<1>6. ASSUME UNCHANGED <<pc, callVars, loadVars, saveVars>>, NEW a \in Aggregates, Extended(a),
             NEW u \in Workers
      PROVE  FreshInv(u)'
  <2>1. SameWorker(u) /\ since'[u] = since[u]
    BY <1>6 DEF callVars, loadVars, saveVars, SameWorker
  <2> QED
    BY <1>1, <1>6, <2>1, FreshSame
<1>7. ASSUME NEW r \in late, CommitLate(r), NEW u \in Workers
      PROVE  FreshInv(u)'
  <2>1. r \in Request /\ RequestInv(r) /\ AggOf[r.cmd] \in Aggregates
    BY DomainAssumption DEF Inv, TypeOK, Request
  <2>2. Len(r.evs) > 0
    BY <2>1 DEF RequestInv, Request, State
  <2>3. Extended(AggOf[r.cmd])
    BY <1>1, <1>7, <2>1, <2>2, AppendBatchShape DEF CommitLate
  <2> QED
    BY <1>6, <1>7, <2>1, <2>3 DEF CommitLate
<1>8. ASSUME NEW a \in Aggregates, NEW e \in Foreign, PublishForeign(a, e), NEW u \in Workers
      PROVE  FreshInv(u)'
  BY <1>1, <1>6, <1>8, PublishForeignShape DEF Inv, PublishForeign
<1>9. ASSUME UNCHANGED <<stream, pc, callVars, loadVars, saveVars>>, NEW u \in Workers
      PROVE  FreshInv(u)'
  BY <1>9 DEF FreshInv, Between, Agg, callVars, loadVars
<1>10. ASSUME (\E r \in late : DropLate(r)) \/ UNCHANGED vars
       PROVE  UNCHANGED <<stream, pc, callVars, loadVars, saveVars>>
  BY <1>10 DEF DropLate, vars, callVars, loadVars, saveVars
<1> QED
  BY <1>4, <1>5, <1>7, <1>8, <1>9, <1>10 DEF Next

\* Without lagging replicas, mutate sees everything that was appended to its
\* aggregate before the Load of this attempt began, however the messages that
\* arrive during the Load interleave with it.
THEOREM LoadsAreFresh ==
  ASSUME Replicated = FALSE
  PROVE  Spec => []LoadIsFresh
<1> DEFINE F == \A w \in Workers : FreshInv(w)
<1>1. Init => F
  <2> SUFFICES ASSUME Init, NEW w \in Workers
               PROVE  FreshInv(w)
    OBVIOUS
  <2>1. since[w] = 0 /\ Len(stream) = 0 /\ pc[w] = "idle"
    BY DEF Init
  <2> QED
    BY <2>1 DEF FreshInv
<1>2. Inv /\ F /\ [Next]_vars => Inv' /\ F'
  BY InvInductive, FreshStep
<1>3. F => LoadIsFresh
  BY DEF FreshInv, LoadIsFresh
<1> HIDE DEF F
<1> QED
  BY <1>1, <1>2, <1>3, InitInv, PTL DEF Spec

-----------------------------------------------------------------------------
(* The cadence of snapshots *)

\* The snapshot that is counted from, and what the count says of the aggregate
\* until another message reaches it, which fails the version check.
CadenceInv(w) ==
  /\ pc[w] = "count" => /\ mark[w] \in 0..Len(stream)
                        /\ mark[w] # 0 => stream[mark[w]].agg = Agg(w) /\ stream[mark[w]].snap
  /\ pc[w] \in Requesting /\ ~snap[w] =>
       \/ Between(Agg(w), ver[w], Len(stream)) # {}
       \/ Cardinality(Unsnapshotted(Agg(w))) + Len(evs[w]) < SnapshotEvery

LEMMA UnsnapshottedFinite ==
  ASSUME TypeOK, NEW a \in Aggregates
  PROVE  IsFiniteSet(Unsnapshotted(a)) /\ Cardinality(Unsnapshotted(a)) \in Nat
<1>1. IsFiniteSet(1..Len(stream)) /\ Unsnapshotted(a) \subseteq 1..Len(stream)
  BY FS_Interval DEF TypeOK, Unsnapshotted
<1> QED
  BY <1>1, FS_Subset, FS_CardinalityType

\* Only messages after a snapshot count.
LEMMA CountIsEnough ==
  ASSUME TypeOK, NEW a \in Aggregates, NEW s \in 0..Len(stream),
         s # 0 => stream[s].agg = a /\ stream[s].snap
  PROVE  /\ Cardinality(Unsnapshotted(a)) <= Cardinality(Between(a, s, Len(stream)))
         /\ Cardinality(Between(a, s, Len(stream))) \in Nat
<1>1. Len(stream) \in Nat
  BY DEF TypeOK
<1>2. IsFiniteSet((s + 1)..Len(stream)) /\ Between(a, s, Len(stream)) \subseteq (s + 1)..Len(stream)
  BY <1>1, FS_Interval DEF Between
<1>3. IsFiniteSet(Between(a, s, Len(stream)))
  BY <1>2, FS_Subset
<1>4. Unsnapshotted(a) \subseteq Between(a, s, Len(stream))
  <2> SUFFICES ASSUME NEW n \in Unsnapshotted(a)
               PROVE  n \in Between(a, s, Len(stream))
    OBVIOUS
  <2>1. /\ n \in 1..Len(stream) /\ stream[n].agg = a /\ ~stream[n].snap
        /\ \A m \in Between(a, n, Len(stream)) : ~stream[m].snap
    BY DEF Unsnapshotted
  <2>2. CASE n <= s
    <3>1. s # 0 /\ s # n
      BY <1>1, <2>1, <2>2
    <3>2. s \in Between(a, n, Len(stream))
      BY <1>1, <2>1, <2>2, <3>1 DEF Between
    <3> QED
      BY <2>1, <3>1, <3>2
  <2>3. CASE n > s
    BY <1>1, <2>1, <2>3 DEF Between
  <2> QED
    BY <1>1, <2>1, <2>2, <2>3
<1> QED
  BY <1>3, <1>4, FS_Subset, FS_CardinalityType

\* A worker that does not move: an appended message is of another aggregate, or
\* fails its version check.
LEMMA CadenceSame ==
  ASSUME TypeOK, NEW u \in Workers, WorkerInv(u), CadenceInv(u),
         NEW a \in Aggregates, Extended(a), SameWorker(u)
  PROVE  CadenceInv(u)'
<1>1. /\ pc'[u] = pc[u] /\ mark'[u] = mark[u] /\ ver'[u] = ver[u] /\ Agg(u)' = Agg(u)
      /\ evs'[u] = evs[u] /\ snap'[u] = snap[u] /\ Agg(u) \in Aggregates
  BY DomainAssumption DEF SameWorker, Agg, TypeOK
<1>2. /\ Len(stream) \in Nat /\ Len(stream') \in Nat /\ Len(stream) <= Len(stream')
      /\ \A n \in 1..Len(stream) : stream'[n] = stream[n]
      /\ \A n \in (Len(stream) + 1)..Len(stream') : stream'[n].agg = a
  <2>1. stream \in Seq(Message) /\ stream' \in Seq(Message)
    BY DEF TypeOK, Extended
  <2>2. Len(stream) \in Nat /\ Len(stream') \in Nat
    BY <2>1
  <2> QED
    BY <2>2, Zenon DEF Extended
<1>3. ASSUME pc'[u] = "count"
      PROVE  /\ mark'[u] \in 0..Len(stream')
             /\ mark'[u] # 0 => stream'[mark'[u]].agg = Agg(u) /\ stream'[mark'[u]].snap
  BY <1>1, <1>2, <1>3 DEF CadenceInv
<1>4. ASSUME pc'[u] \in Requesting, ~snap'[u]
      PROVE  \/ Between(Agg(u), ver[u], Len(stream))' # {}
             \/ Cardinality(Unsnapshotted(Agg(u)))' + Len(evs'[u]) < SnapshotEvery
  <2>1. ver[u] \in 0..Len(stream)
    BY <1>1, <1>4 DEF WorkerInv, RequestInv, RequestOf, IsVersion
  <2>2. CASE Between(Agg(u), ver[u], Len(stream)) # {}
    <3>1. PICK n \in (ver[u] + 1)..Len(stream) : stream[n].agg = Agg(u)
      BY <2>2 DEF Between
    <3>2. n \in (ver[u] + 1)..Len(stream') /\ stream'[n].agg = Agg(u)
      BY <1>2, <2>1, <3>1
    <3> QED
      BY <1>1, <3>2 DEF Between
  <2>3. CASE Agg(u) = a /\ Len(stream) < Len(stream')
    <3>1. Len(stream') \in (ver[u] + 1)..Len(stream') /\ stream'[Len(stream')].agg = a
      BY <1>2, <2>1, <2>3
    <3> QED
      BY <1>1, <2>3, <3>1 DEF Between
  <2>4. CASE /\ Between(Agg(u), ver[u], Len(stream)) = {}
             /\ Agg(u) # a \/ Len(stream) = Len(stream')
    <3>1. \A n \in 1..Len(stream') : stream'[n].agg = Agg(u) => n \in 1..Len(stream)
      BY <1>2, <2>4
    <3>2. \A n \in Nat : Between(Agg(u), n, Len(stream))' = Between(Agg(u), n, Len(stream))
      BY <1>1, <1>2, <3>1 DEF Between
    <3>3. Unsnapshotted(Agg(u))' = Unsnapshotted(Agg(u))
      <4>1. ASSUME NEW n \in 1..Len(stream)
            PROVE  n \in Unsnapshotted(Agg(u))' <=> n \in Unsnapshotted(Agg(u))
        <5>1. /\ stream'[n] = stream[n] /\ n \in 1..Len(stream')
              /\ Between(Agg(u), n, Len(stream))' = Between(Agg(u), n, Len(stream))
          BY <1>2, <3>2
        <5>2. \A m \in Between(Agg(u), n, Len(stream)) : stream'[m] = stream[m]
          BY <1>2 DEF Between
        <5> QED
          BY <1>1, <5>1, <5>2 DEF Unsnapshotted
      <4>2. /\ Unsnapshotted(Agg(u)) \subseteq 1..Len(stream)
            /\ Unsnapshotted(Agg(u))' \subseteq 1..Len(stream)
        BY <1>1, <3>1 DEF Unsnapshotted
      <4> QED
        BY <4>1, <4>2
    <3>4. Cardinality(Unsnapshotted(Agg(u))) + Len(evs[u]) < SnapshotEvery
      BY <1>1, <1>4, <2>4 DEF CadenceInv
    <3> QED
      BY <1>1, <3>3, <3>4
  <2> QED
    BY <1>2, <2>2, <2>3, <2>4
<1> QED
  BY <1>1, <1>3, <1>4 DEF CadenceInv

\* The steps of the worker itself.
LEMMA CadenceOwn ==
  ASSUME Replicated = FALSE, SnapshotEvery > 0,
         TypeOK, NEW w \in Workers, CadenceInv(w), Step(w)
  PROVE  CadenceInv(w)'
<1>1. Len(stream) \in Nat /\ Agg(w) \in Aggregates /\ SnapshotEvery \in Nat /\ Len(evs[w]) \in Nat
  BY DomainAssumption, StoreAssumption DEF TypeOK, Agg, State
<1>2. CASE LastSnapshotVersion(w)
  <2>1. /\ pc'[w] = "count" /\ stream' = stream /\ Agg(w)' = Agg(w)
        /\ mark'[w] \in 0..Len(stream)
        /\ mark'[w] # 0 => stream[mark'[w]].agg = Agg(w) /\ stream[mark'[w]].snap
    BY <1>1, <1>2 DEF LastSnapshotVersion, Visible, IsLastSnapshot, Goto, TypeOK, Agg,
                      serverVars, callVars
  <2> QED
    BY <2>1 DEF CadenceInv, Requesting
<1>3. CASE SnapshotForSave(w)
  <2>1. /\ pc[w] = "count" /\ pc'[w] = "publish" /\ stream' = stream /\ Agg(w)' = Agg(w)
        /\ evs' = evs /\ ver' = ver
        /\ ~snap'[w] => ~Due(w, Len(stream))
    BY <1>3 DEF SnapshotForSave, Visible, Goto, TypeOK, Agg, serverVars, callVars
  <2>2. CASE snap'[w]
    BY <2>1, <2>2 DEF CadenceInv
  <2>3. CASE ~snap'[w]
    <3>1. /\ Cardinality(Unsnapshotted(Agg(w))) <= Cardinality(Between(Agg(w), mark[w], Len(stream)))
          /\ Cardinality(Between(Agg(w), mark[w], Len(stream))) \in Nat
      BY <1>1, <2>1, CountIsEnough DEF CadenceInv
    <3>2. Cardinality(Between(Agg(w), mark[w], Len(stream))) + Len(evs[w]) < SnapshotEvery
      BY <1>1, <2>1, <2>3, <3>1 DEF Due
    <3>3. Cardinality(Unsnapshotted(Agg(w))) \in Nat
      BY <1>1, UnsnapshottedFinite
    <3>4. Cardinality(Unsnapshotted(Agg(w))) + Len(evs[w]) < SnapshotEvery
      BY <1>1, <3>1, <3>2, <3>3
    <3>5. Unsnapshotted(Agg(w))' = Unsnapshotted(Agg(w))
      BY <2>1 DEF Unsnapshotted, Between
    <3> QED
      BY <2>1, <3>4, <3>5 DEF CadenceInv
  <2> QED
    BY <2>2, <2>3
<1>4. CASE Stage(w) \/ Publish(w)
  <2>1. /\ pc[w] \in Requesting /\ pc'[w] \in Requesting
        /\ UNCHANGED <<stream, ver, evs, snap, cmd>>
    BY <1>4 DEF Stage, Publish, Requesting, Goto, TypeOK, loadVars, saveVars, callVars, serverVars
  <2>2. Unsnapshotted(Agg(w))' = Unsnapshotted(Agg(w)) /\ Agg(w)' = Agg(w)
    BY <2>1 DEF Unsnapshotted, Between, Agg
  <2> QED
    BY <2>1, <2>2 DEF CadenceInv, Requesting, Between
<1>5. ASSUME pc'[w] \notin Requesting \cup {"count"}
      PROVE  CadenceInv(w)'
  BY <1>5 DEF CadenceInv
<1>6. CASE Returns(w)
  <2>1. pc'[w] = "idle"
    BY <1>6, ReturnsShape DEF Return, Goto, TypeOK
  <2> QED
    BY <1>5, <2>1 DEF Requesting
<1>7. CASE \/ LoadSnapshot(w) \/ OpenConsumer(w) \/ Replay(w) \/ Mutate(w)
           \/ Commit(w) \/ Refuse(w) \/ Retry(w) \/ Backoff(w)
  <2>1. pc'[w] \notin Requesting \cup {"count"}
    BY <1>1, <1>7 DEF LoadSnapshot, OpenConsumer, Replay, Mutate, Commit, Refuse, Retry,
                      Backoff, Goto, TypeOK, Requesting
  <2> QED
    BY <1>5, <2>1
<1> QED
  BY <1>2, <1>3, <1>4, <1>6, <1>7 DEF Step, Returns

\* Everyone else, the server and other publishers included.
LEMMA CadenceStep ==
  ASSUME Replicated = FALSE, SnapshotEvery > 0,
         Inv, \A w \in Workers : CadenceInv(w), [Next]_vars
  PROVE  (\A w \in Workers : CadenceInv(w))'
<1>1. TypeOK /\ \A w \in Workers : WorkerInv(w)
  BY DEF Inv
<1>2. ASSUME NEW w \in Workers, Step(w), NEW u \in Workers
      PROVE  CadenceInv(u)'
  <2>1. PICK a \in Aggregates : Extended(a)
    BY <1>2, StepServer
  <2>2. CASE u # w
    BY <1>1, <1>2, <2>1, <2>2, StepOthers, CadenceSame
  <2>3. CASE u = w
    BY <1>1, <1>2, <2>3, CadenceOwn
  <2> QED
    BY <2>2, <2>3
<1>3. ASSUME NEW w \in Workers, NEW c \in Commands, Execute(w, c), NEW u \in Workers
      PROVE  CadenceInv(u)'
  <2>1. UNCHANGED <<stream, truth>> /\ AggOf[c] \in Aggregates
    BY <1>3, DomainAssumption DEF Execute, serverVars
  <2>2. Extended(AggOf[c])
    BY <1>1, <2>1, UnchangedExtends DEF Inv
  <2>3. CASE u # w
    <3>1. SameWorker(u)
      BY <1>1, <1>3, <2>3 DEF Execute, Goto, saveVars, SameWorker, TypeOK
    <3> QED
      BY <1>1, <2>1, <2>2, <3>1, CadenceSame
  <2>4. CASE u = w
    <3>1. pc'[w] = "load"
      BY <1>1, <1>3 DEF Execute, Goto, TypeOK
    <3> QED
      BY <2>4, <3>1 DEF CadenceInv, Requesting
  <2> QED
    BY <2>3, <2>4
<1>4. ASSUME UNCHANGED <<pc, callVars, loadVars, saveVars>>, NEW a \in Aggregates, Extended(a),
             NEW u \in Workers
      PROVE  CadenceInv(u)'
  <2>1. SameWorker(u)
    BY <1>4 DEF callVars, loadVars, saveVars, SameWorker
  <2> QED
    BY <1>1, <1>4, <2>1, CadenceSame
<1>5. ASSUME NEW r \in late, CommitLate(r), NEW u \in Workers
      PROVE  CadenceInv(u)'
  <2>1. r \in Request /\ RequestInv(r) /\ AggOf[r.cmd] \in Aggregates
    BY DomainAssumption DEF Inv, TypeOK, Request
  <2>2. Len(r.evs) > 0
    BY <2>1 DEF RequestInv, Request, State
  <2>3. Extended(AggOf[r.cmd])
    BY <1>1, <1>5, <2>1, <2>2, AppendBatchShape DEF CommitLate
  <2> QED
    BY <1>4, <1>5, <2>1, <2>3 DEF CommitLate
<1>6. ASSUME NEW a \in Aggregates, NEW e \in Foreign, PublishForeign(a, e), NEW u \in Workers
      PROVE  CadenceInv(u)'
  BY <1>1, <1>4, <1>6, PublishForeignShape DEF Inv, PublishForeign
<1>7. ASSUME UNCHANGED <<stream, pc, callVars, loadVars, saveVars>>, NEW u \in Workers
      PROVE  CadenceInv(u)'
  BY <1>7 DEF CadenceInv, Between, Unsnapshotted, Agg, callVars, loadVars, saveVars
<1>8. ASSUME (\E r \in late : DropLate(r)) \/ UNCHANGED vars
      PROVE  UNCHANGED <<stream, pc, callVars, loadVars, saveVars>>
  BY <1>8 DEF DropLate, vars, callVars, loadVars, saveVars
<1> QED
  BY <1>2, <1>3, <1>5, <1>6, <1>7, <1>8 DEF Next

\* A commit leaves its snapshot, or the events that were counted and its own.
LEMMA CommitCadence ==
  ASSUME SnapshotEvery > 0, Inv, NEW w \in Workers, CadenceInv(w), Commit(w)
  PROVE  Cardinality(Unsnapshotted(Agg(w))') < SnapshotEvery
<1> DEFINE r == RequestOf(w)
           a == Agg(w)
           L == Len(stream)
           k == Len(evs[w])
<1>1. TypeOK /\ r \in Request /\ RequestInv(r)
  BY RequestOfType DEF Inv, WorkerInv, Requesting, Commit
<1>2. r.cmd = cmd[w] /\ r.exp = ver[w] /\ r.evs = evs[w] /\ r.snap = snap[w]
  BY DEF RequestOf
<1>3. /\ a \in Aggregates /\ a = AggOf[r.cmd] /\ Agg(w)' = a
      /\ L \in Nat /\ k \in Nat /\ k > 0 /\ SnapshotEvery \in Nat /\ snap[w] \in BOOLEAN
  <2>1. evs[w] \in Seq(Events) /\ evs[w] # <<>>
    BY <1>1, <1>2 DEF TypeOK, State, RequestInv
  <2>2. k \in Nat /\ k > 0
    BY <2>1
  <2>3. a \in Aggregates /\ a = AggOf[r.cmd] /\ Agg(w)' = a
    BY <1>1, <1>2, DomainAssumption DEF TypeOK, Agg, Commit, callVars
  <2> QED
    BY <1>1, <2>2, <2>3, StoreAssumption DEF TypeOK
<1>4. /\ Size(r) = k + (IF snap[w] THEN 1 ELSE 0)
      /\ Len(stream') = L + Size(r)
      /\ \A n \in 1..L : stream'[n] = stream[n]
      /\ \A i \in 1..Size(r) : /\ stream'[L + i].agg = a
                               /\ stream'[L + i].snap = (i > k)
  <2>1. /\ Extended(AggOf[r.cmd]) /\ Len(stream') = L + Size(r)
        /\ \A i \in 1..Size(r) : stream'[L + i] = Batch(r)[i]
    BY <1>1, <1>2, <1>3, AppendBatchShape DEF Commit
  <2>2. \A i \in 1..Size(r) : Batch(r)[i].agg = a /\ Batch(r)[i].snap = (i > k)
    BY <1>2, <1>3 DEF Batch
  <2>3. Size(r) = k + (IF snap[w] THEN 1 ELSE 0)
    BY <1>2 DEF Size
  <2>4. \A n \in 1..L : stream'[n] = stream[n]
    BY <2>1 DEF Extended
  <2> HIDE DEF r, a, L, k
  <2> QED
    BY <2>1, <2>2, <2>3, <2>4, Zenon
<1>5. pc[w] = "await" /\ Between(a, ver[w], L) = {}
  BY DEF Commit, IsLastSequence
<1> DEFINE U == Unsnapshotted(a)
           V == Unsnapshotted(Agg(w))'
<1>6. V = {n \in 1..Len(stream') : /\ stream'[n].agg = a /\ ~stream'[n].snap
                                   /\ \A m \in (n + 1)..Len(stream') :
                                        stream'[m].agg = a => ~stream'[m].snap}
  BY <1>3 DEF Unsnapshotted, Between
<1>7. CASE snap[w]
  <2>1. Size(r) = k + 1 /\ Len(stream') = L + (k + 1) /\ k + 1 \in 1..Size(r) /\ (k + 1 > k) = TRUE
    BY <1>3, <1>4, <1>7
  <2>2. stream'[Len(stream')].agg = a /\ stream'[Len(stream')].snap
    BY <1>4, <2>1
  <2>3. \A n \in 1..Len(stream') : n = Len(stream') \/ Len(stream') \in (n + 1)..Len(stream')
    BY <1>3, <2>1
  <2>4. V = {}
    BY <1>6, <2>2, <2>3
  <2> HIDE DEF V
  <2>5. Cardinality(V) = 0
    BY <2>4, FS_EmptySet
  <2> QED
    BY <1>3, <2>5 DEF V
<1>8. CASE ~snap[w]
  <2>1. Size(r) = k /\ Len(stream') = L + k
    BY <1>3, <1>4, <1>8
  <2>2. Cardinality(U) + k < SnapshotEvery
    BY <1>5, <1>8 DEF CadenceInv, Requesting
  <2>3. V \subseteq U \cup (L + 1)..(L + k)
    <3> SUFFICES ASSUME NEW n \in V, n \notin (L + 1)..(L + k)
                 PROVE  n \in U
      OBVIOUS
    <3>1. n \in 1..L
      BY <1>3, <1>6, <2>1
    <3>2. /\ stream[n].agg = a /\ ~stream[n].snap
          /\ \A m \in (n + 1)..L : stream[m].agg = a => ~stream[m].snap
      <4> HIDE DEF L, k, r, V, a
      <4>1. \A m \in (n + 1)..L : m \in 1..L /\ m \in (n + 1)..(L + k)
        BY <1>3, <3>1
      <4>2. \A m \in (n + 1)..L : m \in (n + 1)..Len(stream') /\ stream'[m] = stream[m]
        BY <1>4, <2>1, <4>1, Zenon
      <4> QED
        BY <1>4, <1>6, <3>1, <4>2
    <3> QED
      BY <3>1, <3>2 DEF Unsnapshotted, Between
  <2>4. IsFiniteSet(U) /\ Cardinality(U) \in Nat
    BY <1>1, <1>3, UnsnapshottedFinite
  <2> HIDE DEF U, V, L, k
  <2> DEFINE I == (L + 1)..(L + k)
  <2>5. IsFiniteSet(I) /\ Cardinality(I) = k
    BY <1>3, FS_Interval
  <2> HIDE DEF I
  <2>6. IsFiniteSet(U \cup I) /\ Cardinality(U \cup I) = Cardinality(U) + k - Cardinality(U \cap I)
    BY <2>4, <2>5, FS_Union
  <2>7. Cardinality(U \cap I) \in Nat
    BY <2>4, FS_Intersection, FS_CardinalityType
  <2>8. V \in SUBSET (U \cup I)
    BY <2>3 DEF I
  <2>9. IsFiniteSet(V) /\ Cardinality(V) <= Cardinality(U \cup I) /\ Cardinality(V) \in Nat
    BY <2>6, <2>8, FS_Subset, FS_CardinalityType
  <2>10. Cardinality(V) < SnapshotEvery
    BY <1>3, <2>2, <2>4, <2>6, <2>7, <2>9
  <2> QED
    BY <2>10 DEF V
<1> QED
  BY <1>7, <1>8

\* Only a commit takes a call to "acked".
LEMMA AckedByCommit ==
  ASSUME TypeOK, [Next]_vars, NEW w \in Workers, pc[w] = "await", pc'[w] = "acked"
  PROVE  Commit(w)
<1>1. ASSUME NEW u \in Workers, Step(u)
      PROVE  Commit(w)
  <2>1. CASE u = w
    BY <1>1, <2>1 DEF Step, LoadSnapshot, OpenConsumer, Replay, FailLoad, MutateNothing, Mutate,
         FailMutate, LastSnapshotVersion, SnapshotForSave, FailSnapshot, Stage, Publish, Refuse,
         FailPublish, SaveOk, Retry, Exhausted, Backoff, CancelBackoff, Return, Goto, TypeOK
  <2>2. CASE u # w
    BY <1>1, <2>2, StepOthers DEF SameWorker
  <2> QED
    BY <2>1, <2>2
<1>2. ASSUME NEW u \in Workers, NEW c \in Commands, Execute(u, c)
      PROVE  FALSE
  BY <1>2 DEF Execute, Goto, TypeOK
<1>3. CASE UNCHANGED pc
  BY <1>3
<1> QED
  BY <1>1, <1>2, <1>3 DEF Next, CommitLate, DropLate, PublishForeign, vars

\* A committed Save leaves fewer than SnapshotEvery events to replay, although
\* the latest snapshot and the events after it are counted by two reads, and
\* other writers get in between.
THEOREM Cadence ==
  ASSUME Replicated = FALSE, SnapshotEvery > 0
  PROVE  Spec => SnapshotCadence
<1> DEFINE C == \A w \in Workers : CadenceInv(w)
           A == \A w \in Workers : pc[w] = "await" /\ pc'[w] = "acked" =>
                  Cardinality(Unsnapshotted(Agg(w))') < SnapshotEvery
<1>1. Init => C
  BY DEF Init, CadenceInv, Requesting
<1>2. Inv /\ C /\ [Next]_vars => Inv' /\ C'
  BY InvInductive, CadenceStep
<1>3. Inv /\ C /\ [Next]_vars => A
  BY AckedByCommit, CommitCadence DEF Inv
<1>4. SnapshotCadence <=> [][A]_vars
  BY DEF SnapshotCadence
<1> HIDE DEF C, A
<1> QED
  BY <1>1, <1>2, <1>3, <1>4, InitInv, PTL DEF Spec
=============================================================================
