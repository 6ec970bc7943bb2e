------------------------- MODULE QueueDeliveryProofs -------------------------
(***************************************************************************)
(* For any sessions, groups and events, any QueueMaxRetries and any bound  *)
(* on faults: an event that is acknowledged was handled, one that will not *)
(* be delivered again was reported, and a report is final.                 *)
(***************************************************************************)
EXTENDS QueueDelivery, WellFoundedInduction, TLAPS

-----------------------------------------------------------------------------
(* The inductive invariant *)

\* handleMessage has not yet told the server what became of its delivery.
Open(s) == step[s] \in {"running", "ack", "nak"}

\* What is acknowledged was handled, or is nothing to the group.
AckInv ==
  \A s \in Sessions :
    step[s] = "ack" /\ Relevant(cur[s].event, GroupOf[s])
      => <<cur[s].event, GroupOf[s]>> \in handled

\* Deliveries are counted: none has a number that was not given out, the server
\* stays within MaxDeliver, and has none left for an event that is reported.
CountInv ==
  /\ \A s \in Sessions : step[s] # "idle" => cur[s].num <= sent[cur[s].event]
  /\ \A s \in Sessions : \A i \in DOMAIN buffer[s] :
       buffer[s][i].num <= sent[buffer[s][i].event]
  /\ \A e \in Events : e > pos => sent[e] = 0 /\ status[e] = "new"
  /\ \A e \in Events : status[e] = "retry" /\ maxRetries >= 0 => sent[e] <= maxRetries
  /\ \A e \in Events : maxRetries >= 0 => sent[e] <= maxRetries + 1
  /\ \A e \in escalated : maxRetries >= 0 /\ sent[e] = maxRetries + 1

\* Unless it was cut short, the only delivery of an event without a verdict is
\* the last one.
LatestInv ==
  /\ \A s \in Sessions : \A i \in DOMAIN buffer[s] :
       LET d == buffer[s][i]
       IN d.event \notin cut => status[d.event] = "out" /\ d.num = sent[d.event]
  /\ \A s \in Sessions : Open(s) /\ cur[s].event \notin cut
       => status[cur[s].event] = "out" /\ cur[s].num = sent[cur[s].event]

\* And there is only one.
UniqueInv ==
  /\ \A s, t \in Sessions : \A i \in DOMAIN buffer[s], j \in DOMAIN buffer[t] :
       buffer[s][i].event = buffer[t][j].event /\ buffer[s][i].event \notin cut
         => s = t /\ i = j
  /\ \A s, t \in Sessions : \A i \in DOMAIN buffer[s] :
       Open(t) /\ cur[t].event = buffer[s][i].event => cur[t].event \in cut
  /\ \A s, t \in Sessions :
       Open(s) /\ Open(t) /\ cur[s].event = cur[t].event /\ cur[s].event \notin cut
         => s = t

\* An event that will not be delivered again is reported, or is in the hands
\* of the session that is about to.
DeadInv ==
  \A e \in Events : status[e] = "dead" /\ e \notin cut =>
    \/ e \in escalated
    \/ \E s \in Sessions : /\ step[s] = "report" /\ cur[s].event = e
                           /\ maxRetries >= 0 /\ cur[s].num > maxRetries

\* Some session that acknowledged an event had it handled, or its group has no
\* handler for it.
AckedInv ==
  \A e \in Events : status[e] = "acked" =>
    \E s \in Sessions : Relevant(e, GroupOf[s]) => <<e, GroupOf[s]>> \in handled

\* TypeOK, by the part of the state it is about.
ServerType ==
  /\ maxRetries \in Retries /\ last \in 0..Len(TypeOf) /\ pos \in 0..last
  /\ filter \subseteq Types /\ faults \in 0..MaxFaults
  /\ status \in [Events -> {"new", "out", "retry", "acked", "dead"}]
  /\ sent \in [Events -> Nat]

ClientType ==
  /\ state \in [Sessions -> {"down", "up", "stopping"}]
  /\ buffer \in [Sessions -> Seq(Deliveries)]
  /\ cur \in [Sessions -> Deliveries \cup {Idle}]
  /\ step \in [Sessions -> {"idle", "running", "ack", "nak", "report"}]
  /\ \A s \in Sessions : cur[s] = Idle <=> step[s] = "idle"

HistType ==
  /\ handled \subseteq Events \X Groups
  /\ escalated \subseteq Events /\ cut \subseteq Events

Inv ==
  /\ ServerType /\ ClientType /\ HistType
  /\ AckInv /\ AckedInv /\ CountInv /\ LatestInv /\ UniqueInv /\ DeadInv

-----------------------------------------------------------------------------
(* Lemmas *)

LEMMA EventsType ==
  /\ Len(TypeOf) \in Nat /\ Events = 1..Len(TypeOf)
  /\ 0 \notin Events
BY QueueAssumption DEF Events

\* The first of the events that pass the filter is one of them.
LEMMA MinType ==
  ASSUME NEW S \in SUBSET Nat, S # {}
  PROVE  Min(S) \in S /\ \A y \in S : Min(S) =< y
<1> DEFINE Less == {ss \in Nat \X Nat : ss[1] < ss[2]}
<1>1. IsWellFoundedOn(Less, Nat)
  BY NatLessThanWellFounded DEF OpToRel
<1> HIDE DEF Less
<1>2. \E x \in S : \A y \in S : ~(<<y, x>> \in Less)
  BY <1>1, WFMin
<1>3. \A x, y \in Nat : <<y, x>> \in Less <=> y < x
  BY DEF Less
<1>4. PICK x \in S : \A y \in S : ~(<<y, x>> \in Less)
  BY <1>2
<1>5. \A y \in S : x \in Nat /\ y \in Nat /\ ~(y < x)
  BY <1>3, <1>4, Zenon
<1>6. \A y \in S : x =< y
  BY <1>5
<1> QED
  BY <1>6 DEF Min

\* What the types say of one delivery.
LEMMA DeliveryTypes ==
  ASSUME ClientType
  PROVE  /\ \A t \in Sessions :
              /\ Len(buffer[t]) \in Nat /\ DOMAIN buffer[t] = 1..Len(buffer[t])
              /\ \A i \in DOMAIN buffer[t] :
                   buffer[t][i].event \in Events /\ buffer[t][i].num \in Nat \ {0}
         /\ \A t \in Sessions : step[t] = "idle" => cur[t].event = 0
         /\ \A t \in Sessions : step[t] # "idle" =>
              cur[t].event \in Events /\ cur[t].num \in Nat \ {0}
<1>1. \A t \in Sessions : buffer[t] \in Seq(Deliveries)
  BY DEF ClientType
<1>2. \A d \in Deliveries : d.event \in Events /\ d.num \in Nat \ {0}
  BY DEF Deliveries
<1>3. \A t \in Sessions :
        /\ Len(buffer[t]) \in Nat /\ DOMAIN buffer[t] = 1..Len(buffer[t])
        /\ \A i \in DOMAIN buffer[t] : buffer[t][i] \in Deliveries
  BY <1>1
<1>4. \A t \in Sessions : step[t] = "idle" => cur[t].event = 0
  BY DEF ClientType, Idle
<1>5. \A t \in Sessions : step[t] # "idle" => cur[t] \in Deliveries
  BY DEF ClientType
<1> QED
  BY <1>2, <1>3, <1>4, <1>5

\* What the types say of the server's state.
LEMMA ServerTypes ==
  ASSUME ServerType
  PROVE  /\ maxRetries \in Int /\ last \in Nat /\ pos \in Nat /\ pos <= last
         /\ last <= Len(TypeOf)
         /\ \A e \in Events : sent[e] \in Nat /\ e \in Nat /\ e > 0
BY EventsType, QueueAssumption DEF ServerType

\* MaxDeliver allows QueueMaxRetries deliveries beyond the first.
LEMMA RefusedIs ==
  ASSUME ServerType, NEW e \in Events
  PROVE  Refused(e) = IF maxRetries >= 0 /\ sent[e] > maxRetries
                      THEN "dead" ELSE "retry"
BY ServerTypes DEF Refused, Exhausted, MaxDeliver

-----------------------------------------------------------------------------
(* Every step preserves it *)

LEMMA PublishKeeps ==
  ASSUME Inv, Publish
  PROVE  Inv'
<1>1. ServerType' /\ ClientType' /\ HistType'
  BY EventsType DEF Inv, ServerType, ClientType, HistType, Publish, clientVars, histVars
<1>2. AckInv' /\ AckedInv' /\ CountInv' /\ LatestInv' /\ UniqueInv' /\ DeadInv'
  BY DEF Inv, AckInv, AckedInv, CountInv, LatestInv, UniqueInv, DeadInv, Open,
     Publish, clientVars, histVars
<1> QED
  BY <1>1, <1>2 DEF Inv

LEMMA SubscribeKeeps ==
  ASSUME Inv, NEW s \in Sessions, Subscribe(s)
  PROVE  Inv'
<1>1. ServerType' /\ ClientType' /\ HistType'
  BY QueueAssumption DEF Inv, ServerType, ClientType, HistType, Subscribe, histVars
<1>2. AckInv' /\ AckedInv' /\ CountInv' /\ DeadInv'
  BY DEF Inv, AckInv, AckedInv, CountInv, DeadInv, Subscribe, histVars
<1>3. LatestInv' /\ UniqueInv'
  BY DEF Inv, LatestInv, UniqueInv, Open, Subscribe, histVars
<1> QED
  BY <1>1, <1>2, <1>3 DEF Inv

\* A delivery: of an event that the consumer has not considered, or again.
LEMMA SendKeeps ==
  ASSUME Inv, NEW s \in Sessions, NEW e \in Events, Send(s, e),
         pos' \in 0..last, pos' >= pos,
         \/ pos < e /\ pos' = e
         \/ status[e] = "retry" /\ pos' = pos
  PROVE  Inv'
<1> USE DEF histVars
<1>1. /\ sent' = [sent EXCEPT ![e] = sent[e] + 1]
      /\ status' = [status EXCEPT ![e] = "out"]
      /\ UNCHANGED <<maxRetries, last, filter, state, cur, step, histVars, faults>>
  BY DEF Send
<1>2. \A x \in Events : /\ sent'[x] = IF x = e THEN sent[x] + 1 ELSE sent[x]
                        /\ status'[x] = IF x = e THEN "out" ELSE status[x]
  BY <1>1 DEF Inv, ServerType
<1>3. ServerType'
  BY <1>1, ServerTypes DEF Inv, ServerType
<1> DEFINE d == [event |-> e, num |-> sent[e] + 1]
<1>4. d \in Deliveries
  BY ServerTypes DEF Inv, Deliveries
<1>5. buffer' = [buffer EXCEPT ![s] = Append(buffer[s], d)]
  BY <1>2 DEF Send
<1>6. buffer[s] \in Seq(Deliveries)
  BY DEF Inv, ClientType
<1>7. /\ Append(buffer[s], d) \in Seq(Deliveries)
      /\ DOMAIN Append(buffer[s], d) = 1..(Len(buffer[s]) + 1)
      /\ \A i \in 1..Len(buffer[s]) : Append(buffer[s], d)[i] = buffer[s][i]
      /\ Append(buffer[s], d)[Len(buffer[s]) + 1] = d
  BY <1>4, <1>6
<1>8. ClientType'
  BY <1>1, <1>5, <1>7 DEF Inv, ClientType
<1>9. d.event = e /\ d.num = sent[e] + 1
  OBVIOUS
<1> HIDE DEF d
<1>10. \A t \in Sessions : \A i \in DOMAIN buffer'[t] :
         \/ i \in DOMAIN buffer[t] /\ buffer'[t][i] = buffer[t][i]
         \/ /\ t = s /\ i = Len(buffer[s]) + 1 /\ i \notin DOMAIN buffer[t]
            /\ buffer'[t][i] = d
  <2> TAKE t \in Sessions
  <2>1. CASE t = s
    <3>1. buffer'[t] = Append(buffer[s], d)
      BY <1>5, <2>1 DEF Inv, ClientType
    <3>2. DOMAIN buffer[s] = 1..Len(buffer[s]) /\ Len(buffer[s]) \in Nat
      BY DeliveryTypes DEF Inv
    <3> QED
      BY <1>7, <2>1, <3>1, <3>2
  <2>2. CASE t # s
    BY <1>5, <2>2 DEF Inv, ClientType
  <2> QED
    BY <2>1, <2>2
<1>11. \A t \in Sessions : \A i \in DOMAIN buffer[t] :
         buffer[t][i].event = e => e \in cut
  <2> SUFFICES ASSUME NEW t \in Sessions, NEW i \in DOMAIN buffer[t],
                      buffer[t][i].event = e, e \notin cut
               PROVE  FALSE
    OBVIOUS
  <2>1. status[e] = "out" /\ buffer[t][i].num = sent[e]
    BY DEF Inv, LatestInv
  <2>2. sent[e] # 0
    BY <2>1, DeliveryTypes DEF Inv
  <2>3. pos < e => sent[e] = 0
    BY ServerTypes DEF Inv, CountInv
  <2> QED
    BY <2>1, <2>2, <2>3
<1>12. \A t \in Sessions : Open(t) /\ cur[t].event = e => e \in cut
  <2> SUFFICES ASSUME NEW t \in Sessions, Open(t), cur[t].event = e, e \notin cut
               PROVE  FALSE
    OBVIOUS
  <2>1. status[e] = "out" /\ cur[t].num = sent[e]
    BY DEF Inv, LatestInv
  <2>2. sent[e] # 0
    BY <2>1, DeliveryTypes DEF Inv, Open
  <2>3. pos < e => sent[e] = 0
    BY ServerTypes DEF Inv, CountInv
  <2> QED
    BY <2>1, <2>2, <2>3
<1>13. HistType' /\ AckInv' /\ AckedInv'
  BY <1>1, <1>2, DeliveryTypes DEF Inv, HistType, AckInv, AckedInv, Relevant
<1>14. CountInv'
  <2>0. \A x \in Events : \A n \in Nat : n <= sent[x] => n <= sent'[x]
    BY <1>2, ServerTypes DEF Inv
  <2>1. \A t \in Sessions : step[t] # "idle" => cur[t].num <= sent'[cur[t].event]
    BY <2>0, DeliveryTypes DEF Inv, CountInv
  <2>2. \A t \in Sessions : \A i \in DOMAIN buffer[t] :
          buffer[t][i].num <= sent'[buffer[t][i].event]
    BY <2>0, DeliveryTypes DEF Inv, CountInv
  <2>3. d.num <= sent'[d.event]
    BY <1>2, <1>9, ServerTypes DEF Inv
  <2>4. \A t \in Sessions : \A i \in DOMAIN buffer'[t] :
          buffer'[t][i].num <= sent'[buffer'[t][i].event]
    BY <1>10, <2>2, <2>3
  <2>5. \A x \in Events : x > pos' => sent'[x] = 0 /\ status'[x] = "new"
    BY <1>2, ServerTypes DEF Inv, CountInv
  <2>6. \A x \in Events :
          /\ status'[x] = "retry" /\ maxRetries >= 0 => sent'[x] <= maxRetries
          /\ maxRetries >= 0 => sent'[x] <= maxRetries + 1
    BY <1>2, ServerTypes DEF Inv, CountInv
  <2>7. e \notin escalated
    BY ServerTypes DEF Inv, CountInv
  <2>8. \A x \in escalated : maxRetries >= 0 /\ sent'[x] = maxRetries + 1
    BY <1>2, <2>7 DEF Inv, CountInv, HistType
  <2> QED
    BY <1>1, <2>1, <2>4, <2>5, <2>6, <2>8 DEF CountInv
<1>15. LatestInv'
  <2>1. \A t \in Sessions : \A i \in DOMAIN buffer'[t] :
          buffer'[t][i].event \notin cut =>
            /\ status'[buffer'[t][i].event] = "out"
            /\ buffer'[t][i].num = sent'[buffer'[t][i].event]
    <3> TAKE t \in Sessions
    <3> TAKE i \in DOMAIN buffer'[t]
    <3>1. CASE i \in DOMAIN buffer[t] /\ buffer'[t][i] = buffer[t][i]
      BY <1>2, <1>11, <3>1, DeliveryTypes DEF Inv, LatestInv
    <3>2. CASE buffer'[t][i] = d
      BY <1>2, <1>9, <3>2
    <3> QED
      BY <1>10, <3>1, <3>2
  <2>2. \A t \in Sessions : Open(t) /\ cur[t].event \notin cut =>
          status'[cur[t].event] = "out" /\ cur[t].num = sent'[cur[t].event]
    BY <1>2, <1>12, DeliveryTypes DEF Inv, LatestInv, Open
  <2> QED
    BY <1>1, <2>1, <2>2 DEF LatestInv, Open
<1>16. UniqueInv'
  <2>1. \A t, u \in Sessions : \A i \in DOMAIN buffer'[t], j \in DOMAIN buffer'[u] :
          buffer'[t][i].event = buffer'[u][j].event /\ buffer'[t][i].event \notin cut
            => t = u /\ i = j
    <3> SUFFICES ASSUME NEW t \in Sessions, NEW u \in Sessions,
                        NEW i \in DOMAIN buffer'[t], NEW j \in DOMAIN buffer'[u],
                        buffer'[t][i].event = buffer'[u][j].event,
                        buffer'[t][i].event \notin cut
                 PROVE  t = u /\ i = j
      OBVIOUS
    <3>1. CASE buffer'[t][i] = buffer[t][i] /\ i \in DOMAIN buffer[t]
      BY <1>9, <1>10, <1>11, <3>1 DEF Inv, UniqueInv
    <3>2. CASE t = s /\ i = Len(buffer[s]) + 1 /\ buffer'[t][i] = d
      BY <1>9, <1>10, <1>11, <3>2
    <3> QED
      BY <1>10, <3>1, <3>2
  <2>2. \A t, u \in Sessions : \A i \in DOMAIN buffer'[t] :
          Open(u) /\ cur[u].event = buffer'[t][i].event => cur[u].event \in cut
    BY <1>9, <1>10, <1>12 DEF Inv, UniqueInv
  <2> QED
    BY <1>1, <2>1, <2>2 DEF Inv, UniqueInv, Open
<1>17. DeadInv'
  BY <1>1, <1>2 DEF Inv, DeadInv
<1> QED
  BY <1>3, <1>8, <1>13, <1>14, <1>15, <1>16, <1>17 DEF Inv

LEMMA SendNewIs ==
  ASSUME Inv, NEW s \in Sessions, SendNew(s)
  PROVE  \E e \in Events : pos < e /\ e <= last /\ Send(s, e) /\ pos' = e
<1> DEFINE matching == {e \in (pos + 1)..last : TypeOf[e] \in filter}
           e == Min(matching)
<1>1. matching # {} /\ Send(s, e) /\ pos' = e
  BY DEF SendNew
<1>2. matching \in SUBSET Nat
  BY ServerTypes DEF Inv
<1>3. e \in matching
  BY <1>1, <1>2, MinType
<1>4. e \in Events /\ pos < e /\ e <= last
  BY <1>3, ServerTypes, EventsType DEF Inv
<1> HIDE DEF e
<1> QED
  BY <1>1, <1>4

LEMMA SendNewKeeps ==
  ASSUME Inv, NEW s \in Sessions, SendNew(s)
  PROVE  Inv'
<1>1. PICK e \in Events : pos < e /\ e <= last /\ Send(s, e) /\ pos' = e
  BY SendNewIs
<1>2. pos' \in 0..last /\ pos' >= pos
  BY <1>1, ServerTypes DEF Inv
<1> QED
  BY <1>1, <1>2, SendKeeps

LEMMA SendAgainKeeps ==
  ASSUME Inv, NEW s \in Sessions, SendAgain(s)
  PROVE  Inv'
<1>1. PICK e \in 1..last : status[e] = "retry" /\ Send(s, e) /\ UNCHANGED pos
  BY DEF SendAgain
<1>2. e \in Events /\ pos' \in 0..last /\ pos' >= pos
  BY <1>1, ServerTypes, EventsType DEF Inv
<1> QED
  BY <1>1, <1>2, SendKeeps


\* AckWait runs out: the delivery ends without a verdict.
LEMMA ExpireKeeps ==
  ASSUME Inv, NEW e \in Events, Expire(e)
  PROVE  Inv'
<1>1. /\ status[e] = "out" /\ status' = [status EXCEPT ![e] = Refused(e)]
      /\ cut' = cut \cup {e}
      /\ UNCHANGED <<maxRetries, last, filter, pos, sent, state, buffer, cur, step,
                     handled, escalated>>
  BY DEF Expire, clientVars
<1>2. \A x \in Events : status'[x] = IF x = e THEN Refused(e) ELSE status[x]
  BY <1>1 DEF Inv, ServerType
<1>3. Refused(e) = IF maxRetries >= 0 /\ sent[e] > maxRetries THEN "dead" ELSE "retry"
  BY RefusedIs DEF Inv
<1>4. faults' \in 0..MaxFaults
  BY QueueAssumption DEF Inv, ServerType, Expire, Fault
<1>5. ServerType' /\ ClientType' /\ HistType'
  BY <1>1, <1>3, <1>4 DEF Inv, ServerType, ClientType, HistType
<1>6. AckInv' /\ AckedInv' /\ DeadInv'
  BY <1>1, <1>2, <1>3 DEF Inv, AckInv, AckedInv, DeadInv
<1>7. CountInv'
  <2>1. \A x \in Events : status'[x] = "retry" /\ maxRetries >= 0 => sent[x] <= maxRetries
    BY <1>2, <1>3, ServerTypes DEF Inv, CountInv
  <2>2. \A x \in Events : x > pos => sent[x] = 0 /\ status'[x] = "new"
    BY <1>1, <1>2 DEF Inv, CountInv
  <2> QED
    BY <1>1, <2>1, <2>2 DEF Inv, CountInv
<1>8. LatestInv'
  BY <1>1, <1>2, DeliveryTypes DEF Inv, LatestInv, Open
<1>9. UniqueInv'
  BY <1>1 DEF Inv, UniqueInv, Open
<1> QED
  BY <1>5, <1>6, <1>7, <1>8, <1>9 DEF Inv

LEMMA TakeKeeps ==
  ASSUME Inv, NEW s \in Sessions, Take(s)
  PROVE  Inv'
<1>1. /\ state[s] = "up" /\ step[s] = "idle" /\ buffer[s] # <<>>
      /\ cur' = [cur EXCEPT ![s] = Head(buffer[s])]
      /\ buffer' = [buffer EXCEPT ![s] = Tail(buffer[s])]
      /\ UNCHANGED <<maxRetries, last, filter, pos, status, sent, state, handled,
                     escalated, cut, faults>>
  BY DEF Take, serverVars, histVars
<1>2. buffer[s] \in Seq(Deliveries)
  BY DEF Inv, ClientType
<1>3. /\ Tail(buffer[s]) \in Seq(Deliveries) /\ Head(buffer[s]) = buffer[s][1]
      /\ Head(buffer[s]) \in Deliveries /\ 1 \in DOMAIN buffer[s]
      /\ DOMAIN Tail(buffer[s]) = 1..(Len(buffer[s]) - 1)
      /\ \A i \in 1..(Len(buffer[s]) - 1) : Tail(buffer[s])[i] = buffer[s][i + 1]
  BY <1>1, <1>2
<1>4. \A t \in Sessions : cur'[t] = IF t = s THEN buffer[s][1] ELSE cur[t]
  BY <1>1, <1>3 DEF Inv, ClientType
<1>5. \A t \in Sessions : \A i \in DOMAIN buffer'[t] :
        /\ t = s => /\ i \in Nat \ {0} /\ i + 1 \in DOMAIN buffer[s]
                    /\ buffer'[t][i] = buffer[s][i + 1]
        /\ t # s => i \in DOMAIN buffer[t] /\ buffer'[t][i] = buffer[t][i]
  <2> TAKE t \in Sessions
  <2>1. CASE t = s
    <3>1. buffer'[t] = Tail(buffer[s])
      BY <1>1, <2>1 DEF Inv, ClientType
    <3>2. DOMAIN buffer[s] = 1..Len(buffer[s]) /\ Len(buffer[s]) \in Nat
      BY DeliveryTypes DEF Inv
    <3> QED
      BY <1>3, <2>1, <3>1, <3>2
  <2>2. CASE t # s
    BY <1>1, <2>2 DEF Inv, ClientType
  <2> QED
    BY <2>1, <2>2
<1>6. PICK where \in {"running", "ack"} :
        /\ step' = [step EXCEPT ![s] = where]
        /\ where = "ack" => ~Relevant(cur'[s].event, GroupOf[s])
  BY DEF Take, GoTo
<1>7. \A t \in Sessions : step'[t] = IF t = s THEN where ELSE step[t]
  BY <1>6 DEF Inv, ClientType
<1>8. ServerType' /\ HistType'
  BY <1>1 DEF Inv, ServerType, HistType
<1>9. \A d \in Deliveries : d # Idle
  BY EventsType DEF Deliveries, Idle
<1>10. ClientType'
  <2>1. /\ buffer' \in [Sessions -> Seq(Deliveries)]
        /\ cur' \in [Sessions -> Deliveries \cup {Idle}]
        /\ step' \in [Sessions -> {"idle", "running", "ack", "nak", "report"}]
    BY <1>1, <1>3, <1>6 DEF Inv, ClientType
  <2>2. \A t \in Sessions : cur'[t] = Idle <=> step'[t] = "idle"
    BY <1>3, <1>4, <1>7, <1>9 DEF Inv, ClientType
  <2> QED
    BY <1>1, <2>1, <2>2 DEF Inv, ClientType
<1>11. AckInv' /\ AckedInv' /\ DeadInv'
  BY <1>1, <1>4, <1>6, <1>7 DEF Inv, AckInv, AckedInv, DeadInv, Relevant
<1>12. CountInv'
  <2>1. \A t \in Sessions : step'[t] # "idle" => cur'[t].num <= sent[cur'[t].event]
    BY <1>3, <1>4, <1>7 DEF Inv, CountInv
  <2>2. \A t \in Sessions : \A i \in DOMAIN buffer'[t] :
          buffer'[t][i].num <= sent[buffer'[t][i].event]
    BY <1>5 DEF Inv, CountInv
  <2> QED
    BY <1>1, <2>1, <2>2 DEF Inv, CountInv
<1>13. LatestInv'
  <2>1. \A t \in Sessions : \A i \in DOMAIN buffer'[t] :
          buffer'[t][i].event \notin cut => /\ status[buffer'[t][i].event] = "out"
                                            /\ buffer'[t][i].num = sent[buffer'[t][i].event]
    BY <1>5 DEF Inv, LatestInv
  <2>2. \A t \in Sessions : Open(t)' /\ cur'[t].event \notin cut =>
          status[cur'[t].event] = "out" /\ cur'[t].num = sent[cur'[t].event]
    BY <1>3, <1>4, <1>7 DEF Inv, LatestInv, Open
  <2> QED
    BY <1>1, <2>1, <2>2 DEF LatestInv
<1>14. UniqueInv'
  <2>1. \A t, u \in Sessions : \A i \in DOMAIN buffer'[t], j \in DOMAIN buffer'[u] :
          buffer'[t][i].event = buffer'[u][j].event /\ buffer'[t][i].event \notin cut
            => t = u /\ i = j
    <3> SUFFICES ASSUME NEW t \in Sessions, NEW u \in Sessions,
                        NEW i \in DOMAIN buffer'[t], NEW j \in DOMAIN buffer'[u],
                        buffer'[t][i].event = buffer'[u][j].event,
                        buffer'[t][i].event \notin cut
                 PROVE  t = u /\ i = j
      OBVIOUS
    <3>1. PICK k \in DOMAIN buffer[t] : buffer'[t][i] = buffer[t][k] /\ k = IF t = s THEN i + 1 ELSE i
      BY <1>5
    <3>2. PICK l \in DOMAIN buffer[u] : buffer'[u][j] = buffer[u][l] /\ l = IF u = s THEN j + 1 ELSE j
      BY <1>5
    <3>3. t = u /\ k = l
      BY <3>1, <3>2 DEF Inv, UniqueInv
    <3>4. t = s => i \in Nat /\ j \in Nat
      BY <1>5, <3>3
    <3> QED
      BY <3>1, <3>2, <3>3, <3>4
  <2>2. \A t, u \in Sessions : \A i \in DOMAIN buffer'[t] :
          Open(u)' /\ cur'[u].event = buffer'[t][i].event => cur'[u].event \in cut
    <3> SUFFICES ASSUME NEW t \in Sessions, NEW u \in Sessions,
                        NEW i \in DOMAIN buffer'[t],
                        Open(u)', cur'[u].event = buffer'[t][i].event
                 PROVE  cur'[u].event \in cut
      OBVIOUS
    <3>1. PICK k \in DOMAIN buffer[t] :
            /\ buffer'[t][i] = buffer[t][k]
            /\ IF t = s THEN k = i + 1 /\ i \in Nat \ {0} ELSE k = i
      BY <1>5
    <3>2. CASE u = s
      <4>1. cur'[u] = buffer[s][1]
        BY <1>4, <3>2
      <4>2. t = s => k # 1
        BY <3>1
      <4> QED
        BY <1>3, <3>1, <4>1, <4>2 DEF Inv, UniqueInv
    <3>3. CASE u # s
      BY <1>4, <1>7, <3>1, <3>3 DEF Inv, UniqueInv, Open
    <3> QED
      BY <3>2, <3>3
  <2>3. \A t, u \in Sessions :
          /\ Open(t)' /\ Open(u)' /\ cur'[t].event = cur'[u].event
          /\ cur'[t].event \notin cut
          => t = u
    BY <1>3, <1>4, <1>7 DEF Inv, UniqueInv, Open
  <2> QED
    BY <1>1, <2>1, <2>2, <2>3 DEF UniqueInv
<1> QED
  BY <1>8, <1>10, <1>11, <1>12, <1>13, <1>14 DEF Inv

\* dispatchEventGroup: on to the acknowledgement only if every handler succeeded.
LEMMA RunKeeps ==
  ASSUME Inv, NEW s \in Sessions, Run(s)
  PROVE  Inv'
<1>1. PICK failing \in SUBSET Handlers :
        /\ step[s] = "running"
        /\ IF failing = {} THEN UNCHANGED faults ELSE Fault
        /\ GoTo(s, IF GroupFails(failing) THEN "nak" ELSE "ack")
        /\ handled' = IF failing = {} THEN handled \cup {<<cur[s].event, GroupOf[s]>>}
                      ELSE handled
        /\ UNCHANGED <<maxRetries, serverVars, state, buffer, cur, escalated, cut>>
  BY DEF Run
<1>2. UNCHANGED <<maxRetries, last, filter, pos, status, sent, state, buffer, cur,
                  escalated, cut>>
  BY <1>1 DEF serverVars
<1>3. PICK where \in {"nak", "ack"} :
        /\ step' = [step EXCEPT ![s] = where]
        /\ where = "ack" => <<cur[s].event, GroupOf[s]>> \in handled'
  BY <1>1 DEF GoTo, GroupFails
<1>4. handled \subseteq handled' /\ handled' \subseteq handled \cup {<<cur[s].event, GroupOf[s]>>}
  BY <1>1
<1>5. \A t \in Sessions : step'[t] = IF t = s THEN where ELSE step[t]
  BY <1>3 DEF Inv, ClientType
<1>6. faults' \in 0..MaxFaults
  BY <1>1, QueueAssumption DEF Inv, ServerType, Fault
<1>7. ServerType' /\ ClientType'
  BY <1>1, <1>2, <1>3, <1>5, <1>6 DEF Inv, ServerType, ClientType
<1>8. HistType'
  <2>1. cur[s].event \in Events /\ GroupOf[s] \in Groups
    BY <1>1, DeliveryTypes, QueueAssumption DEF Inv
  <2> QED
    BY <1>2, <1>4, <2>1 DEF Inv, HistType
<1>9. AckInv' /\ AckedInv'
  BY <1>2, <1>3, <1>4, <1>5 DEF Inv, AckInv, AckedInv, Relevant
<1>10. CountInv' /\ DeadInv'
  BY <1>1, <1>2, <1>5 DEF Inv, CountInv, DeadInv
<1>11. LatestInv' /\ UniqueInv'
  BY <1>1, <1>2, <1>5 DEF Inv, LatestInv, UniqueInv, Open
<1> QED
  BY <1>7, <1>8, <1>9, <1>10, <1>11 DEF Inv

LEMMA AckKeeps ==
  ASSUME Inv, NEW s \in Sessions, Ack(s)
  PROVE  Inv'
<1> DEFINE e == cur[s].event
<1>1. /\ step[s] = "ack"
      /\ step' = [step EXCEPT ![s] = "idle"] /\ cur' = [cur EXCEPT ![s] = Idle]
      /\ UNCHANGED <<maxRetries, last, filter, pos, sent, state, buffer, handled,
                     escalated, cut>>
  BY DEF Ack, Release, GoTo, histVars
<1>2. e \in Events
  BY <1>1, DeliveryTypes DEF Inv
<1>3. \/ status[e] \in {"out", "retry"} /\ status' = [status EXCEPT ![e] = "acked"]
      \/ UNCHANGED status
  BY DEF Ack
<1>4. faults' \in 0..MaxFaults
  BY QueueAssumption DEF Inv, ServerType, Ack, Fault
<1> HIDE DEF e
<1>5. \A x \in Events :
        \/ status'[x] = status[x]
        \/ x = e /\ status'[x] = "acked" /\ status[x] \in {"out", "retry"}
  BY <1>2, <1>3 DEF Inv, ServerType
<1>6. \A t \in Sessions : /\ step'[t] = IF t = s THEN "idle" ELSE step[t]
                          /\ cur'[t] = IF t = s THEN Idle ELSE cur[t]
  BY <1>1 DEF Inv, ClientType
<1>7. ServerType' /\ HistType'
  BY <1>1, <1>2, <1>3, <1>4 DEF Inv, ServerType, HistType
<1>8. ClientType'
  BY <1>1, <1>6 DEF Inv, ClientType
<1>9. AckInv'
  BY <1>1, <1>6 DEF Inv, AckInv
<1>10. AckedInv'
  <2>1. Relevant(e, GroupOf[s]) => <<e, GroupOf[s]>> \in handled
    BY <1>1 DEF Inv, AckInv, e
  <2> QED
    BY <1>1, <1>5, <2>1 DEF Inv, AckedInv, Relevant
<1>11. CountInv'
  BY <1>1, <1>5, <1>6 DEF Inv, CountInv
<1>12. LatestInv'
  <2>1. \A t \in Sessions : \A i \in DOMAIN buffer[t] :
          buffer[t][i].event \notin cut => buffer[t][i].event # e
    BY <1>1 DEF Inv, UniqueInv, Open, e
  <2>2. \A t \in Sessions \ {s} : Open(t) /\ cur[t].event \notin cut => cur[t].event # e
    BY <1>1 DEF Inv, UniqueInv, Open, e
  <2>3. \A x \in Events : x # e => status'[x] = status[x]
    BY <1>5
  <2>4. \A t \in Sessions : \A i \in DOMAIN buffer[t] : buffer[t][i].event \notin cut =>
          /\ status'[buffer[t][i].event] = "out"
          /\ buffer[t][i].num = sent[buffer[t][i].event]
    BY <2>1, <2>3, DeliveryTypes DEF Inv, LatestInv
  <2>5. \A t \in Sessions : Open(t)' /\ cur'[t].event \notin cut =>
          status'[cur'[t].event] = "out" /\ cur'[t].num = sent[cur'[t].event]
    BY <1>6, <2>2, <2>3, DeliveryTypes DEF Inv, LatestInv, Open
  <2> QED
    BY <1>1, <2>4, <2>5 DEF LatestInv
<1>13. UniqueInv'
  BY <1>1, <1>6 DEF Inv, UniqueInv, Open
<1>14. DeadInv'
  BY <1>1, <1>5, <1>6 DEF Inv, DeadInv
<1> QED
  BY <1>7, <1>8, <1>9, <1>10, <1>11, <1>12, <1>13, <1>14 DEF Inv

LEMMA NakKeeps ==
  ASSUME Inv, NEW s \in Sessions, Nak(s)
  PROVE  Inv'
<1> DEFINE e == cur[s].event
<1>1. /\ step[s] = "nak" /\ step' = [step EXCEPT ![s] = "report"]
      /\ UNCHANGED <<maxRetries, last, filter, pos, sent, state, buffer, cur, handled,
                     escalated, cut>>
  BY DEF Nak, GoTo, histVars
<1>2. e \in Events
  BY <1>1, DeliveryTypes DEF Inv
<1>3. \/ status[e] = "out" /\ status' = [status EXCEPT ![e] = Refused(e)]
      \/ UNCHANGED status
  BY DEF Nak
<1>4. Refused(e) = IF maxRetries >= 0 /\ sent[e] > maxRetries THEN "dead" ELSE "retry"
  BY <1>2, RefusedIs DEF Inv
<1>5. faults' \in 0..MaxFaults
  BY QueueAssumption DEF Inv, ServerType, Nak, Fault
<1> HIDE DEF e
<1>6. \A x \in Events :
        \/ status'[x] = status[x]
        \/ x = e /\ status'[x] = Refused(e) /\ status[x] = "out"
  BY <1>2, <1>3 DEF Inv, ServerType
<1>7. \A t \in Sessions : step'[t] = IF t = s THEN "report" ELSE step[t]
  BY <1>1 DEF Inv, ClientType
<1>8. ServerType' /\ HistType'
  BY <1>1, <1>2, <1>3, <1>4, <1>5 DEF Inv, ServerType, HistType
<1>9. ClientType'
  BY <1>1, <1>7 DEF Inv, ClientType
<1>10. AckInv' /\ AckedInv'
  BY <1>1, <1>4, <1>6, <1>7 DEF Inv, AckInv, AckedInv
<1>11. CountInv'
  <2>1. \A x \in Events : status'[x] = "retry" /\ maxRetries >= 0 => sent[x] <= maxRetries
    BY <1>4, <1>6, ServerTypes DEF Inv, CountInv
  <2>2. \A x \in Events : x > pos => sent[x] = 0 /\ status'[x] = "new"
    BY <1>6 DEF Inv, CountInv
  <2> QED
    BY <1>1, <1>7, <2>1, <2>2 DEF Inv, CountInv
<1>12. LatestInv'
  <2>1. \A t \in Sessions : \A i \in DOMAIN buffer[t] :
          buffer[t][i].event \notin cut => buffer[t][i].event # e
    BY <1>1 DEF Inv, UniqueInv, Open, e
  <2>2. \A t \in Sessions \ {s} : Open(t) /\ cur[t].event \notin cut => cur[t].event # e
    BY <1>1 DEF Inv, UniqueInv, Open, e
  <2>3. \A x \in Events : x # e => status'[x] = status[x]
    BY <1>6
  <2>4. \A t \in Sessions : \A i \in DOMAIN buffer[t] : buffer[t][i].event \notin cut =>
          /\ status'[buffer[t][i].event] = "out"
          /\ buffer[t][i].num = sent[buffer[t][i].event]
    BY <2>1, <2>3, DeliveryTypes DEF Inv, LatestInv
  <2>5. \A t \in Sessions : Open(t)' /\ cur[t].event \notin cut =>
          status'[cur[t].event] = "out" /\ cur[t].num = sent[cur[t].event]
    BY <1>7, <2>2, <2>3, DeliveryTypes DEF Inv, LatestInv, Open
  <2> QED
    BY <1>1, <2>4, <2>5 DEF LatestInv
<1>13. UniqueInv'
  BY <1>1, <1>7 DEF Inv, UniqueInv, Open
<1>14. DeadInv'
  <2> SUFFICES ASSUME NEW x \in Events, status'[x] = "dead", x \notin cut,
                      x \notin escalated
               PROVE  \E t \in Sessions : /\ step'[t] = "report" /\ cur[t].event = x
                                          /\ maxRetries >= 0 /\ cur[t].num > maxRetries
    BY <1>1 DEF DeadInv
  <2>1. CASE status[x] = "dead"
    BY <1>1, <1>7, <2>1 DEF Inv, DeadInv
  <2>2. CASE x = e /\ status'[x] = Refused(e)
    <3>1. maxRetries >= 0 /\ sent[e] > maxRetries
      BY <1>4, <2>2
    <3>2. cur[s].num = sent[e]
      BY <1>1, <2>2 DEF Inv, LatestInv, Open, e
    <3> QED
      BY <1>7, <2>2, <3>1, <3>2 DEF e
  <2> QED
    BY <1>6, <2>1, <2>2
<1> QED
  BY <1>8, <1>9, <1>10, <1>11, <1>12, <1>13, <1>14 DEF Inv

\* A session that lets go of a delivery, or of those it pulled ahead.
LEMMA DropKeeps ==
  ASSUME Inv, NEW s \in Sessions,
         UNCHANGED <<maxRetries, last, filter, pos, status, sent, handled>>,
         faults' \in 0..MaxFaults,
         state' \in [Sessions -> {"down", "up", "stopping"}],
         UNCHANGED buffer \/ buffer' = [buffer EXCEPT ![s] = <<>>],
         UNCHANGED <<cur, step>> \/ Release(s),
         cut \subseteq cut', cut' \subseteq Events,
         escalated \subseteq escalated', escalated' \subseteq Events,
         \A x \in escalated' : maxRetries >= 0 /\ sent[x] = maxRetries + 1,
         \/ UNCHANGED <<cur, step>>
         \/ cur[s].event \in cut' \cup escalated'
         \/ step[s] # "report" \/ ~(maxRetries >= 0 /\ cur[s].num > maxRetries)
  PROVE  Inv'
<1>1. \A t \in Sessions :
        \/ step'[t] = step[t] /\ cur'[t] = cur[t]
        \/ t = s /\ step'[t] = "idle" /\ cur'[t] = Idle
  BY DEF Inv, ClientType, Release, GoTo
<1>2. <<>> \in Seq(Deliveries) /\ DOMAIN <<>> = {}
  OBVIOUS
<1>3. buffer' \in [Sessions -> Seq(Deliveries)]
  BY <1>2 DEF Inv, ClientType
<1>4. \A t \in Sessions : \A i \in DOMAIN buffer'[t] :
        i \in DOMAIN buffer[t] /\ buffer'[t][i] = buffer[t][i]
  BY <1>2 DEF Inv, ClientType
<1>5. ServerType' /\ HistType'
  BY DEF Inv, ServerType, HistType
<1>6. ClientType'
  <2>1. /\ cur' \in [Sessions -> Deliveries \cup {Idle}]
        /\ step' \in [Sessions -> {"idle", "running", "ack", "nak", "report"}]
    BY DEF Inv, ClientType, Release, GoTo
  <2>2. \A t \in Sessions : cur'[t] = Idle <=> step'[t] = "idle"
    BY <1>1 DEF Inv, ClientType
  <2> QED
    BY <1>3, <2>1, <2>2 DEF ClientType
<1>7. AckInv' /\ AckedInv'
  BY <1>1 DEF Inv, AckInv, AckedInv
<1>8. CountInv'
  BY <1>1, <1>4 DEF Inv, CountInv
<1>9. LatestInv'
  BY <1>1, <1>4 DEF Inv, LatestInv, Open
<1>10. UniqueInv'
  BY <1>1, <1>4 DEF Inv, UniqueInv, Open
<1>11. DeadInv'
  <2> SUFFICES ASSUME NEW x \in Events, status[x] = "dead", x \notin cut',
                      x \notin escalated'
               PROVE  \E t \in Sessions : /\ step'[t] = "report" /\ cur'[t].event = x
                                          /\ maxRetries >= 0 /\ cur'[t].num > maxRetries
    BY DEF DeadInv
  <2>1. PICK t \in Sessions : /\ step[t] = "report" /\ cur[t].event = x
                              /\ maxRetries >= 0 /\ cur[t].num > maxRetries
    BY DEF Inv, DeadInv
  <2>2. step'[t] = step[t] /\ cur'[t] = cur[t]
    BY <1>1, <2>1
  <2> QED
    BY <2>1, <2>2
<1> QED
  BY <1>5, <1>6, <1>7, <1>8, <1>9, <1>10, <1>11 DEF Inv

LEMMA ExpectRetryKeeps ==
  ASSUME Inv, NEW s \in Sessions, ExpectRetry(s)
  PROVE  Inv'
<1>1. step[s] = "report" /\ maxRetries \in Int /\ cur[s].num \in Nat
  BY ServerTypes, DeliveryTypes DEF Inv, ExpectRetry
<1>2. ~(maxRetries >= 0 /\ cur[s].num > maxRetries)
  BY <1>1 DEF ExpectRetry
<1>3. /\ UNCHANGED <<maxRetries, last, filter, pos, status, sent, handled>>
      /\ UNCHANGED <<state, buffer, escalated, cut, faults>> /\ Release(s)
  BY DEF ExpectRetry, serverVars, histVars
<1> QED
  BY <1>2, <1>3, DropKeeps DEF Inv, ServerType, ClientType, HistType, CountInv

\* The last delivery has failed: MaxDeliver leaves no other.
LEMMA EscalateKeeps ==
  ASSUME Inv, NEW s \in Sessions, Escalate(s)
  PROVE  Inv'
<1> DEFINE e == cur[s].event
<1>1. /\ step[s] = "report" /\ maxRetries >= 0 /\ cur[s].num > maxRetries
      /\ escalated' = escalated \cup {e} /\ Release(s)
      /\ UNCHANGED <<maxRetries, last, filter, pos, status, sent, handled, faults>>
      /\ UNCHANGED buffer \/ buffer' = [buffer EXCEPT ![s] = <<>>]
      /\ UNCHANGED state \/ state' = [state EXCEPT ![s] = "stopping"]
      /\ \/ UNCHANGED cut
         \/ cut' = cut \cup {buffer[s][i].event : i \in DOMAIN buffer[s]}
  BY DEF Escalate, serverVars
<1>2. e \in Events /\ cur[s].num \in Nat /\ sent[e] \in Nat /\ maxRetries \in Int
  BY <1>1, ServerTypes, DeliveryTypes DEF Inv
<1>3. cur[s].num <= sent[e] /\ sent[e] <= maxRetries + 1
  BY <1>1, <1>2 DEF Inv, CountInv
<1>4. sent[e] = maxRetries + 1
  BY <1>1, <1>2, <1>3
<1> HIDE DEF e
<1>5. \A x \in escalated' : maxRetries >= 0 /\ sent[x] = maxRetries + 1
  BY <1>1, <1>4 DEF Inv, CountInv
<1>6. cut \subseteq cut' /\ cut' \subseteq Events
  BY <1>1, DeliveryTypes DEF Inv, HistType
<1>7. escalated \subseteq escalated' /\ escalated' \subseteq Events
  BY <1>1, <1>2 DEF Inv, HistType
<1>8. state' \in [Sessions -> {"down", "up", "stopping"}] /\ faults' \in 0..MaxFaults
  BY <1>1 DEF Inv, ServerType, ClientType
<1>9. cur[s].event \in cut' \cup escalated'
  BY <1>1 DEF e
<1> QED
  BY <1>1, <1>5, <1>6, <1>7, <1>8, <1>9, DropKeeps

LEMMA StopKeeps ==
  ASSUME Inv, NEW s \in Sessions, Stop(s)
  PROVE  Inv'
<1>1. /\ UNCHANGED <<maxRetries, last, filter, pos, status, sent, handled>>
      /\ UNCHANGED <<cur, step>> /\ UNCHANGED escalated
      /\ buffer' = [buffer EXCEPT ![s] = <<>>]
  BY DEF Stop, serverVars
<1>2. cut \subseteq cut' /\ cut' \subseteq Events
  BY DeliveryTypes DEF Inv, HistType, Stop
<1>3. state' \in [Sessions -> {"down", "up", "stopping"}]
  BY DEF Inv, ClientType, Stop
<1>4. faults' \in 0..MaxFaults
  BY QueueAssumption DEF Inv, ServerType, Stop, Fault
<1>5. /\ escalated' = escalated /\ escalated \subseteq Events
      /\ \A x \in escalated : maxRetries >= 0 /\ sent[x] = maxRetries + 1
  BY <1>1 DEF Inv, HistType, CountInv
<1> QED
  BY <1>1, <1>2, <1>3, <1>4, <1>5, DropKeeps

LEMMA StoppedKeeps ==
  ASSUME Inv, NEW s \in Sessions, Stopped(s)
  PROVE  Inv'
<1>1. /\ UNCHANGED <<maxRetries, last, filter, pos, status, sent, handled>>
      /\ UNCHANGED <<cur, step>> /\ UNCHANGED <<buffer, escalated, cut, faults>>
  BY DEF Stopped, serverVars, histVars
<1>2. state' \in [Sessions -> {"down", "up", "stopping"}]
  BY DEF Inv, ClientType, Stopped
<1> QED
  BY <1>1, <1>2, DropKeeps DEF Inv, ServerType, HistType, CountInv

LEMMA CrashKeeps ==
  ASSUME Inv, NEW s \in Sessions, Crash(s)
  PROVE  Inv'
<1>1. /\ UNCHANGED <<maxRetries, last, filter, pos, status, sent, handled>>
      /\ Release(s) /\ UNCHANGED escalated
      /\ buffer' = [buffer EXCEPT ![s] = <<>>]
  BY DEF Crash, serverVars
<1>2. /\ cut \subseteq cut'
      /\ cut' \subseteq Events
      /\ step[s] = "report" => cur[s].event \in cut'
  <2>1. cur[s].event = 0 \/ cur[s].event \in Events
    BY DeliveryTypes DEF Inv
  <2>2. step[s] = "report" => cur[s].event \in Events
    BY DeliveryTypes DEF Inv
  <2>3. cut' = cut \cup {buffer[s][i].event : i \in DOMAIN buffer[s]}
                   \cup ({cur[s].event} \ {0})
    BY DEF Crash
  <2> QED
    BY <2>1, <2>2, <2>3, DeliveryTypes, EventsType DEF Inv, HistType
<1>3. state' \in [Sessions -> {"down", "up", "stopping"}]
  BY DEF Inv, ClientType, Crash
<1>4. faults' \in 0..MaxFaults
  BY QueueAssumption DEF Inv, ServerType, Crash, Fault
<1>5. /\ escalated' = escalated /\ escalated \subseteq Events
      /\ \A x \in escalated : maxRetries >= 0 /\ sent[x] = maxRetries + 1
  BY <1>1 DEF Inv, HistType, CountInv
<1> QED
  BY <1>1, <1>2, <1>3, <1>4, <1>5, DropKeeps

LEMMA InitInv == Init => Inv
<1> SUFFICES ASSUME Init
             PROVE  Inv
  OBVIOUS
<1>1. <<>> \in Seq(Deliveries) /\ DOMAIN <<>> = {}
  OBVIOUS
<1>2. ServerType /\ ClientType /\ HistType
  BY <1>1, EventsType, QueueAssumption DEF Init, ServerType, ClientType, HistType
<1>3. AckInv /\ AckedInv /\ DeadInv
  BY DEF Init, AckInv, AckedInv, DeadInv
<1>4. CountInv
  BY <1>1, QueueAssumption DEF Init, CountInv
<1>5. LatestInv /\ UniqueInv
  BY <1>1 DEF Init, LatestInv, UniqueInv, Open
<1> QED
  BY <1>2, <1>3, <1>4, <1>5 DEF Inv

LEMMA InvInductive == Inv /\ [Next]_vars => Inv'
<1> SUFFICES ASSUME Inv, [Next]_vars
             PROVE  Inv'
  OBVIOUS
<1>1. CASE Publish
  BY <1>1, PublishKeeps
<1>2. CASE \E e \in Events : Expire(e)
  BY <1>2, ExpireKeeps
<1>3. ASSUME NEW s \in Sessions, SessionStep(s) \/ Stop(s) \/ Crash(s)
      PROVE  Inv'
  BY <1>3, SubscribeKeeps, SendNewKeeps, SendAgainKeeps, TakeKeeps, RunKeeps,
     AckKeeps, NakKeeps, ExpectRetryKeeps, EscalateKeeps, StopKeeps, StoppedKeeps,
     CrashKeeps DEF SessionStep
<1>4. CASE UNCHANGED vars
  <2>1. UNCHANGED <<maxRetries, last, filter, pos, status, sent, state, buffer, cur,
                    step, handled, escalated, cut, faults>>
    BY <1>4 DEF vars, serverVars, clientVars, histVars
  <2>2. ServerType' /\ ClientType' /\ HistType' /\ AckInv' /\ AckedInv'
    BY <2>1 DEF Inv, ServerType, ClientType, HistType, AckInv, AckedInv
  <2>3. CountInv' /\ DeadInv'
    BY <2>1 DEF Inv, CountInv, DeadInv
  <2>4. LatestInv' /\ UniqueInv'
    BY <2>1 DEF Inv, LatestInv, UniqueInv, Open
  <2> QED
    BY <2>2, <2>3, <2>4 DEF Inv
<1> QED
  BY <1>1, <1>2, <1>3, <1>4 DEF Next

LEMMA Invariance == Spec => []Inv
BY InitInv, InvInductive, PTL DEF Spec

-----------------------------------------------------------------------------
(* Results *)

\* Types, for every configuration.
THEOREM TypeCorrect == Spec => []TypeOK
<1>1. Inv => TypeOK
  BY DEF Inv, ServerType, ClientType, HistType, TypeOK
<1> QED
  BY <1>1, Invariance, PTL

\* An event that will not be delivered again (Refused at MaxDeliver) was
\* reported by onError, unless a delivery of it ended without a verdict.
THEOREM Reported == Spec => []ExhaustedIsReported
<1>1. Inv => ExhaustedIsReported
  BY DEF Inv, DeadInv, ExhaustedIsReported, Held
<1> QED
  BY <1>1, Invariance, PTL

-----------------------------------------------------------------------------
(* A report is final *)

\* The places for a delivery in a session: handleMessage, and the buffer.
Slots(t) == 0..Len(buffer[t])
Slot(t, i) == IF i = 0 THEN cur[t] ELSE buffer[t][i]

\* No delivery is in two places.
SlotInv ==
  \A t, u \in Sessions : \A i \in Slots(t), j \in Slots(u) :
    Slot(t, i) = Slot(u, j) /\ Slot(t, i) # Idle => t = u /\ i = j

\* Of an event that is reported only earlier deliveries are left.
EarlierInv ==
  \A t \in Sessions : \A i \in Slots(t) :
    Slot(t, i).event \in escalated => Slot(t, i).num <= maxRetries

\* The three ways in which a step moves deliveries: it may drop some, start with
\* the first one of a buffer, or add one.
Kept ==
  \A t \in Sessions : \A i \in Slots(t)' : i \in Slots(t) /\ Slot(t, i)' \in {Slot(t, i), Idle}
Shifted(s) ==
  /\ cur[s] = Idle
  /\ \A t \in Sessions : \A i \in Slots(t)' :
       /\ t # s => i \in Slots(t) /\ Slot(t, i)' = Slot(t, i)
       /\ t = s => i + 1 \in Slots(t) /\ Slot(t, i)' = Slot(t, i + 1)
Added(s, e) ==
  \A t \in Sessions : \A i \in Slots(t)' :
    \/ i \in Slots(t) /\ Slot(t, i)' = Slot(t, i)
    \/ t = s /\ i = Len(buffer[s]) + 1 /\ Slot(t, i)' = [event |-> e, num |-> sent[e] + 1]

LEMMA SlotTypes ==
  ASSUME ClientType, NEW t \in Sessions, NEW i \in Slots(t)
  PROVE  /\ i \in Nat /\ Len(buffer[t]) \in Nat /\ buffer[t] \in Seq(Deliveries)
         /\ Slot(t, i) \in Deliveries \cup {Idle}
         /\ i # 0 => i \in DOMAIN buffer[t] /\ Slot(t, i) \in Deliveries
         /\ Slot(t, i).event \in Events => Slot(t, i).num \in Nat /\ Slot(t, i) # Idle
<1>1. buffer[t] \in Seq(Deliveries) /\ cur[t] \in Deliveries \cup {Idle}
  BY DEF ClientType
<1>2. Len(buffer[t]) \in Nat /\ DOMAIN buffer[t] = 1..Len(buffer[t])
  BY <1>1
<1>3. i \in Nat /\ (i # 0 => i \in DOMAIN buffer[t])
  BY <1>2 DEF Slots
<1>4. Slot(t, i) \in Deliveries \cup {Idle} /\ (i # 0 => Slot(t, i) \in Deliveries)
  BY <1>1, <1>3 DEF Slot
<1>5. \A d \in Deliveries : d.num \in Nat
  BY DEF Deliveries
<1>6. Idle.event \notin Events
  BY EventsType DEF Idle
<1> QED
  BY <1>1, <1>2, <1>3, <1>4, <1>5, <1>6

LEMMA DropsKeep ==
  ASSUME ClientType, NEW s \in Sessions,
         cur' = cur \/ cur' = [cur EXCEPT ![s] = Idle],
         buffer' = buffer \/ buffer' = [buffer EXCEPT ![s] = <<>>]
  PROVE  Kept
<1> SUFFICES ASSUME NEW t \in Sessions, NEW i \in Slots(t)'
             PROVE  i \in Slots(t) /\ Slot(t, i)' \in {Slot(t, i), Idle}
  BY DEF Kept
<1>1. cur'[t] \in {cur[t], Idle}
  BY DEF ClientType
<1>2. buffer'[t] = buffer[t] \/ buffer'[t] = <<>>
  BY DEF ClientType
<1>3. Len(buffer[t]) \in Nat /\ Len(<<>>) = 0
  BY DeliveryTypes
<1>4. CASE buffer'[t] = buffer[t]
  BY <1>1, <1>4 DEF Slots, Slot
<1>5. CASE buffer'[t] = <<>>
  <2>1. i = 0
    BY <1>3, <1>5 DEF Slots
  <2> QED
    BY <1>1, <1>3, <2>1 DEF Slots, Slot
<1> QED
  BY <1>2, <1>4, <1>5

LEMMA TakeShifts ==
  ASSUME ClientType, NEW s \in Sessions, Take(s)
  PROVE  Shifted(s)
<1>1. /\ step[s] = "idle" /\ buffer[s] # <<>>
      /\ cur' = [cur EXCEPT ![s] = Head(buffer[s])]
      /\ buffer' = [buffer EXCEPT ![s] = Tail(buffer[s])]
  BY DEF Take
<1>2. buffer[s] \in Seq(Deliveries) /\ cur[s] = Idle
  BY <1>1 DEF ClientType
<1>3. /\ Head(buffer[s]) = buffer[s][1] /\ Len(buffer[s]) \in Nat \ {0}
      /\ Len(Tail(buffer[s])) = Len(buffer[s]) - 1
      /\ \A i \in 1..(Len(buffer[s]) - 1) : Tail(buffer[s])[i] = buffer[s][i + 1]
  BY <1>1, <1>2
<1>4. ASSUME NEW t \in Sessions, NEW i \in Slots(t)', t # s
      PROVE  i \in Slots(t) /\ Slot(t, i)' = Slot(t, i)
  <2>1. cur'[t] = cur[t] /\ buffer'[t] = buffer[t]
    BY <1>1, <1>4 DEF ClientType
  <2> QED
    BY <2>1 DEF Slots, Slot
<1>5. ASSUME NEW i \in Slots(s)'
      PROVE  i + 1 \in Slots(s) /\ Slot(s, i)' = Slot(s, i + 1)
  <2>1. cur'[s] = buffer[s][1] /\ buffer'[s] = Tail(buffer[s])
    BY <1>1, <1>3 DEF ClientType
  <2>2. i \in 0..(Len(buffer[s]) - 1)
    BY <1>3, <2>1 DEF Slots
  <2> QED
    BY <1>3, <2>1, <2>2 DEF Slots, Slot
<1> QED
  BY <1>2, <1>4, <1>5 DEF Shifted

LEMMA SendAdds ==
  ASSUME ClientType, ServerType, NEW s \in Sessions, NEW e \in Events, Send(s, e)
  PROVE  Added(s, e)
<1>1. PICK d : d = [event |-> e, num |-> sent[e] + 1]
  OBVIOUS
<1>2. cur' = cur /\ buffer' = [buffer EXCEPT ![s] = Append(buffer[s], d)]
  BY <1>1 DEF Send, ServerType
<1>3. buffer[s] \in Seq(Deliveries) /\ Len(buffer[s]) \in Nat
  BY DEF ClientType
<1>4. /\ Len(Append(buffer[s], d)) = Len(buffer[s]) + 1
      /\ Append(buffer[s], d)[Len(buffer[s]) + 1] = d
      /\ \A i \in 1..Len(buffer[s]) : Append(buffer[s], d)[i] = buffer[s][i]
  BY <1>3
<1>5. ASSUME NEW t \in Sessions, NEW i \in Slots(t)', t # s
      PROVE  i \in Slots(t) /\ Slot(t, i)' = Slot(t, i)
  <2>1. cur'[t] = cur[t] /\ buffer'[t] = buffer[t]
    BY <1>2, <1>5 DEF ClientType
  <2> QED
    BY <2>1 DEF Slots, Slot
<1>6. ASSUME NEW i \in Slots(s)'
      PROVE  \/ i \in Slots(s) /\ Slot(s, i)' = Slot(s, i)
             \/ i = Len(buffer[s]) + 1 /\ Slot(s, i)' = d
  <2>1. cur'[s] = cur[s] /\ buffer'[s] = Append(buffer[s], d)
    BY <1>2 DEF ClientType
  <2>2. i \in 0..(Len(buffer[s]) + 1)
    BY <1>4, <2>1 DEF Slots
  <2> QED
    BY <1>3, <1>4, <2>1, <2>2 DEF Slots, Slot
<1> QED
  BY <1>1, <1>5, <1>6 DEF Added

\* Only a delivery that may be given is added, and only Escalate reports.
LEMMA Moves ==
  ASSUME Inv, [Next]_vars
  PROVE  /\ maxRetries' = maxRetries
         /\ \/ /\ Kept /\ sent' = sent
               /\ \/ escalated' = escalated
                  \/ \E s \in Sessions : Escalate(s)
            \/ /\ \E s \in Sessions : Shifted(s)
               /\ sent' = sent /\ escalated' = escalated
            \/ /\ \E s \in Sessions, e \in Events :
                    Added(s, e) /\ sent' = [sent EXCEPT ![e] = @ + 1] /\ e \notin escalated
               /\ escalated' = escalated
<1>1. ClientType /\ ServerType
  BY DEF Inv
<1>2. maxRetries' = maxRetries
  BY DEF Next, vars, SessionStep, Publish, Expire, Subscribe, SendNew, SendAgain, Send, Take,
     Run, Ack, Nak, ExpectRetry, Escalate, Stop, Stopped, Crash
<1>3. ASSUME UNCHANGED <<cur, buffer>>
      PROVE  Kept
  BY <1>3 DEF Kept, Slots, Slot
<1>4. CASE Publish \/ (\E e \in Events : Expire(e)) \/ UNCHANGED vars
  <2>1. UNCHANGED <<cur, buffer, sent, escalated>>
    BY <1>4 DEF Publish, Expire, vars, serverVars, clientVars, histVars
  <2> QED
    BY <1>2, <1>3, <2>1
<1>5. ASSUME NEW s \in Sessions, Subscribe(s) \/ Run(s) \/ Nak(s) \/ Stopped(s)
      PROVE  Kept /\ sent' = sent /\ escalated' = escalated
  <2>1. UNCHANGED <<cur, buffer, sent, escalated>>
    BY <1>5 DEF Subscribe, Run, Nak, Stopped, serverVars, clientVars, histVars
  <2> QED
    BY <1>3, <2>1
<1>6. ASSUME NEW s \in Sessions, Ack(s) \/ ExpectRetry(s) \/ Stop(s) \/ Crash(s)
      PROVE  Kept /\ sent' = sent /\ escalated' = escalated
  <2>1. /\ UNCHANGED <<sent, escalated>>
        /\ cur' = cur \/ cur' = [cur EXCEPT ![s] = Idle]
        /\ buffer' = buffer \/ buffer' = [buffer EXCEPT ![s] = <<>>]
    BY <1>6 DEF Ack, ExpectRetry, Stop, Crash, Release, serverVars, histVars
  <2> QED
    BY <1>1, <2>1, DropsKeep
<1>7. ASSUME NEW s \in Sessions, Escalate(s)
      PROVE  Kept /\ sent' = sent
  <2>1. /\ UNCHANGED sent
        /\ cur' = [cur EXCEPT ![s] = Idle]
        /\ buffer' = buffer \/ buffer' = [buffer EXCEPT ![s] = <<>>]
    BY <1>7 DEF Escalate, Release, serverVars
  <2> QED
    BY <1>1, <2>1, DropsKeep
<1>8. ASSUME NEW s \in Sessions, Take(s)
      PROVE  Shifted(s) /\ sent' = sent /\ escalated' = escalated
  BY <1>1, <1>8, TakeShifts DEF Take, serverVars, histVars
<1>9. ASSUME NEW s \in Sessions, NEW e \in Events, Send(s, e), e \notin escalated
      PROVE  Added(s, e) /\ sent' = [sent EXCEPT ![e] = @ + 1] /\ escalated' = escalated
  BY <1>1, <1>9, SendAdds DEF Send, histVars
<1>10. \A e \in escalated : e <= pos /\ status[e] # "retry"
  BY ServerTypes DEF Inv, HistType, CountInv
<1>11. ASSUME NEW s \in Sessions, SendNew(s)
       PROVE  \E e \in Events : Send(s, e) /\ e \notin escalated
  <2>1. PICK e \in Events : pos < e /\ Send(s, e)
    BY <1>11, SendNewIs
  <2> QED
    BY <1>1, <1>10, <2>1, ServerTypes
<1>12. ASSUME NEW s \in Sessions, SendAgain(s)
       PROVE  \E e \in Events : Send(s, e) /\ e \notin escalated
  <2>1. PICK e \in 1..last : status[e] = "retry" /\ Send(s, e)
    BY <1>12 DEF SendAgain
  <2>2. e \in Events
    BY <1>1, ServerTypes, EventsType
  <2> QED
    BY <1>10, <2>1, <2>2
<1>13. ASSUME NEW s \in Sessions, SendNew(s) \/ SendAgain(s)
       PROVE  \E e \in Events : /\ Added(s, e) /\ sent' = [sent EXCEPT ![e] = @ + 1]
                                /\ escalated' = escalated /\ e \notin escalated
  BY <1>9, <1>11, <1>12, <1>13
<1>14. CASE \E s \in Sessions : SessionStep(s) \/ Stop(s) \/ Crash(s)
  BY <1>2, <1>5, <1>6, <1>7, <1>8, <1>13, <1>14 DEF SessionStep
<1> QED
  BY <1>4, <1>14 DEF Next

LEMMA SlotsKeep ==
  ASSUME Inv, SlotInv, [Next]_vars
  PROVE  SlotInv'
<1> SUFFICES ASSUME NEW t \in Sessions, NEW u \in Sessions,
                    NEW i \in Slots(t)', NEW j \in Slots(u)',
                    Slot(t, i)' = Slot(u, j)', Slot(t, i)' # Idle
             PROVE  t = u /\ i = j
  BY DEF SlotInv, Idle
<1>1. ClientType /\ ClientType' /\ ServerType
  BY InvInductive DEF Inv
<1>2. i \in Nat /\ j \in Nat
  <2>1. Len(buffer'[t]) \in Nat /\ Len(buffer'[u]) \in Nat
    BY <1>1 DEF ClientType
  <2> QED
    BY <2>1 DEF Slots
<1>3. CASE Kept
  BY <1>3 DEF Kept, SlotInv
<1>4. ASSUME NEW s \in Sessions, Shifted(s)
      PROVE  t = u /\ i = j
  BY <1>2, <1>4 DEF Shifted, SlotInv
<1>5. ASSUME NEW s \in Sessions, NEW e \in Events, Added(s, e)
      PROVE  t = u /\ i = j
  <2>1. PICK d : d = [event |-> e, num |-> sent[e] + 1]
    OBVIOUS
  <2>2. ASSUME NEW v \in Sessions, NEW k \in Slots(v)
        PROVE  Slot(v, k) # d
    <3>1. SUFFICES ASSUME Slot(v, k) = d
                   PROVE  FALSE
      OBVIOUS
    <3>2. Slot(v, k).event = e /\ Slot(v, k).num = sent[e] + 1 /\ sent[e] \in Nat
      BY <1>1, <2>1, <3>1, ServerTypes
    <3>3. CASE k = 0
      <4>1. Slot(v, k) = cur[v] /\ step[v] # "idle"
        BY <1>1, <3>2, <3>3, DeliveryTypes, EventsType DEF Slot
      <4> QED
        BY <3>2, <4>1 DEF Inv, CountInv
    <3>4. CASE k # 0
      <4>1. k \in DOMAIN buffer[v] /\ Slot(v, k) = buffer[v][k]
        BY <1>1, <3>4, SlotTypes DEF Slot
      <4> QED
        BY <3>2, <4>1 DEF Inv, CountInv
    <3> QED
      BY <3>3, <3>4
  <2>3. \/ i \in Slots(t) /\ Slot(t, i)' = Slot(t, i)
        \/ t = s /\ i = Len(buffer[s]) + 1 /\ Slot(t, i)' = d
    BY <1>5, <2>1 DEF Added
  <2>4. \/ j \in Slots(u) /\ Slot(u, j)' = Slot(u, j)
        \/ u = s /\ j = Len(buffer[s]) + 1 /\ Slot(u, j)' = d
    BY <1>5, <2>1 DEF Added
  <2> QED
    BY <2>2, <2>3, <2>4 DEF SlotInv
<1> QED
  BY <1>3, <1>4, <1>5, Moves

\* The delivery that is reported is the last one, and in no other place.
LEMMA EarlierKeeps ==
  ASSUME Inv, SlotInv, EarlierInv, [Next]_vars
  PROVE  EarlierInv'
<1> SUFFICES ASSUME NEW t \in Sessions, NEW i \in Slots(t)', Slot(t, i)'.event \in escalated'
             PROVE  Slot(t, i)'.num <= maxRetries'
  BY DEF EarlierInv
<1>1. /\ ClientType /\ HistType /\ HistType' /\ maxRetries' = maxRetries /\ maxRetries \in Int
      /\ escalated' \subseteq Events
  BY InvInductive, Moves, ServerTypes DEF Inv, HistType
<1>2. Idle.event \notin Events
  BY EventsType DEF Idle
<1>3. ASSUME Kept
      PROVE  i \in Slots(t) /\ Slot(t, i)' = Slot(t, i)
  BY <1>1, <1>2, <1>3 DEF Kept
<1>4. CASE Kept /\ escalated' = escalated
  BY <1>1, <1>3, <1>4 DEF EarlierInv
<1>5. ASSUME NEW s \in Sessions, Escalate(s), Kept
      PROVE  Slot(t, i)'.num <= maxRetries'
  <2>1. /\ step[s] = "report" /\ maxRetries >= 0 /\ cur[s].num > maxRetries
        /\ escalated' = escalated \cup {cur[s].event} /\ cur' = [cur EXCEPT ![s] = Idle]
    BY <1>5 DEF Escalate, Release
  <2>2. i \in Slots(t) /\ Slot(t, i)' = Slot(t, i)
    BY <1>3, <1>5
  <2>3. CASE Slot(t, i).event \in escalated
    BY <1>1, <2>2, <2>3 DEF EarlierInv
  <2>4. CASE Slot(t, i).event = cur[s].event
    <3>1. cur[s] \in Deliveries /\ cur[s].event \in Events /\ cur[s].num \in Nat
      BY <1>1, <2>1, DeliveryTypes DEF ClientType
    <3>2. cur[s].num = maxRetries + 1
      BY <1>1, <2>1, <3>1, ServerTypes DEF Inv, CountInv
    <3>3. Slot(t, i) \in Deliveries /\ Slot(t, i).num \in Nat
      BY <1>1, <2>2, <2>4, <3>1, SlotTypes
    <3>4. Slot(t, i).num <= maxRetries + 1
      <4>1. CASE i = 0
        <5>1. Slot(t, i) = cur[t] /\ step[t] # "idle"
          BY <1>1, <2>4, <3>1, <4>1, DeliveryTypes, EventsType DEF Slot
        <5> QED
          BY <2>1, <2>4, <3>1, <3>3, <5>1, ServerTypes DEF Inv, CountInv
      <4>2. CASE i # 0
        <5>1. i \in DOMAIN buffer[t] /\ Slot(t, i) = buffer[t][i]
          BY <1>1, <2>2, <4>2, SlotTypes DEF Slot
        <5> QED
          BY <2>1, <2>4, <3>1, <3>3, <5>1, ServerTypes DEF Inv, CountInv
      <4> QED
        BY <4>1, <4>2
    <3>5. Slot(t, i).num # maxRetries + 1
      <4>1. SUFFICES ASSUME Slot(t, i).num = maxRetries + 1
                     PROVE  FALSE
        OBVIOUS
      <4>2. Slot(t, i) = cur[s]
        BY <2>4, <3>1, <3>2, <3>3, <4>1 DEF Deliveries
      <4>3. cur[s] = Slot(s, 0) /\ 0 \in Slots(s) /\ Slot(t, i) # Idle
        BY <1>1, <1>2, <2>4, <3>1, DeliveryTypes DEF Slot, Slots
      <4>4. t = s /\ i = 0
        BY <2>2, <4>2, <4>3 DEF SlotInv
      <4>5. Slot(t, i)' = Idle
        BY <1>1, <2>1, <4>4 DEF Slot, ClientType
      <4> QED
        BY <2>2, <4>3, <4>5
    <3> QED
      BY <1>1, <2>2, <3>3, <3>4, <3>5
  <2> QED
    BY <2>1, <2>2, <2>3, <2>4
<1>6. ASSUME NEW s \in Sessions, Shifted(s), escalated' = escalated
      PROVE  Slot(t, i)'.num <= maxRetries'
  BY <1>1, <1>6 DEF Shifted, EarlierInv
<1>7. ASSUME NEW s \in Sessions, NEW e \in Events, Added(s, e), e \notin escalated,
             escalated' = escalated
      PROVE  Slot(t, i)'.num <= maxRetries'
  BY <1>1, <1>7 DEF Added, EarlierInv
<1> QED
  BY <1>4, <1>5, <1>6, <1>7, Moves

\* What a session holds is in its slots.
LEMMA HeldBySlots ==
  ASSUME ClientType, NEW t \in Sessions, NEW e
  PROVE  HeldBy(t, e) = {d \in {Slot(t, i) : i \in Slots(t)} : d.event = e}
<1>1. Len(buffer[t]) \in Nat /\ DOMAIN buffer[t] = 1..Len(buffer[t])
  BY DeliveryTypes
<1>2. {cur[t]} \cup {buffer[t][i] : i \in DOMAIN buffer[t]} = {Slot(t, i) : i \in Slots(t)}
  <2>1. cur[t] = Slot(t, 0) /\ 0 \in Slots(t)
    BY <1>1 DEF Slot, Slots
  <2>2. \A i \in DOMAIN buffer[t] : i \in Slots(t) /\ Slot(t, i) = buffer[t][i]
    BY <1>1 DEF Slot, Slots
  <2>3. \A i \in Slots(t) : i = 0 \/ i \in DOMAIN buffer[t]
    BY <1>1 DEF Slots
  <2> QED
    BY <2>1, <2>2, <2>3
<1> QED
  BY <1>2 DEF HeldBy

LEMMA FinalStep ==
  ASSUME Inv, EarlierInv, [Next]_vars, NEW e \in escalated
  PROVE  /\ sent'[e] = sent[e]
         /\ \A s \in Sessions : /\ HeldBy(s, e)' \subseteq HeldBy(s, e)
                                /\ \A d \in HeldBy(s, e) : d.num <= maxRetries
<1>1. ClientType /\ ClientType' /\ e \in Events /\ Idle.event # e /\ sent \in [Events -> Nat]
  BY InvInductive, EventsType DEF Inv, HistType, ServerType, Idle
<1>2. sent'[e] = sent[e]
  BY <1>1, Moves
<1>3. ASSUME NEW t \in Sessions, NEW i \in Slots(t)', Slot(t, i)'.event = e
      PROVE  \E j \in Slots(t) : Slot(t, i)' = Slot(t, j)
  <2>1. CASE Kept
    BY <1>1, <1>3, <2>1 DEF Kept
  <2>2. ASSUME NEW s \in Sessions, Shifted(s)
        PROVE  \E j \in Slots(t) : Slot(t, i)' = Slot(t, j)
    BY <2>2 DEF Shifted
  <2>3. ASSUME NEW s \in Sessions, NEW x \in Events, Added(s, x), x \notin escalated
        PROVE  \E j \in Slots(t) : Slot(t, i)' = Slot(t, j)
    BY <1>3, <2>3 DEF Added
  <2> QED
    BY <2>1, <2>2, <2>3, Moves
<1>4. ASSUME NEW s \in Sessions
      PROVE  HeldBy(s, e)' \subseteq HeldBy(s, e)
  <2>1. HeldBy(s, e) = {d \in {Slot(s, i) : i \in Slots(s)} : d.event = e}
    BY <1>1, HeldBySlots
  <2>2. HeldBy(s, e)' = {d \in {Slot(s, i)' : i \in Slots(s)'} : d.event = e}
    <3>1. Len(buffer'[s]) \in Nat /\ DOMAIN buffer'[s] = 1..Len(buffer'[s])
      BY <1>1 DEF ClientType
    <3> QED
      BY <3>1 DEF HeldBy, Slot, Slots
  <2> QED
    BY <1>3, <2>1, <2>2
<1>5. ASSUME NEW s \in Sessions, NEW d \in HeldBy(s, e)
      PROVE  d.num <= maxRetries
  BY <1>1, <1>5, HeldBySlots DEF EarlierInv
<1> QED
  BY <1>2, <1>4, <1>5

\* Once onError has reported "retries exhausted" no node is given the event again,
\* and it is not reported again: what a node may still have in its hands is an
\* earlier delivery, which it had before.
THEOREM Final == Spec => EscalatedIsFinal
<1>1. Init => Inv /\ SlotInv /\ EarlierInv
  <2>1. Init => SlotInv /\ EarlierInv
    BY DEF Init, SlotInv, EarlierInv, Slots, Slot, Idle
  <2> QED
    BY <2>1, InitInv
<1>2. Inv /\ SlotInv /\ EarlierInv /\ [Next]_vars => Inv' /\ SlotInv' /\ EarlierInv'
  BY InvInductive, SlotsKeep, EarlierKeeps
<1>3. Inv /\ EarlierInv /\ [Next]_vars =>
        [\A e \in escalated :
           /\ sent'[e] = sent[e]
           /\ \A s \in Sessions : /\ HeldBy(s, e)' \subseteq HeldBy(s, e)
                                  /\ \A d \in HeldBy(s, e) : d.num <= maxRetries]_vars
  BY FinalStep
<1> QED
  BY <1>1, <1>2, <1>3, PTL DEF Spec, EscalatedIsFinal

-----------------------------------------------------------------------------
\* With one group on the stream, as the default stream pattern gives every
\* aggregate type, an acknowledged event was handled.
THEOREM Acknowledged ==
  ASSUME \A g, h \in Groups : g = h
  PROVE  Spec => []AckedIsHandled
<1>1. Inv => AckedIsHandled
  BY QueueAssumption DEF Inv, AckedInv, AckedIsHandled
<1> QED
  BY <1>1, Invariance, PTL
=============================================================================
