----------------------- MODULE OrderedDeliveryProofs -----------------------
(***************************************************************************)
(* For any number of buses, events and faults and any width of the cursor: *)
(* an ordered group with its cursor store implements Projection.           *)
(***************************************************************************)
EXTENDS OrderedDelivery, TLAPS

-----------------------------------------------------------------------------
(* The inductive invariant *)

Settled == applied \cup given
mark == cursorToSeq(cursor)

\* A bus whose session has been subscribed.
Subscribed(b) == state[b] \in {"up", "stopping"}

\* One bus at a time: what the code leaves to the owner of the process.
OwnerInv ==
  /\ \A b, c \in Buses : state[b] # "off" /\ state[c] # "off" => b = c
  /\ \A b \in Buses : state[b] \in {"off", "loading"} => step[b] = "idle"
  /\ \A b \in Buses : state[b] = "loading" => loaded[b] = cursor

\* The store holds no cursor, a foreign one, or that of an event up to which
\* everything is settled.
CursorInv ==
  /\ cursor \in {NoCursor, <<0>>} \/ \E n \in 1..len : cursor = cursorFromSeq(n)
  /\ mark # 0 => from..mark \subseteq Settled

\* Everything before the event that a session is at is settled; the event
\* itself is too unless its callback is still at it, or has stopped the session.
SessionInv(b) ==
  Subscribed(b) =>
    /\ mark <= at[b] /\ at[b] <= len
    /\ from..(at[b] - 1) \subseteq Settled
    /\ state[b] = "up" /\ step[b] = "idle" => from..at[b] \subseteq Settled
    /\ step[b] # "idle" => at[b] >= 1
    /\ step[b] = "handling" => mark < at[b]
    /\ step[b] = "saving" => at[b] \in applied

Inv ==
  /\ TypeOK /\ OwnerInv /\ CursorInv
  /\ \A b \in Buses : SessionInv(b)

-----------------------------------------------------------------------------
(* Cursors *)

\* cursorToSeq undoes cursorFromSeq.
LEMMA CursorRoundTrip ==
  ASSUME NEW n \in Nat
  PROVE  cursorToSeq(cursorFromSeq(n)) = n
<1>1. Len(cursorFromSeq(n)) = 2
  BY DEF cursorFromSeq
<1>2. (n \div Word) * Word + (n % Word) = n
  BY OrderedAssumption
<1> QED
  BY <1>1, <1>2 DEF cursorToSeq, cursorFromSeq

\* Eight bytes are enough for every sequence number of the stream.
LEMMA CursorType ==
  ASSUME NEW n \in 0..MaxEvents
  PROVE  cursorFromSeq(n) \in Seq(0..(Word - 1))
<1>1. Word \in Nat \ {0} /\ n \in Nat /\ n < Word * Word
  BY OrderedAssumption
<1>2. PICK q, r : q = n \div Word /\ r = n % Word
  OBVIOUS
<1>3. q \in Nat /\ r \in 0..(Word - 1) /\ n = q * Word + r
  BY <1>1, <1>2
<1>4. q >= Word => q * Word >= Word * Word
  BY <1>1, <1>3
<1>5. q * Word \in Nat /\ Word * Word \in Nat
  BY <1>1, <1>3
<1>6. q \in 0..(Word - 1)
  BY <1>1, <1>3, <1>4, <1>5
<1>7. <<q, r>> \in Seq(0..(Word - 1))
  BY <1>3, <1>6
<1> QED
  BY <1>2, <1>7 DEF cursorFromSeq

LEMMA ForeignCursors ==
  /\ cursorToSeq(NoCursor) = 0 /\ cursorToSeq(<<0>>) = 0
  /\ NoCursor \in Seq(0..(Word - 1)) /\ <<0>> \in Seq(0..(Word - 1))
  /\ NoCursor # <<0>> /\ \A n \in Nat : NoCursor # cursorFromSeq(n)
<1>1. Len(<<>>) = 0 /\ Len(<<0>>) = 1 /\ \A n \in Nat : Len(cursorFromSeq(n)) = 2
  BY DEF cursorFromSeq
<1>2. 0 \in 0..(Word - 1)
  BY OrderedAssumption
<1>3. <<>> \in Seq(0..(Word - 1)) /\ <<0>> \in Seq(0..(Word - 1))
  BY <1>2
<1> QED
  BY <1>1, <1>3 DEF cursorToSeq, NoCursor

LEMMA Numbers ==
  ASSUME TypeOK
  PROVE  /\ len \in Nat /\ from \in Nat /\ len <= MaxEvents /\ MaxEvents \in Nat
         /\ \A b \in Buses : at[b] \in Nat
BY OrderedAssumption DEF TypeOK

\* What CursorInv says of the mark.
LEMMA MarkType ==
  ASSUME TypeOK, CursorInv
  PROVE  /\ mark \in Nat /\ mark <= len
         /\ mark = 0 => cursor \in {NoCursor, <<0>>}
         /\ cursor = NoCursor => mark = 0
<1>1. len \in Nat
  BY Numbers
<1>2. CASE cursor \in {NoCursor, <<0>>}
  BY <1>1, <1>2, ForeignCursors DEF mark
<1>3. CASE \E n \in 1..len : cursor = cursorFromSeq(n)
  <2>1. PICK n \in 1..len : cursor = cursorFromSeq(n)
    BY <1>3
  <2>2. n \in Nat /\ n # 0 /\ n <= len
    BY <1>1
  <2>3. mark = n
    BY <2>1, <2>2, CursorRoundTrip DEF mark
  <2> QED
    BY <2>1, <2>2, <2>3, ForeignCursors
<1> QED
  BY <1>2, <1>3 DEF CursorInv

-----------------------------------------------------------------------------
(* Every step preserves the invariant, and is a step of Projection or none *)

ModelStep == [Model!Next]_(Model!vars)

\* Steps of the bus alone: Projection does not see them.
LEMMA Hidden ==
  ASSUME UNCHANGED <<opts, len, cursor, from, applied, given>>
  PROVE  ModelStep /\ (CursorInv => CursorInv')
<1>1. UNCHANGED Model!vars
  BY DEF Model!vars
<1>2. CursorInv => CursorInv'
  BY DEF CursorInv, mark, Settled
<1> QED
  BY <1>1, <1>2 DEF ModelStep

LEMMA FaultType ==
  ASSUME TypeOK, Fault
  PROVE  faults' \in 0..MaxFaults
BY OrderedAssumption DEF TypeOK, Fault

LEMMA PublishKeeps ==
  ASSUME Inv, Publish
  PROVE  Inv' /\ ModelStep
<1>1. /\ len < MaxEvents /\ len' = len + 1
      /\ UNCHANGED <<opts, cursor, state, loaded, at, step, cancelled, from, applied,
                     given, faults>>
  BY DEF Publish, sessionVars, modelVars
<1>2. len \in Nat /\ MaxEvents \in Nat
  BY Numbers DEF Inv
<1>3. TypeOK' /\ OwnerInv'
  BY <1>1, <1>2 DEF Inv, TypeOK, OwnerInv
<1>4. CursorInv'
  BY <1>1, <1>2 DEF Inv, CursorInv, mark, Settled
<1>5. \A b \in Buses : SessionInv(b)'
  BY <1>1, <1>2, Numbers DEF Inv, SessionInv, Subscribed, mark, Settled
<1>6. Model!Publish
  BY <1>1 DEF Model!Publish
<1> QED
  BY <1>3, <1>4, <1>5, <1>6 DEF Inv, ModelStep, Model!Next

LEMMA ConnectKeeps ==
  ASSUME Inv, NEW b \in Buses, Connect(b)
  PROVE  Inv' /\ ModelStep
<1>1. /\ step[b] = "idle" /\ \A other \in Buses : state[other] = "off"
      /\ state' = [state EXCEPT ![b] = "loading"]
      /\ loaded' = [loaded EXCEPT ![b] = cursor]
      /\ UNCHANGED <<opts, len, cursor, at, step, cancelled, from, applied, given,
                     faults>>
  BY DEF Connect, modelVars
<1>2. \A c \in Buses : /\ state'[c] = IF c = b THEN "loading" ELSE state[c]
                       /\ loaded'[c] = IF c = b THEN cursor ELSE loaded[c]
  BY <1>1 DEF Inv, TypeOK
<1>3. TypeOK'
  BY <1>1 DEF Inv, TypeOK
<1>4. OwnerInv'
  BY <1>1, <1>2 DEF Inv, OwnerInv
<1>5. \A c \in Buses : SessionInv(c)'
  BY <1>1, <1>2 DEF SessionInv, Subscribed
<1> QED
  BY <1>1, <1>3, <1>4, <1>5, Hidden DEF Inv

LEMMA ConnectFailsKeeps ==
  ASSUME Inv, NEW b \in Buses, ConnectFails(b)
  PROVE  Inv' /\ ModelStep
<1>1. /\ state[b] = "loading" /\ state' = [state EXCEPT ![b] = "off"]
      /\ UNCHANGED <<opts, len, cursor, loaded, at, step, cancelled, from, applied,
                     given>>
  BY DEF ConnectFails, modelVars
<1>2. \A c \in Buses : state'[c] = IF c = b THEN "off" ELSE state[c]
  BY <1>1 DEF Inv, TypeOK
<1>3. TypeOK'
  BY <1>1, FaultType DEF Inv, TypeOK, ConnectFails
<1>4. OwnerInv'
  BY <1>1, <1>2 DEF Inv, OwnerInv
<1>5. \A c \in Buses : SessionInv(c)'
  BY <1>1, <1>2 DEF Inv, SessionInv, Subscribed, mark, Settled
<1> QED
  BY <1>1, <1>3, <1>4, <1>5, Hidden DEF Inv

\* Join: where there is no mark; otherwise the session goes on behind it.
LEMMA SubscribeKeeps ==
  ASSUME Inv, NEW b \in Buses, Subscribe(b)
  PROVE  Inv' /\ ModelStep
<1>1. /\ state[b] = "loading" /\ state' = [state EXCEPT ![b] = "up"]
      /\ at' = [at EXCEPT ![b] = StartSeq(loaded[b]) - 1]
      /\ from' = IF cursorToSeq(loaded[b]) = 0 THEN at'[b] + 1 ELSE from
      /\ UNCHANGED <<opts, len, cursor, loaded, step, cancelled, applied, given, faults>>
  BY DEF Subscribe
<1>2. loaded[b] = cursor /\ step[b] = "idle" /\ \A c \in Buses : state[c] # "off" => c = b
  BY <1>1 DEF Inv, OwnerInv
<1>3. /\ len \in Nat /\ mark \in Nat /\ mark <= len /\ len <= MaxEvents
      /\ MaxEvents \in Nat
      /\ mark = 0 => cursor \in {NoCursor, <<0>>}
      /\ cursor = NoCursor => mark = 0
  BY Numbers, MarkType DEF Inv
<1>4. PICK first \in 0..len :
        /\ StartSeq(loaded[b]) - 1 = first
        /\ mark # 0 => first = mark
        /\ mark = 0 => first = 0 \/ (first = len /\ opts.boot # "all")
  <2>1. StartSeq(loaded[b]) = IF cursor # NoCursor THEN mark + 1
                              ELSE IF opts.boot = "all" THEN 1 ELSE len + 1
    BY <1>2 DEF StartSeq, mark
  <2> QED
    BY <1>3, <2>1
<1>5. \A c \in Buses : /\ state'[c] = IF c = b THEN "up" ELSE state[c]
                       /\ at'[c] = IF c = b THEN first ELSE at[c]
  BY <1>1, <1>4 DEF Inv, TypeOK
<1>6. from' = IF mark = 0 THEN first + 1 ELSE from
  BY <1>1, <1>2, <1>5 DEF mark
<1>7. from' \in 1..(MaxEvents + 1)
  BY <1>3, <1>4, <1>6 DEF Inv, TypeOK
<1>8. TypeOK'
  <2>1. at' \in [Buses -> 0..MaxEvents]
    BY <1>1, <1>3, <1>4 DEF Inv, TypeOK
  <2> QED
    BY <1>1, <1>7, <2>1 DEF Inv, TypeOK
<1>9. OwnerInv'
  BY <1>1, <1>2, <1>5 DEF Inv, OwnerInv
<1>10. CursorInv'
  BY <1>1, <1>6 DEF Inv, CursorInv, mark, Settled
<1>11. from'..first \subseteq Settled
  <2>1. CASE mark = 0
    BY <1>4, <1>6, <2>1
  <2>2. CASE mark # 0
    BY <1>4, <1>6, <2>2 DEF Inv, CursorInv
  <2> QED
    BY <2>1, <2>2
<1>12. \A c \in Buses : SessionInv(c)'
  <2>1. \A c \in Buses : Subscribed(c)' => c = b
    BY <1>2, <1>5 DEF Subscribed
  <2>2. SessionInv(b)'
    <3>1. mark' = mark /\ Settled' = Settled /\ at'[b] = first /\ step'[b] = "idle"
      BY <1>1, <1>2, <1>5 DEF mark, Settled
    <3>2. from'..(first - 1) \subseteq Settled
      BY <1>4, <1>7, <1>11, OrderedAssumption
    <3>3. mark <= first /\ first <= len /\ len' = len
      BY <1>1, <1>3, <1>4
    <3> QED
      BY <1>11, <3>1, <3>2, <3>3 DEF SessionInv
  <2> QED
    BY <2>1, <2>2 DEF SessionInv
<1>13. ModelStep
  <2>1. CASE mark = 0
    <3>1. Model!Join(first + 1)
      BY <1>1, <1>3, <1>4, <1>6, <2>1 DEF Model!Join, mark
    <3>2. first + 1 \in 1..(len + 1)
      BY <1>3, <1>4
    <3> QED
      BY <3>1, <3>2 DEF ModelStep, Model!Next
  <2>2. CASE mark # 0
    BY <1>1, <1>6, <2>2 DEF ModelStep, Model!vars
  <2> QED
    BY <2>1, <2>2
<1> QED
  BY <1>8, <1>9, <1>10, <1>12, <1>13 DEF Inv

\* A session is the only one while it lives.
LEMMA Alone ==
  ASSUME Inv, NEW b \in Buses, state[b] # "off" \/ step[b] # "idle"
  PROVE  /\ state[b] # "off"
         /\ step[b] # "idle" => Subscribed(b)
         /\ \A c \in Buses \ {b} : state[c] = "off" /\ step[c] = "idle"
BY DEF Inv, OwnerInv, TypeOK, Subscribed

\* What is left to show of a step of bus b after it has been subscribed.
LEMMA OwnStep ==
  ASSUME Inv, NEW b \in Buses, state[b] # "off",
         \A c \in Buses \ {b} : state'[c] = state[c] /\ step'[c] = step[c],
         state'[b] # "loading", state'[b] = "off" => step'[b] = "idle",
         TypeOK', CursorInv', SessionInv(b)'
  PROVE  Inv'
<1>1. \A c \in Buses \ {b} : state'[c] = "off" /\ step'[c] = "idle"
  BY Alone
<1>2. OwnerInv'
  BY <1>1 DEF OwnerInv
<1>3. \A c \in Buses : SessionInv(c)'
  BY <1>1 DEF SessionInv, Subscribed
<1> QED
  BY <1>2, <1>3 DEF Inv

\* Steps that change neither the read model nor the cursor: the session stays
\* at its event, or ends.
LEMMA QuietStep ==
  ASSUME Inv, NEW b \in Buses, state[b] # "off",
         UNCHANGED <<opts, len, cursor, from, applied, given, loaded, at>>,
         NEW st \in {"off", state[b], "stopping"}, state' = [state EXCEPT ![b] = st],
         NEW sp \in {"idle", "failed", step[b]}, step' = [step EXCEPT ![b] = sp],
         cancelled' \subseteq Buses, faults' \in 0..MaxFaults,
         st = "stopping" => Subscribed(b),
         st = "off" => sp = "idle", st # "off" => Subscribed(b),
         sp = "idle" /\ st = "up" => step[b] = "idle",
         sp = "failed" => step[b] # "idle"
  PROVE  Inv' /\ ModelStep
<1>1. \A c \in Buses : /\ state'[c] = IF c = b THEN st ELSE state[c]
                       /\ step'[c] = IF c = b THEN sp ELSE step[c]
  BY DEF Inv, TypeOK
<1>2. TypeOK'
  BY DEF Inv, TypeOK
<1>3. SessionInv(b)'
  BY <1>1 DEF Inv, SessionInv, Subscribed, mark, Settled
<1>4. CursorInv' /\ ModelStep
  BY Hidden DEF Inv
<1>5. state'[b] # "loading" /\ (state'[b] = "off" => step'[b] = "idle")
  BY <1>1 DEF Subscribed
<1> QED
  BY <1>1, <1>2, <1>3, <1>4, <1>5, OwnStep

LEMMA HandlerFailsKeeps ==
  ASSUME Inv, NEW b \in Buses, HandlerFails(b)
  PROVE  Inv' /\ ModelStep
<1>1. /\ step[b] = "handling" /\ step' = [step EXCEPT ![b] = "failed"] /\ Fault
      /\ UNCHANGED <<opts, len, cursor, state, loaded, at, cancelled, from, applied,
                     given>>
  BY DEF HandlerFails, modelVars
<1>2. state[b] # "off" /\ Subscribed(b)
  BY <1>1, Alone
<1>3. state' = [state EXCEPT ![b] = state[b]] /\ cancelled' \subseteq Buses
  BY <1>1 DEF Inv, TypeOK
<1> QED
  BY <1>1, <1>2, <1>3, FaultType, QuietStep DEF Inv

LEMMA EscalateKeeps ==
  ASSUME Inv, NEW b \in Buses, Escalate(b)
  PROVE  Inv' /\ ModelStep
<1>1. /\ step[b] = "failed" /\ step' = [step EXCEPT ![b] = "idle"]
      /\ state' = [state EXCEPT ![b] = "stopping"] /\ cancelled' = cancelled \cup {b}
      /\ UNCHANGED <<opts, len, cursor, loaded, at, from, applied, given, faults>>
  BY DEF Escalate, modelVars
<1>2. state[b] # "off" /\ Subscribed(b)
  BY <1>1, Alone
<1>3. cancelled' \subseteq Buses /\ faults' \in 0..MaxFaults
  BY <1>1 DEF Inv, TypeOK
<1> QED
  BY <1>1, <1>2, <1>3, QuietStep

LEMMA CancelKeeps ==
  ASSUME Inv, NEW b \in Buses, Cancel(b)
  PROVE  Inv' /\ ModelStep
<1>1. /\ state[b] = "up" /\ cancelled' = cancelled \cup {b} /\ Fault
      /\ UNCHANGED <<opts, len, cursor, state, loaded, at, step, from, applied, given>>
  BY DEF Cancel, modelVars
<1>2. state[b] # "off" /\ Subscribed(b)
  BY <1>1 DEF Subscribed
<1>3. /\ state' = [state EXCEPT ![b] = state[b]] /\ step' = [step EXCEPT ![b] = step[b]]
      /\ cancelled' \subseteq Buses
  BY <1>1 DEF Inv, TypeOK
<1> QED
  BY <1>1, <1>2, <1>3, FaultType, QuietStep DEF Inv

LEMMA StopKeeps ==
  ASSUME Inv, NEW b \in Buses, Stop(b)
  PROVE  Inv' /\ ModelStep
<1>1. /\ state[b] = "up" /\ state' = [state EXCEPT ![b] = "stopping"]
      /\ UNCHANGED <<opts, len, cursor, loaded, at, step, cancelled, from, applied,
                     given, faults>>
  BY DEF Stop, modelVars
<1>2. state[b] # "off" /\ Subscribed(b)
  BY <1>1 DEF Subscribed
<1>3. /\ step' = [step EXCEPT ![b] = step[b]]
      /\ cancelled' \subseteq Buses /\ faults' \in 0..MaxFaults
  BY <1>1 DEF Inv, TypeOK
<1> QED
  BY <1>1, <1>2, <1>3, QuietStep

LEMMA DoneKeeps ==
  ASSUME Inv, NEW b \in Buses, Done(b)
  PROVE  Inv' /\ ModelStep
<1>1. /\ state[b] = "stopping" /\ step[b] = "idle" /\ state' = [state EXCEPT ![b] = "off"]
      /\ cancelled' = cancelled \ {b}
      /\ UNCHANGED <<opts, len, cursor, loaded, at, step, from, applied, given, faults>>
  BY DEF Done, modelVars
<1>2. /\ step' = [step EXCEPT ![b] = step[b]]
      /\ cancelled' \subseteq Buses /\ faults' \in 0..MaxFaults
  BY <1>1 DEF Inv, TypeOK
<1> QED
  BY <1>1, <1>2, QuietStep

LEMMA CrashKeeps ==
  ASSUME Inv, NEW b \in Buses, Crash(b)
  PROVE  Inv' /\ ModelStep
<1>1. /\ state[b] # "off" /\ state' = [state EXCEPT ![b] = "off"]
      /\ step' = [step EXCEPT ![b] = "idle"] /\ cancelled' = cancelled \ {b} /\ Fault
      /\ UNCHANGED <<opts, len, cursor, loaded, at, from, applied, given>>
  BY DEF Crash, modelVars
<1>2. cancelled' \subseteq Buses
  BY <1>1 DEF Inv, TypeOK
<1> QED
  BY <1>1, <1>2, FaultType, QuietStep DEF Inv

\* GiveUp, where the event cannot be decoded; otherwise the callback begins.
LEMMA DeliverKeeps ==
  ASSUME Inv, NEW b \in Buses, Deliver(b)
  PROVE  Inv' /\ ModelStep
<1> DEFINE e == at[b] + 1
<1>1. /\ state[b] = "up" /\ step[b] = "idle" /\ at[b] < len
      /\ at' = [at EXCEPT ![b] = e]
      /\ UNCHANGED <<opts, len, cursor, state, loaded, cancelled, from, applied, faults>>
  BY DEF Deliver
<1>2. at'[b] = e
  BY <1>1 DEF Inv, TypeOK
<1>3. \/ given' = given \cup {e} /\ UNCHANGED step
      \/ step' = [step EXCEPT ![b] = "handling"] /\ UNCHANGED given
  BY <1>2 DEF Deliver
<1>4. /\ at[b] \in Nat /\ len \in Nat /\ mark \in Nat /\ from \in Nat
      /\ len <= MaxEvents /\ MaxEvents \in Nat
  BY Numbers, MarkType DEF Inv
<1>5. e \in 1..len /\ e \in 1..MaxEvents /\ e - 1 = at[b] /\ mark < e
  BY <1>1, <1>4 DEF Inv, SessionInv, Subscribed
<1>6. from..(e - 1) \subseteq Settled
  BY <1>1, <1>5 DEF Inv, SessionInv, Subscribed
<1> HIDE DEF e
<1>7. TypeOK'
  <2>1. at' \in [Buses -> 0..MaxEvents]
    BY <1>1, <1>5 DEF Inv, TypeOK
  <2>2. /\ step' \in [Buses -> {"idle", "handling", "saving", "failed"}]
        /\ given' \subseteq 1..MaxEvents
    BY <1>3, <1>5 DEF Inv, TypeOK
  <2> QED
    BY <1>1, <2>1, <2>2 DEF Inv, TypeOK
<1>8. CursorInv'
  BY <1>1, <1>3 DEF Inv, CursorInv, mark, Settled
<1>9. SessionInv(b)'
  <2>1. mark' = mark /\ Settled \subseteq Settled'
    BY <1>1, <1>3 DEF mark, Settled
  <2>2. \/ step'[b] = "idle" /\ e \in Settled'
        \/ step'[b] = "handling"
    BY <1>1, <1>3 DEF Inv, TypeOK, Settled
  <2>3. \A n \in from..e : n = e \/ n \in from..(e - 1)
    BY <1>4, <1>5
  <2>4. mark <= e /\ e <= len /\ e >= 1
    BY <1>4, <1>5
  <2> QED
    BY <1>1, <1>2, <1>5, <1>6, <2>1, <2>2, <2>3, <2>4 DEF SessionInv, Subscribed
<1>10. ModelStep
  <2>1. CASE given' = given \cup {e}
    <3>1. Model!GiveUp(e)
      BY <1>1, <1>5, <1>6, <2>1 DEF Model!GiveUp, Model!Settled, Settled
    <3> QED
      BY <1>5, <3>1 DEF ModelStep, Model!Next
  <2>2. CASE UNCHANGED given
    BY <1>1, <2>2, Hidden
  <2> QED
    BY <1>3, <2>1, <2>2
<1>11. \A c \in Buses \ {b} : state'[c] = state[c] /\ step'[c] = step[c]
  BY <1>1, <1>3 DEF Inv, TypeOK
<1>12. state[b] # "off" /\ state'[b] # "loading" /\ state'[b] # "off"
  BY <1>1
<1> QED
  BY <1>7, <1>8, <1>9, <1>10, <1>11, <1>12, OwnStep

\* Apply.
LEMMA HandledKeeps ==
  ASSUME Inv, NEW b \in Buses, Handled(b)
  PROVE  Inv' /\ ModelStep
<1> DEFINE e == at[b]
<1>1. /\ step[b] = "handling" /\ applied' = applied \cup {e}
      /\ UNCHANGED <<opts, len, cursor, state, loaded, at, cancelled, from, given, faults>>
  BY DEF Handled
<1>2. PICK sp \in {"idle", "saving"} : step' = [step EXCEPT ![b] = sp]
  BY DEF Handled
<1>3. state[b] # "off" /\ Subscribed(b)
  BY <1>1, Alone
<1>4. /\ e \in Nat /\ len \in Nat /\ mark \in Nat /\ from \in Nat
      /\ len <= MaxEvents /\ MaxEvents \in Nat
  BY Numbers, MarkType DEF Inv
<1>5. /\ mark < e /\ e <= len /\ e >= 1 /\ from..(e - 1) \subseteq Settled
  BY <1>1, <1>3 DEF Inv, SessionInv
<1>6. e \in 1..len /\ e \in 1..MaxEvents /\ e \in (mark + 1)..len
  BY <1>4, <1>5
<1>7. TypeOK'
  BY <1>1, <1>2, <1>6 DEF Inv, TypeOK
<1>8. CursorInv'
  BY <1>1 DEF Inv, CursorInv, mark, Settled
<1>9. \A c \in Buses : step'[c] = IF c = b THEN sp ELSE step[c]
  BY <1>2 DEF Inv, TypeOK
<1>10. SessionInv(b)'
  <2>1. mark' = mark /\ Settled \subseteq Settled' /\ e \in Settled'
    BY <1>1 DEF mark, Settled
  <2>2. \A n \in from..e : n = e \/ n \in from..(e - 1)
    BY <1>4, <1>5
  <2>3. mark <= e
    BY <1>4, <1>5
  <2>4. from..e \subseteq Settled' /\ from..(e - 1) \subseteq Settled'
    BY <1>5, <2>1, <2>2
  <2> QED
    BY <1>1, <1>5, <1>9, <2>1, <2>3, <2>4 DEF SessionInv
<1>11. ModelStep
  <2>1. Model!Apply(e)
    BY <1>1, <1>5, <1>6 DEF Model!Apply, Model!Settled, Settled, mark
  <2> QED
    BY <1>6, <2>1 DEF ModelStep, Model!Next
<1>12. state'[b] # "loading" /\ state'[b] # "off"
  BY <1>1, <1>3 DEF Subscribed
<1> QED
  BY <1>1, <1>3, <1>7, <1>8, <1>9, <1>10, <1>11, <1>12, OwnStep

\* Save: the event has been applied, and all before it are settled.
LEMMA SaveKeeps ==
  ASSUME Inv, NEW b \in Buses, step[b] = "saving",
         cursor' = cursorFromSeq(at[b]),
         UNCHANGED <<opts, len, state, loaded, at, cancelled, from, applied, given>>,
         faults' \in 0..MaxFaults,
         NEW sp \in {"idle", "failed"}, step' = [step EXCEPT ![b] = sp]
  PROVE  Inv' /\ ModelStep
<1> DEFINE e == at[b]
<1>1. state[b] # "off" /\ Subscribed(b)
  BY Alone
<1>2. /\ e \in Nat /\ len \in Nat /\ mark \in Nat /\ from \in Nat
      /\ len <= MaxEvents /\ MaxEvents \in Nat
  BY Numbers, MarkType DEF Inv
<1>3. /\ mark <= e /\ e <= len /\ e >= 1 /\ from..(e - 1) \subseteq Settled
      /\ e \in applied
  BY <1>1 DEF Inv, SessionInv
<1>4. from..e \subseteq Settled
  <2>1. \A n \in from..e : n = e \/ n \in from..(e - 1)
    BY <1>2, <1>3
  <2> QED
    BY <1>3, <2>1 DEF Settled
<1>5. e \in 1..len /\ e \in 0..MaxEvents /\ e \in mark..len
  BY <1>2, <1>3
<1>6. mark' = e
  BY <1>2, CursorRoundTrip DEF mark
<1>7. TypeOK'
  BY <1>5, CursorType DEF Inv, TypeOK
<1>8. Settled' = Settled
  BY DEF Settled
<1>9. CursorInv'
  BY <1>4, <1>5, <1>6, <1>8 DEF CursorInv
<1>10. \A c \in Buses : step'[c] = IF c = b THEN sp ELSE step[c]
  BY DEF Inv, TypeOK
<1>11. SessionInv(b)'
  BY <1>2, <1>3, <1>4, <1>6, <1>8, <1>10 DEF SessionInv
<1>12. ModelStep
  <2>1. Model!Save(e)
    BY <1>4, <1>5, <1>6 DEF Model!Save, Model!Settled, Settled, mark
  <2> QED
    BY <1>5, <2>1 DEF ModelStep, Model!Next
<1>13. state'[b] # "loading" /\ state'[b] # "off"
  BY <1>1 DEF Subscribed
<1> QED
  BY <1>1, <1>7, <1>9, <1>10, <1>11, <1>12, <1>13, OwnStep

LEMMA SaveCursorKeeps ==
  ASSUME Inv, NEW b \in Buses, SaveCursor(b)
  PROVE  Inv' /\ ModelStep
BY SaveKeeps DEF SaveCursor, modelVars, Inv, TypeOK

LEMMA SaveFailsKeeps ==
  ASSUME Inv, NEW b \in Buses, SaveFails(b)
  PROVE  Inv' /\ ModelStep
<1>1. /\ step[b] = "saving" /\ step' = [step EXCEPT ![b] = "failed"]
      /\ UNCHANGED <<opts, len, state, loaded, at, cancelled, from, applied, given>>
      /\ cursor' = cursor \/ cursor' = cursorFromSeq(at[b])
  BY DEF SaveFails, modelVars
<1>2. faults' \in 0..MaxFaults
  BY FaultType DEF SaveFails, Inv, TypeOK
<1>3. CASE cursor' = cursorFromSeq(at[b])
  BY <1>1, <1>2, <1>3, SaveKeeps
<1>4. CASE cursor' = cursor
  <2>1. state[b] # "off" /\ Subscribed(b)
    BY <1>1, Alone
  <2>2. state' = [state EXCEPT ![b] = state[b]] /\ cancelled' \subseteq Buses
    BY <1>1 DEF Inv, TypeOK
  <2> QED
    BY <1>1, <1>2, <1>4, <2>1, <2>2, QuietStep
<1> QED
  BY <1>1, <1>3, <1>4

\* GiveUp, in or out of the mark's reach.
LEMMA TolerateKeeps ==
  ASSUME Inv, NEW b \in Buses, Tolerate(b)
  PROVE  Inv' /\ ModelStep
<1> DEFINE e == at[b]
<1>1. /\ step[b] = "failed" /\ given' = given \cup {e}
      /\ step' = [step EXCEPT ![b] = "idle"]
      /\ UNCHANGED <<opts, len, cursor, state, loaded, at, cancelled, from, applied,
                     faults>>
  BY DEF Tolerate
<1>2. state[b] # "off" /\ Subscribed(b)
  BY <1>1, Alone
<1>3. /\ e \in Nat /\ len \in Nat /\ mark \in Nat /\ from \in Nat
      /\ len <= MaxEvents /\ MaxEvents \in Nat
  BY Numbers, MarkType DEF Inv
<1>4. mark <= e /\ e <= len /\ e >= 1 /\ from..(e - 1) \subseteq Settled
  BY <1>1, <1>2 DEF Inv, SessionInv
<1>5. e \in 1..len /\ e \in 1..MaxEvents
  BY <1>3, <1>4
<1>6. TypeOK'
  BY <1>1, <1>5 DEF Inv, TypeOK
<1>7. CursorInv'
  BY <1>1 DEF Inv, CursorInv, mark, Settled
<1>8. \A c \in Buses : step'[c] = IF c = b THEN "idle" ELSE step[c]
  BY <1>1 DEF Inv, TypeOK
<1>9. SessionInv(b)'
  <2>1. mark' = mark /\ Settled \subseteq Settled' /\ e \in Settled'
    BY <1>1 DEF mark, Settled
  <2>2. \A n \in from..e : n = e \/ n \in from..(e - 1)
    BY <1>3, <1>4
  <2>3. from..e \subseteq Settled' /\ from..(e - 1) \subseteq Settled'
    BY <1>4, <2>1, <2>2
  <2> QED
    BY <1>1, <1>4, <1>8, <2>1, <2>3 DEF SessionInv
<1>10. ModelStep
  <2>1. Model!GiveUp(e)
    BY <1>1, <1>4, <1>5 DEF Model!GiveUp, Model!Settled, Settled
  <2> QED
    BY <1>5, <2>1 DEF ModelStep, Model!Next
<1>11. state'[b] # "loading" /\ state'[b] # "off"
  BY <1>1, <1>2 DEF Subscribed
<1> QED
  BY <1>1, <1>2, <1>6, <1>7, <1>8, <1>9, <1>10, <1>11, OwnStep

LEMMA StutterKeeps ==
  ASSUME Inv, UNCHANGED vars
  PROVE  Inv' /\ ModelStep
<1>1. UNCHANGED <<opts, len, cursor, state, loaded, at, step, cancelled, from, applied,
                  given, faults>>
  BY DEF vars, sessionVars, modelVars
<1>2. TypeOK' /\ OwnerInv' /\ \A b \in Buses : SessionInv(b)'
  BY <1>1 DEF Inv, TypeOK, OwnerInv, SessionInv, Subscribed, mark, Settled
<1> QED
  BY <1>1, <1>2, Hidden DEF Inv

LEMMA StepKeeps == Inv /\ [Next]_vars => Inv' /\ ModelStep
<1> SUFFICES ASSUME Inv, [Next]_vars
             PROVE  Inv' /\ ModelStep
  OBVIOUS
<1>1. CASE Publish
  BY <1>1, PublishKeeps
<1>2. ASSUME NEW b \in Buses,
             \/ Connect(b) \/ ConnectFails(b) \/ SessionStep(b)
             \/ HandlerFails(b) \/ Cancel(b) \/ Crash(b)
      PROVE  Inv' /\ ModelStep
  BY <1>2, ConnectKeeps, ConnectFailsKeeps, SubscribeKeeps, DeliverKeeps, HandledKeeps,
     HandlerFailsKeeps, SaveCursorKeeps, SaveFailsKeeps, TolerateKeeps, EscalateKeeps,
     CancelKeeps, StopKeeps, DoneKeeps, CrashKeeps DEF SessionStep
<1>3. CASE UNCHANGED vars
  BY <1>3, StutterKeeps
<1> QED
  BY <1>1, <1>2, <1>3 DEF Next

LEMMA InitInv == Init => Inv /\ Model!Init
<1> SUFFICES ASSUME Init
             PROVE  Inv /\ Model!Init
  OBVIOUS
<1>1. cursor \in {NoCursor, <<0>>}
  BY DEF Init
<1>2. cursor \in Seq(0..(Word - 1)) /\ mark = 0
  BY <1>1, ForeignCursors DEF mark
<1>3. TypeOK
  BY <1>2, ForeignCursors, OrderedAssumption DEF Init, TypeOK
<1>4. OwnerInv /\ CursorInv /\ \A b \in Buses : SessionInv(b)
  BY <1>1, <1>2 DEF Init, OwnerInv, CursorInv, SessionInv, Subscribed
<1>5. Model!Init
  BY <1>2 DEF Init, Model!Init, mark
<1> QED
  BY <1>3, <1>4, <1>5 DEF Inv

-----------------------------------------------------------------------------
(* Results *)

\* Types: in particular the cursor fits its width, and no session runs ahead of
\* the stream.
THEOREM TypeCorrect == Spec => []TypeOK
<1>1. Inv => TypeOK
  BY DEF Inv
<1>2. Inv /\ [Next]_vars => Inv'
  BY StepKeeps
<1> QED
  BY <1>1, <1>2, InitInv, PTL DEF Spec

\* startOrderedGroup, subscribeOrdered and the cursor store together keep the
\* promises of Projection, through failures, disconnections, crashes and saves
\* of unknown outcome.
THEOREM Implementation == Spec => ImplementsProjection
<1>1. Inv /\ [Next]_vars => Inv'
  BY StepKeeps
<1>2. Inv /\ [Next]_vars => [Model!Next]_(Model!vars)
  BY StepKeeps DEF ModelStep
<1> QED
  BY <1>1, <1>2, InitInv, PTL DEF Spec, ImplementsProjection, Model!Spec

=============================================================================
