----------------------------- MODULE BusProofs -----------------------------
(***************************************************************************)
(* For any registrations, with and without a policy: ordered handlers      *)
(* catch up first, Done means stopped, and the error that stopped the bus  *)
(* is the one that Done delivers.                                          *)
(***************************************************************************)
EXTENDS Bus, TLAPS

-----------------------------------------------------------------------------
(* The inductive invariant *)

\* Disconnect takes effect once, and takes the event subscriptions with it.
CloseInv ==
  /\ closed => ~running /\ sub \cap EventGroups = {}
  /\ closed <=> closing # "no"
  /\ done # "open" <=> closing = "returned"
  /\ ~closed => subs = {}

\* What the phases of Connect have not reached has no subscription.
StartInv ==
  /\ todo \subseteq (IF phase \in DOMAIN StartedIn THEN StartedIn[phase] ELSE {})
  /\ \A r \in todo : session[r] = "none"
  /\ phase = "idle" => \A r \in Regs : session[r] = "none"
  /\ phase \in {"ordered", "wait"} => \A r \in Replies \cup Queues : session[r] = "none"
  /\ phase = "commands" => \A r \in Queries \cup Queues : session[r] = "none"
  /\ phase = "queries" => \A r \in Queues : session[r] = "none"

\* A callback runs only in a session that is alive, and a session that is alive
\* is known to Connect or to Disconnect, which waits for those it knows.
SessionInv ==
  /\ \A g \in EventGroups : session[g] \in {"none", "closed"} => handler[g] = "idle"
  /\ \A g \in EventGroups : session[g] \in {"open", "draining"} =>
       g = starting \/ g \in sub \cup subs
  /\ closing = "returned" => \A g \in subs \cap EventGroups : session[g] = "closed"

\* The last message before a group has caught up is that of its last old event.
LastInv ==
  \A o \in Ordered : /\ session[o] = "none" => last[o] = FALSE
                     /\ last[o] = TRUE => old[o] <= 1

\* Nothing else is started before every ordered group has caught up.
CaughtInv ==
  /\ \A o \in caughtUp : session[o] # "none" /\ old[o] = 0
  /\ phase \in {"commands", "queries", "queues", "connected"} => caughtUp = Ordered
  /\ \A r \in Replies \cup Queues : session[r] # "none" => caughtUp = Ordered

Inv ==
  /\ TypeOK /\ CloseInv /\ StartInv /\ SessionInv /\ LastInv /\ CaughtInv
  /\ ErrorIsReported

-----------------------------------------------------------------------------
LEMMA ConnectKeeps ==
  ASSUME Inv, Connect
  PROVE  Inv'
<1>1. TypeOK'
  BY DEF Inv, TypeOK, StartedIn, EventGroups, Regs, Connect, disconnectVars, sessionVars
<1>2. StartInv'
  BY DEF Inv, StartInv, StartedIn, EventGroups, Regs, Connect, sessionVars
<1>3. CloseInv' /\ SessionInv' /\ LastInv' /\ CaughtInv' /\ ErrorIsReported'
  BY DEF Inv, CloseInv, SessionInv, LastInv, CaughtInv, ErrorIsReported, Connect,
     disconnectVars, sessionVars
<1> QED
  BY <1>1, <1>2, <1>3 DEF Inv

LEMMA ConnectClosedKeeps ==
  ASSUME Inv, ConnectClosed
  PROVE  Inv'
<1>1. TypeOK'
  BY DEF Inv, TypeOK, ConnectClosed, disconnectVars, sessionVars
<1>2. StartInv'
  BY DEF Inv, StartInv, StartedIn, ConnectClosed
<1>3. CloseInv' /\ SessionInv' /\ LastInv' /\ CaughtInv' /\ ErrorIsReported'
  BY DEF Inv, CloseInv, SessionInv, LastInv, CaughtInv, ErrorIsReported, ConnectClosed,
     disconnectVars, sessionVars
<1> QED
  BY <1>1, <1>2, <1>3 DEF Inv

LEMMA NextPhaseKeeps ==
  ASSUME Inv, NextPhase
  PROVE  Inv'
<1>1. TypeOK'
  BY DEF Inv, TypeOK, After, StartedIn, EventGroups, Replies, Regs, NextPhase, Enter,
     disconnectVars, sessionVars
<1>2. StartInv'
  BY DEF Inv, StartInv, After, StartedIn, NextPhase, Enter, sessionVars
<1>3. SessionInv'
  BY DEF Inv, SessionInv, Regs, NextPhase, disconnectVars, sessionVars
<1>4. CaughtInv'
  BY DEF Inv, CaughtInv, After, NextPhase, Enter, sessionVars
<1>5. CloseInv' /\ LastInv' /\ ErrorIsReported'
  BY DEF Inv, CloseInv, LastInv, ErrorIsReported, NextPhase, disconnectVars, sessionVars
<1> QED
  BY <1>1, <1>2, <1>3, <1>4, <1>5 DEF Inv

LEMMA SubscribeEventsKeeps ==
  ASSUME Inv, NEW g \in EventGroups, SubscribeEvents(g)
  PROVE  Inv'
<1>1. TypeOK'
  BY BusAssumption DEF Inv, TypeOK, After, StartedIn, EventGroups, Replies, Regs,
     SubscribeEvents, connectVars, disconnectVars, sessionVars
<1>2. StartInv'
  BY BusAssumption DEF Inv, StartInv, StartedIn, Replies, SubscribeEvents
<1>3. SessionInv'
  BY BusAssumption DEF Inv, SessionInv, CloseInv, StartInv, EventGroups,
     SubscribeEvents, disconnectVars
<1>4. LastInv'
  BY DEF Inv, TypeOK, LastInv, StartInv, SessionInv, SubscribeEvents
<1>5. CaughtInv'
  <2>1. /\ g \in todo /\ session[g] = "none" /\ g \notin caughtUp
        /\ session' = [session EXCEPT ![g] = "open"] /\ phase' = phase
    BY DEF Inv, StartInv, CaughtInv, SubscribeEvents
  <2>2. \A r \in Regs : session[r] # "none" => session'[r] # "none"
    BY <2>1 DEF Inv, TypeOK
  <2>3. CASE g \in Ordered
    <3>1. /\ old' = [old EXCEPT ![g] = pending[g]]
          /\ caughtUp' = IF pending[g] = 0 THEN caughtUp \cup {g} ELSE caughtUp
      BY <2>3 DEF SubscribeEvents
    <3>2. \A o \in caughtUp : o \in Ordered /\ o # g /\ old'[o] = old[o]
      BY <2>1, <3>1 DEF Inv, TypeOK
    <3>3. old'[g] = pending[g] /\ session'[g] = "open"
      BY <2>1, <2>3, <3>1 DEF Inv, TypeOK, Regs
    <3>4. phase = "ordered"
      BY <2>1, <2>3, BusAssumption DEF Inv, StartInv, StartedIn, Replies
    <3>5. \A r \in Replies \cup Queues : session'[r] = "none"
      BY <2>1, <2>3, <3>4, BusAssumption
      DEF Inv, TypeOK, StartInv, EventGroups, Replies, Regs
    <3> QED
      BY <2>1, <2>2, <3>1, <3>2, <3>3, <3>4, <3>5 DEF Inv, TypeOK, CaughtInv, EventGroups, Regs
  <2>4. CASE g \in Queues
    <3>1. UNCHANGED <<old, caughtUp>>
      BY <2>4, BusAssumption DEF SubscribeEvents
    <3>2. phase = "queues"
      BY <2>1, <2>4, BusAssumption DEF Inv, StartInv, StartedIn, Replies
    <3> QED
      BY <2>1, <2>2, <3>1, <3>2 DEF Inv, TypeOK, CaughtInv, EventGroups, Regs
  <2> QED
    BY <2>3, <2>4 DEF EventGroups
<1>6. CloseInv' /\ ErrorIsReported'
  BY DEF Inv, CloseInv, ErrorIsReported, SubscribeEvents, disconnectVars
<1> QED
  BY <1>1, <1>2, <1>3, <1>4, <1>5, <1>6 DEF Inv

LEMMA SubscribeRepliesKeeps ==
  ASSUME Inv, NEW r \in Replies, SubscribeReplies(r)
  PROVE  Inv'
<1>1. TypeOK'
  BY BusAssumption DEF Inv, TypeOK, SubscribeReplies, disconnectVars
<1>2. StartInv'
  BY BusAssumption DEF Inv, StartInv, StartedIn, Replies, SubscribeReplies
<1>3. SessionInv'
  BY BusAssumption DEF Inv, SessionInv, StartInv, EventGroups, SubscribeReplies,
     disconnectVars
<1>4. CaughtInv'
  BY BusAssumption DEF Inv, CaughtInv, StartInv, StartedIn, Replies, SubscribeReplies
<1>5. CloseInv' /\ LastInv' /\ ErrorIsReported'
  BY DEF Inv, CloseInv, LastInv, ErrorIsReported, SubscribeReplies, disconnectVars
<1> QED
  BY <1>1, <1>2, <1>3, <1>4, <1>5 DEF Inv

LEMMA RecordEventsKeeps ==
  ASSUME Inv, RecordEvents
  PROVE  Inv'
<1>1. TypeOK'
  BY DEF Inv, TypeOK, Regs, RecordEvents, disconnectVars, sessionVars
<1>2. CloseInv' /\ StartInv' /\ SessionInv' /\ LastInv' /\ CaughtInv' /\ ErrorIsReported'
  BY DEF Inv, CloseInv, StartInv, SessionInv, LastInv, CaughtInv, ErrorIsReported,
     RecordEvents, disconnectVars, sessionVars
<1> QED
  BY <1>1, <1>2 DEF Inv

LEMMA RecordRepliesKeeps ==
  ASSUME Inv, RecordReplies
  PROVE  Inv'
<1>1. TypeOK'
  BY DEF Inv, TypeOK, Regs, RecordReplies, disconnectVars, sessionVars
<1>2. CloseInv'
  BY BusAssumption DEF Inv, CloseInv, EventGroups, Replies, RecordReplies,
     disconnectVars
<1>3. StartInv' /\ SessionInv' /\ LastInv' /\ CaughtInv' /\ ErrorIsReported'
  BY DEF Inv, StartInv, SessionInv, LastInv, CaughtInv, ErrorIsReported, RecordReplies,
     disconnectVars, sessionVars
<1> QED
  BY <1>1, <1>2, <1>3 DEF Inv

LEMMA DiscardKeeps ==
  ASSUME Inv, Discard
  PROVE  Inv'
<1>1. TypeOK'
  BY DEF Inv, TypeOK, Regs, Discard, connectVars, disconnectVars
<1>2. CloseInv' /\ StartInv' /\ SessionInv' /\ LastInv' /\ CaughtInv' /\ ErrorIsReported'
  BY DEF Inv, CloseInv, StartInv, SessionInv, LastInv, CaughtInv, ErrorIsReported,
     Discard, connectVars, disconnectVars
<1> QED
  BY <1>1, <1>2 DEF Inv

LEMMA DiscardedKeeps ==
  ASSUME Inv, Discarded
  PROVE  Inv'
<1>1. TypeOK'
  BY DEF Inv, TypeOK, Discarded, disconnectVars, sessionVars
<1>2. CloseInv' /\ StartInv' /\ SessionInv' /\ LastInv' /\ CaughtInv' /\ ErrorIsReported'
  BY DEF Inv, CloseInv, StartInv, SessionInv, LastInv, CaughtInv, ErrorIsReported,
     Discarded, disconnectVars, sessionVars
<1> QED
  BY <1>1, <1>2 DEF Inv

LEMMA StartFailsKeeps ==
  ASSUME Inv, StartFails
  PROVE  Inv'
<1>1. TypeOK'
  BY DEF Inv, TypeOK, StartedIn, StartFails, Enter, disconnectVars, sessionVars
<1>2. StartInv'
  BY DEF Inv, StartInv, StartedIn, StartFails, Enter
<1>3. SessionInv'
  BY DEF Inv, SessionInv, Regs, StartFails, disconnectVars, sessionVars
<1>4. CaughtInv'
  BY DEF Inv, CaughtInv, StartFails, Enter, sessionVars
<1>5. CloseInv' /\ LastInv' /\ ErrorIsReported'
  BY DEF Inv, CloseInv, LastInv, ErrorIsReported, StartFails, disconnectVars,
     sessionVars
<1> QED
  BY <1>1, <1>2, <1>3, <1>4, <1>5 DEF Inv

LEMMA AllCaughtUpKeeps ==
  ASSUME Inv, AllCaughtUp
  PROVE  Inv'
<1>1. TypeOK'
  BY DEF Inv, TypeOK, StartedIn, Replies, Regs, AllCaughtUp, Enter, disconnectVars,
     sessionVars
<1>2. StartInv'
  BY DEF Inv, StartInv, StartedIn, Replies, AllCaughtUp, Enter, sessionVars
<1>3. CloseInv' /\ SessionInv' /\ LastInv' /\ CaughtInv' /\ ErrorIsReported'
  BY DEF Inv, CloseInv, SessionInv, LastInv, CaughtInv, ErrorIsReported, AllCaughtUp,
     disconnectVars, sessionVars
<1> QED
  BY <1>1, <1>2, <1>3 DEF Inv

LEMMA WaitCancelledKeeps ==
  ASSUME Inv, WaitCancelled
  PROVE  Inv'
<1>1. TypeOK'
  BY DEF Inv, TypeOK, StartedIn, WaitCancelled, Enter, disconnectVars, sessionVars
<1>2. StartInv'
  BY DEF Inv, StartInv, StartedIn, WaitCancelled, Enter
<1>3. CaughtInv'
  BY DEF Inv, CaughtInv, WaitCancelled, Enter, sessionVars
<1>4. CloseInv' /\ SessionInv' /\ LastInv' /\ ErrorIsReported'
  BY DEF Inv, CloseInv, SessionInv, LastInv, ErrorIsReported, WaitCancelled,
     disconnectVars, sessionVars
<1> QED
  BY <1>1, <1>2, <1>3, <1>4 DEF Inv

LEMMA UserDisconnectKeeps ==
  ASSUME Inv, UserDisconnect
  PROVE  Inv'
<1>1. TypeOK'
  BY BusAssumption DEF Inv, TypeOK, After, StartedIn, EventGroups, Replies, Regs,
     UserDisconnect, Disconnect, connectVars, disconnectVars, sessionVars
<1>2. CloseInv'
  BY DEF Inv, CloseInv, UserDisconnect, Disconnect
<1>3. StartInv'
  BY DEF Inv, StartInv, UserDisconnect, Disconnect, sessionVars
<1>4. SessionInv'
  BY DEF Inv, SessionInv, CloseInv, UserDisconnect, Disconnect, sessionVars
<1>5. LastInv'
  BY DEF Inv, LastInv, UserDisconnect, Disconnect, sessionVars
<1>6. CaughtInv'
  BY DEF Inv, CaughtInv, UserDisconnect, Disconnect, sessionVars
<1>7. ErrorIsReported'
  BY DEF Inv, ErrorIsReported, CloseInv, UserDisconnect, Disconnect
<1> QED
  BY <1>1, <1>2, <1>3, <1>4, <1>5, <1>6, <1>7 DEF Inv

LEMMA SpawnedDisconnectKeeps ==
  ASSUME Inv, SpawnedDisconnect
  PROVE  Inv'
<1>1. TypeOK'
  BY BusAssumption DEF Inv, TypeOK, After, StartedIn, EventGroups, Replies, Regs,
     SpawnedDisconnect, Disconnect, connectVars, disconnectVars, sessionVars
<1>2. CloseInv'
  BY DEF Inv, CloseInv, SpawnedDisconnect, Disconnect, disconnectVars
<1>3. StartInv'
  BY DEF Inv, StartInv, SpawnedDisconnect, Disconnect, connectVars, sessionVars
<1>4. SessionInv'
  BY DEF Inv, SessionInv, CloseInv, SpawnedDisconnect, Disconnect, connectVars,
     disconnectVars, sessionVars
<1>5. LastInv'
  BY DEF Inv, LastInv, SpawnedDisconnect, Disconnect, sessionVars
<1>6. CaughtInv'
  BY DEF Inv, CaughtInv, SpawnedDisconnect, Disconnect, connectVars, sessionVars
<1>7. ErrorIsReported'
  BY DEF Inv, ErrorIsReported, CloseInv, SpawnedDisconnect, Disconnect, disconnectVars
<1> QED
  BY <1>1, <1>2, <1>3, <1>4, <1>5, <1>6, <1>7 DEF Inv

LEMMA CleanupKeeps ==
  ASSUME Inv, Cleanup
  PROVE  Inv'
<1>1. TypeOK'
  BY BusAssumption DEF Inv, TypeOK, After, StartedIn, EventGroups, Replies, Regs,
     Cleanup, Disconnect, connectVars, disconnectVars, sessionVars
<1>2. CloseInv'
  BY DEF Inv, CloseInv, Cleanup, Disconnect, disconnectVars
<1>3. StartInv'
  BY DEF Inv, StartInv, StartedIn, Cleanup, Disconnect
<1>4. SessionInv'
  BY DEF Inv, SessionInv, CloseInv, Cleanup, Disconnect, disconnectVars, sessionVars
<1>5. LastInv'
  BY DEF Inv, LastInv, Cleanup, Disconnect, sessionVars
<1>6. CaughtInv'
  BY DEF Inv, CaughtInv, Cleanup, Disconnect, sessionVars
<1>7. ErrorIsReported'
  BY DEF Inv, ErrorIsReported, CloseInv, Cleanup, Disconnect, disconnectVars
<1> QED
  BY <1>1, <1>2, <1>3, <1>4, <1>5, <1>6, <1>7 DEF Inv

LEMMA CleanedUpKeeps ==
  ASSUME Inv, CleanedUp
  PROVE  Inv'
<1>1. TypeOK'
  BY DEF Inv, TypeOK, CleanedUp, disconnectVars, sessionVars
<1>2. StartInv'
  BY DEF Inv, StartInv, StartedIn, CleanedUp
<1>3. CloseInv' /\ SessionInv' /\ LastInv' /\ CaughtInv' /\ ErrorIsReported'
  BY DEF Inv, CloseInv, SessionInv, LastInv, CaughtInv, ErrorIsReported, CleanedUp,
     disconnectVars, sessionVars
<1> QED
  BY <1>1, <1>2, <1>3 DEF Inv

LEMMA CancelKeeps ==
  ASSUME Inv, Cancel
  PROVE  Inv'
<1>1. TypeOK'
  BY DEF Inv, TypeOK, Cancel, connectVars, sessionVars
<1>2. CloseInv' /\ StartInv' /\ SessionInv' /\ LastInv' /\ CaughtInv' /\ ErrorIsReported'
  BY DEF Inv, CloseInv, StartInv, SessionInv, LastInv, CaughtInv, ErrorIsReported,
     Cancel, connectVars, sessionVars
<1> QED
  BY <1>1, <1>2 DEF Inv

LEMMA StopEventsKeeps ==
  ASSUME Inv, NEW g \in EventGroups, StopEvents(g)
  PROVE  Inv'
<1>1. TypeOK'
  BY DEF Inv, TypeOK, StopEvents, connectVars, disconnectVars
<1>2. CloseInv' /\ StartInv' /\ SessionInv' /\ LastInv' /\ CaughtInv' /\ ErrorIsReported'
  BY DEF Inv, CloseInv, StartInv, SessionInv, LastInv, CaughtInv, ErrorIsReported,
     StopEvents, connectVars, disconnectVars
<1> QED
  BY <1>1, <1>2 DEF Inv

LEMMA StopRepliesKeeps ==
  ASSUME Inv, NEW r \in Replies, StopReplies(r)
  PROVE  Inv'
<1>1. TypeOK'
  BY BusAssumption DEF Inv, TypeOK, After, StartedIn, EventGroups, Replies, Regs,
     StopReplies, connectVars, disconnectVars, sessionVars
<1>2. StartInv'
  BY DEF Inv, TypeOK, StartInv, EventGroups, Replies, Regs, StopReplies, connectVars
<1>3. SessionInv'
  BY BusAssumption DEF Inv, TypeOK, SessionInv, EventGroups, Replies, Regs,
     StopReplies, connectVars
<1>4. LastInv'
  BY DEF Inv, TypeOK, LastInv, EventGroups, Regs, StopReplies
<1>5. CaughtInv'
  BY DEF Inv, TypeOK, CaughtInv, EventGroups, Regs, StopReplies
<1>6. CloseInv' /\ ErrorIsReported'
  BY DEF Inv, CloseInv, ErrorIsReported, StopReplies
<1> QED
  BY <1>1, <1>2, <1>3, <1>4, <1>5, <1>6 DEF Inv

LEMMA SignalDoneKeeps ==
  ASSUME Inv, SignalDone
  PROVE  Inv'
<1>1. TypeOK'
  BY DEF Inv, TypeOK, SignalDone, connectVars, sessionVars
<1>2. SessionInv'
  BY DEF Inv, SessionInv, SignalDone, EventsStopped, connectVars, sessionVars
<1>3. ErrorIsReported'
  BY BusAssumption DEF Inv, TypeOK, ErrorIsReported, EventGroups, Replies, Regs,
     SignalDone
<1>4. CloseInv' /\ StartInv' /\ LastInv' /\ CaughtInv'
  BY DEF Inv, CloseInv, StartInv, LastInv, CaughtInv, SignalDone, connectVars,
     sessionVars
<1> QED
  BY <1>1, <1>2, <1>3, <1>4 DEF Inv

LEMMA DeliverKeeps ==
  ASSUME Inv, NEW g \in EventGroups, Deliver(g)
  PROVE  Inv'
<1>1. TypeOK'
  BY DEF Inv, TypeOK, Deliver, busUnchanged, connectVars, disconnectVars
<1>2. LastInv'
  BY DEF Inv, TypeOK, LastInv, EventGroups, Deliver
<1>3. CloseInv' /\ StartInv' /\ SessionInv' /\ CaughtInv' /\ ErrorIsReported'
  BY DEF Inv, CloseInv, StartInv, SessionInv, CaughtInv, ErrorIsReported, Deliver,
     busUnchanged, connectVars, disconnectVars
<1> QED
  BY <1>1, <1>2, <1>3 DEF Inv

LEMMA HandlerReturnsKeeps ==
  ASSUME Inv, NEW g \in EventGroups, HandlerReturns(g)
  PROVE  Inv'
<1>1. TypeOK'
  BY DEF Inv, TypeOK, HandlerReturns, busUnchanged, Handled, connectVars, disconnectVars
<1>2. SessionInv'
  BY DEF Inv, SessionInv, HandlerReturns, busUnchanged, Handled, connectVars,
     disconnectVars
<1>3. LastInv'
  BY DEF Inv, TypeOK, LastInv, HandlerReturns, Handled
<1>4. CaughtInv'
  <2>1. session[g] # "none"
    BY DEF Inv, SessionInv, HandlerReturns
  <2>2. /\ UNCHANGED phase
        /\ \A r \in Regs : session'[r] = "none" <=> session[r] = "none"
    BY DEF Inv, TypeOK, HandlerReturns, busUnchanged, connectVars
  <2>3. caughtUp \subseteq caughtUp' /\ caughtUp' \subseteq Ordered
    BY DEF Inv, TypeOK, HandlerReturns, Handled
  <2>4. \A o \in caughtUp' : old'[o] = 0
    <3>1. CASE g \in Ordered
      BY <3>1 DEF Inv, TypeOK, LastInv, CaughtInv, HandlerReturns, Handled
    <3>2. CASE g \notin Ordered
      BY <3>2 DEF Inv, CaughtInv, HandlerReturns, Handled
    <3> QED
      BY <3>1, <3>2
  <2>5. \A o \in caughtUp' : o \in caughtUp \/ o = g
    BY DEF HandlerReturns, Handled
  <2> QED
    BY <2>1, <2>2, <2>3, <2>4, <2>5 DEF Inv, TypeOK, CaughtInv, EventGroups, Regs
<1>5. CloseInv' /\ StartInv' /\ ErrorIsReported'
  BY DEF Inv, CloseInv, StartInv, ErrorIsReported, HandlerReturns, busUnchanged,
     connectVars, disconnectVars
<1> QED
  BY <1>1, <1>2, <1>3, <1>4, <1>5 DEF Inv

LEMMA HandlerFailsKeeps ==
  ASSUME Inv, NEW g \in EventGroups, HandlerFails(g)
  PROVE  Inv'
<1>1. TypeOK'
  BY DEF Inv, TypeOK, HandlerFails, busUnchanged, connectVars, disconnectVars
<1>2. ErrorIsReported'
  BY DEF Inv, ErrorIsReported, CloseInv, SessionInv, HandlerFails, busUnchanged,
     disconnectVars
<1>3. CloseInv' /\ StartInv' /\ SessionInv' /\ LastInv' /\ CaughtInv'
  BY DEF Inv, CloseInv, StartInv, SessionInv, LastInv, CaughtInv, HandlerFails,
     busUnchanged, connectVars, disconnectVars
<1> QED
  BY <1>1, <1>2, <1>3 DEF Inv

LEMMA StopItselfKeeps ==
  ASSUME Inv, NEW g \in EventGroups, StopItself(g)
  PROVE  Inv'
<1>1. TypeOK'
  BY DEF Inv, TypeOK, Regs, StopItself, busUnchanged, Handled, StopOpen, connectVars,
     disconnectVars
<1>2. StartInv'
  BY DEF Inv, StartInv, StopItself, busUnchanged, StopOpen, connectVars
<1>3. SessionInv'
  BY DEF Inv, SessionInv, StopItself, busUnchanged, Handled, StopOpen, connectVars,
     disconnectVars
<1>4. LastInv'
  BY DEF Inv, TypeOK, LastInv, StopItself, Handled, StopOpen
<1>5. CaughtInv'
  <2>1. session[g] # "none"
    BY DEF Inv, SessionInv, StopItself
  <2>2. /\ UNCHANGED phase
        /\ \A r \in Regs : session'[r] = "none" <=> session[r] = "none"
    BY DEF Inv, TypeOK, StopItself, StopOpen, busUnchanged, connectVars
  <2>3. caughtUp \subseteq caughtUp' /\ caughtUp' \subseteq Ordered
    BY DEF Inv, TypeOK, StopItself, Handled
  <2>4. \A o \in caughtUp' : old'[o] = 0
    <3>1. CASE g \in Ordered
      BY <3>1 DEF Inv, TypeOK, LastInv, CaughtInv, StopItself, Handled
    <3>2. CASE g \notin Ordered
      BY <3>2 DEF Inv, CaughtInv, StopItself, Handled
    <3> QED
      BY <3>1, <3>2
  <2>5. \A o \in caughtUp' : o \in caughtUp \/ o = g
    BY DEF StopItself, Handled
  <2> QED
    BY <2>1, <2>2, <2>3, <2>4, <2>5 DEF Inv, TypeOK, CaughtInv, EventGroups, Regs
<1>6. CloseInv' /\ ErrorIsReported'
  BY DEF Inv, CloseInv, ErrorIsReported, StopItself, busUnchanged, disconnectVars
<1> QED
  BY <1>1, <1>2, <1>3, <1>4, <1>5, <1>6 DEF Inv

LEMMA TransportFailsKeeps ==
  ASSUME Inv, NEW g \in EventGroups, TransportFails(g)
  PROVE  Inv'
<1>1. TypeOK'
  BY DEF Inv, TypeOK, Regs, TransportFails, busUnchanged, StopOpen, connectVars,
     disconnectVars
<1>2. CloseInv'
  BY DEF Inv, CloseInv, TransportFails, busUnchanged, disconnectVars
<1>3. StartInv'
  BY DEF Inv, StartInv, TransportFails, busUnchanged, StopOpen, connectVars
<1>4. SessionInv'
  BY DEF Inv, SessionInv, TransportFails, busUnchanged, StopOpen, connectVars,
     disconnectVars
<1>5. LastInv'
  BY DEF Inv, LastInv, TransportFails, StopOpen
<1>6. CaughtInv'
  BY DEF Inv, CaughtInv, TransportFails, busUnchanged, StopOpen, connectVars
<1>7. ErrorIsReported'
  BY DEF Inv, ErrorIsReported, CloseInv, SessionInv, TransportFails, busUnchanged,
     disconnectVars
<1> QED
  BY <1>1, <1>2, <1>3, <1>4, <1>5, <1>6, <1>7 DEF Inv

LEMMA StopOnCancelKeeps ==
  ASSUME Inv, NEW g \in EventGroups, StopOnCancel(g)
  PROVE  Inv'
<1>1. TypeOK'
  BY DEF Inv, TypeOK, Regs, StopOnCancel, busUnchanged, StopOpen, connectVars,
     disconnectVars
<1>2. StartInv'
  BY DEF Inv, StartInv, StopOnCancel, busUnchanged, StopOpen, connectVars
<1>3. SessionInv'
  BY DEF Inv, SessionInv, StopOnCancel, busUnchanged, StopOpen, connectVars,
     disconnectVars
<1>4. LastInv'
  BY DEF Inv, LastInv, StopOnCancel, StopOpen
<1>5. CaughtInv'
  BY DEF Inv, CaughtInv, StopOnCancel, busUnchanged, StopOpen, connectVars
<1>6. CloseInv' /\ ErrorIsReported'
  BY DEF Inv, CloseInv, ErrorIsReported, StopOnCancel, busUnchanged, disconnectVars
<1> QED
  BY <1>1, <1>2, <1>3, <1>4, <1>5, <1>6 DEF Inv

LEMMA SessionClosesKeeps ==
  ASSUME Inv, NEW g \in EventGroups, SessionCloses(g)
  PROVE  Inv'
<1>1. TypeOK'
  BY DEF Inv, TypeOK, Regs, SessionCloses, busUnchanged, connectVars, disconnectVars
<1>2. CloseInv' /\ StartInv' /\ SessionInv' /\ LastInv' /\ CaughtInv' /\ ErrorIsReported'
  BY DEF Inv, CloseInv, StartInv, SessionInv, LastInv, CaughtInv, ErrorIsReported,
     SessionCloses, busUnchanged, connectVars, disconnectVars
<1> QED
  BY <1>1, <1>2 DEF Inv

LEMMA DrainEndsKeeps ==
  ASSUME Inv, NEW r \in Replies, DrainEnds(r)
  PROVE  Inv'
<1>1. TypeOK'
  BY DEF Inv, TypeOK, Regs, DrainEnds, busUnchanged, connectVars, disconnectVars
<1>2. SessionInv'
  BY BusAssumption DEF Inv, SessionInv, EventGroups, Replies, DrainEnds, busUnchanged,
     connectVars, disconnectVars
<1>3. CloseInv' /\ StartInv' /\ LastInv' /\ CaughtInv' /\ ErrorIsReported'
  BY DEF Inv, CloseInv, StartInv, LastInv, CaughtInv, ErrorIsReported, DrainEnds,
     busUnchanged, connectVars, disconnectVars
<1> QED
  BY <1>1, <1>2, <1>3 DEF Inv

LEMMA CancelContextKeeps ==
  ASSUME Inv, CancelContext
  PROVE  Inv'
<1>1. TypeOK'
  BY DEF Inv, TypeOK, CancelContext, connectVars, disconnectVars, sessionVars
<1>2. CloseInv' /\ StartInv' /\ SessionInv' /\ LastInv' /\ CaughtInv' /\ ErrorIsReported'
  BY DEF Inv, CloseInv, StartInv, SessionInv, LastInv, CaughtInv, ErrorIsReported,
     CancelContext, connectVars, disconnectVars, sessionVars
<1> QED
  BY <1>1, <1>2 DEF Inv

LEMMA PublishKeeps ==
  ASSUME Inv, NEW o \in Ordered, Publish(o)
  PROVE  Inv'
<1>1. TypeOK'
  BY BusAssumption DEF Inv, TypeOK, Publish, busUnchanged, connectVars, disconnectVars
<1>2. CloseInv' /\ StartInv' /\ SessionInv' /\ LastInv' /\ CaughtInv' /\ ErrorIsReported'
  BY DEF Inv, CloseInv, StartInv, SessionInv, LastInv, CaughtInv, ErrorIsReported,
     Publish, busUnchanged, connectVars, disconnectVars
<1> QED
  BY <1>1, <1>2 DEF Inv

LEMMA InitInv == Init => Inv
<1> SUFFICES ASSUME Init
             PROVE  Inv
  OBVIOUS
<1>1. TypeOK
  <2>1. "idle" \in DOMAIN StartedIn \cup
                   {"idle", "wait", "cleanup", "closing", "failed", "connected"}
    OBVIOUS
  <2>2. 0 \in 0..MaxPublished
    BY BusAssumption
  <2> QED
    BY <2>1, <2>2 DEF Init, TypeOK
<1>2. CloseInv
  BY DEF Init, CloseInv
<1>3. StartInv /\ SessionInv /\ LastInv
  BY DEF Init, StartInv, SessionInv, LastInv, StartedIn, EventGroups, Regs, Replies
<1>4. CaughtInv /\ ErrorIsReported
  BY DEF Init, CaughtInv, ErrorIsReported, EventGroups, Regs
<1> QED
  BY <1>1, <1>2, <1>3, <1>4 DEF Inv

LEMMA StutterKeeps ==
  ASSUME Inv, UNCHANGED vars
  PROVE  Inv'
<1>1. TypeOK' /\ CloseInv' /\ StartInv' /\ SessionInv'
  BY DEF Inv, TypeOK, CloseInv, StartInv, SessionInv, vars
<1>2. LastInv' /\ CaughtInv' /\ ErrorIsReported'
  BY DEF Inv, LastInv, CaughtInv, ErrorIsReported, vars
<1> QED
  BY <1>1, <1>2 DEF Inv

LEMMA InvInductive == Inv /\ [Next]_vars => Inv'
<1> SUFFICES ASSUME Inv, [Next]_vars
             PROVE  Inv'
  OBVIOUS
<1>1. CASE Connect \/ ConnectClosed \/ UserDisconnect \/ CancelContext
  BY <1>1, ConnectKeeps, ConnectClosedKeeps, UserDisconnectKeeps, CancelContextKeeps
<1>2. CASE ConnectStep
  BY <1>2, NextPhaseKeeps, RecordEventsKeeps, RecordRepliesKeeps, DiscardKeeps,
     DiscardedKeeps, StartFailsKeeps, AllCaughtUpKeeps, WaitCancelledKeeps,
     CleanupKeeps, CleanedUpKeeps, SubscribeEventsKeeps, SubscribeRepliesKeeps
  DEF ConnectStep
<1>3. CASE DisconnectStep
  BY <1>3, SpawnedDisconnectKeeps, CancelKeeps, SignalDoneKeeps, StopEventsKeeps,
     StopRepliesKeeps DEF DisconnectStep
<1>4. ASSUME NEW g \in EventGroups, SessionStep(g) \/ Deliver(g) \/ TransportFails(g)
      PROVE  Inv'
  BY <1>4, HandlerReturnsKeeps, HandlerFailsKeeps, StopItselfKeeps, StopOnCancelKeeps,
     SessionClosesKeeps, DeliverKeeps, TransportFailsKeeps DEF SessionStep
<1>5. CASE (\E r \in Replies : DrainEnds(r)) \/ (\E o \in Ordered : Publish(o))
  BY <1>5, DrainEndsKeeps, PublishKeeps
<1>6. CASE UNCHANGED vars
  BY <1>6, StutterKeeps
<1> QED
  BY <1>1, <1>2, <1>3, <1>4, <1>5, <1>6 DEF Next

LEMMA Invariance == Spec => []Inv
BY InitInv, InvInductive, PTL DEF Spec

-----------------------------------------------------------------------------
(* Results *)

\* Types, for any registrations.
THEOREM TypeCorrect == Spec => []TypeOK
<1>1. Inv => TypeOK
  BY DEF Inv
<1> QED
  BY <1>1, Invariance, PTL

\* Connect starts no command, query or queue subscription before the handlers
\* of all ordered groups have returned from the events that were there before,
\* however Connect, Disconnect, failures and new events interleave.
THEOREM CatchUp == Spec => []CatchUpFirst
<1>1. Inv => CatchUpFirst
  BY DEF Inv, CaughtInv, CatchUpFirst
<1> QED
  BY <1>1, Invariance, PTL

\* When Disconnect has closed Done, no event handler runs, and only a
\* subscription that Connect is about to discard can be alive.
THEOREM Stopped == Spec => []DoneMeansStopped
<1>1. Inv => DoneMeansStopped
  <2> SUFFICES ASSUME Inv, done # "open", NEW g \in EventGroups, g # starting
               PROVE  session[g] \in {"none", "closed"} /\ handler[g] = "idle"
    BY DEF DoneMeansStopped
  <2>1. closed /\ closing = "returned" /\ g \notin sub
    BY DEF Inv, CloseInv
  <2>2. session[g] \in {"none", "open", "draining", "closed"}
    BY DEF Inv, TypeOK, Regs
  <2>3. session[g] \notin {"open", "draining"}
    BY <2>1 DEF Inv, SessionInv
  <2> QED
    BY <2>2, <2>3 DEF Inv, SessionInv
<1> QED
  BY <1>1, Invariance, PTL

\* signalDone delivers the error of a subscription that Disconnect waited for.
THEOREM Reported == Spec => []ErrorIsReported
<1>1. Inv => ErrorIsReported
  BY DEF Inv
<1> QED
  BY <1>1, Invariance, PTL
=============================================================================
