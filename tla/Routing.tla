------------------------------ MODULE Routing ------------------------------
(***************************************************************************)
(* From an event to the handlers registered for it.  Bus groups handlers   *)
(* and derives the filters of each group's consumer (bus.go), the NATS     *)
(* backend compacts or widens them and filters again what the consumer     *)
(* sends (nats/subjects.go, nats/subscriber.go), the event is decoded into *)
(* the type registered for its subject (registry.go) and dispatched.       *)
(* There is one scope and one aggregate type: neither is ever a wildcard   *)
(* in a group.  JetStream's matching of subjects is external.              *)
(***************************************************************************)
EXTENDS Naturals, Sequences, FiniteSets

CONSTANTS
  Kinds, Names, Ids,  \* tokens of a subject
  MaxHandlers         \* bound: handlers registered

\* The empty string of a prototype's name, and the star of a filter.
Star == "*"

ASSUME RoutingAssumption ==
  /\ Star \notin Kinds \cup Names \cup Ids
  /\ MaxHandlers \in Nat

HandlerNames == Names \cup {Star}
Handler == [kind : Kinds, name : HandlerNames, ids : SUBSET Ids]
Event == [kind : Kinds, id : Ids, name : Names]
Filter == [kind : Kinds, id : Ids \cup {Star}, name : Names \cup {Star}]
None == [kind |-> Star]

VARIABLES
  queue,      \* whether the handlers are queue handlers
  handlers,   \* the registered handlers
  connected,
  evt,        \* the event being delivered, or None
  waiting,    \* groups that have not dealt with it yet
  ran,        \* handlers it was given to
  mismatched  \* of these, the ones that refused its type

vars == <<queue, handlers, connected, evt, waiting, ran, mismatched>>

-----------------------------------------------------------------------------
(* Groups and their filters *)

\* Ordered groups are keyed by kind; a queue group mixes kinds.
GroupOf(i) == IF queue THEN "queue" ELSE handlers[i].kind
Members(g) == {i \in 1..Len(handlers) : GroupOf(i) = g}
Groups == {GroupOf(i) : i \in 1..Len(handlers)}

\* One filter per aggregate id, or one for every id.
HandlerFilters(h) ==
  {[kind |-> h.kind, id |-> i, name |-> h.name] :
     i \in IF h.ids = {} THEN {Star} ELSE h.ids}

\* Mutant: the kind is not compared.
Covers_AnyKind(c, f) == c.id \in {Star, f.id} /\ c.name \in {Star, f.name}

\* eventFilterSpecCovers, subjectFilterCovers.
Covers(c, f) ==
  /\ c.kind = f.kind
  /\ c.id \in {Star, f.id}
  /\ c.name \in {Star, f.name}

\* Mutant: only duplicates are dropped.
Compact_Duplicates(filters) == filters

\* A filter that another one covers is dropped.
Compact(filters) ==
  {f \in filters : ~\E c \in filters \ {f} : Covers(c, f)}

GroupFilters(g) == Compact(UNION {HandlerFilters(handlers[i]) : i \in Members(g)})

\* Several filters of a queue group that are all about one kind and one id
\* become <kind>.<id>.> : scoped permissions can name a single subject only.
ConsumerFilters(g) ==
  LET filters  == GroupFilters(g)
      Instance == {f \in filters : f.id # Star /\ \A o \in filters : o.kind = f.kind /\ o.id = f.id}
  IN IF queue /\ Cardinality(filters) > 1 /\ Instance # {}
     THEN {[f EXCEPT !.name = Star] : f \in Instance}
     ELSE filters

\* The consumer sends an event that matches one of its filters.
Matches(f, e) == f.kind = e.kind /\ f.id \in {Star, e.id} /\ f.name \in {Star, e.name}
Sends(g, e) == \E f \in ConsumerFilters(g) : Matches(f, e)

\* subscriptionSubjectMatches: what the group did not ask for is acknowledged.
Accepts(g, e) == \E f \in GroupFilters(g) : Matches(f, e)

-----------------------------------------------------------------------------
(* Decoding and dispatch *)

\* Mutant: a wildcard prototype is preferred.
DecodedAs_WildcardFirst(e) ==
  IF \E i \in 1..Len(handlers) : handlers[i].kind = e.kind /\ handlers[i].name = Star
  THEN Star ELSE e.name

\* The prototype an event is decoded into: that of its name, else a wildcard.
DecodedAs(e) ==
  IF \E i \in 1..Len(handlers) : handlers[i].kind = e.kind /\ handlers[i].name = e.name
  THEN e.name ELSE Star

\* dispatchEventGroup gives the event to h.
Wants(h, e) ==
  h.kind = e.kind /\ h.name \in {Star, e.name} /\ (h.ids = {} \/ e.id \in h.ids)

Register(h) ==
  /\ ~connected
  /\ Len(handlers) < MaxHandlers
  /\ handlers' = Append(handlers, h)
  /\ UNCHANGED <<queue, connected, evt, waiting, ran, mismatched>>

Connect ==
  /\ ~connected
  /\ connected' = TRUE
  /\ UNCHANGED <<queue, handlers, evt, waiting, ran, mismatched>>

\* An event is appended to the stream that every group's consumer reads.
Publish(e) ==
  /\ connected
  /\ evt = None
  /\ evt' = e
  /\ waiting' = Groups
  /\ UNCHANGED <<queue, handlers, connected, ran, mismatched>>

\* Mutant: the type is checked before the handler's own filter.
Deliver_TypeFirst(g) ==
  /\ g \in waiting
  /\ waiting' = waiting \ {g}
  /\ ran' = ran \cup {i \in Members(g) : Wants(handlers[i], evt)}
  /\ mismatched' = mismatched \cup {i \in Members(g) : handlers[i].name # DecodedAs(evt)}
  /\ UNCHANGED <<queue, handlers, connected, evt>>

\* handleMessage of the group's session, or the server's filter, is done with it.
Deliver(g) ==
  /\ g \in waiting
  /\ waiting' = waiting \ {g}
  /\ IF Sends(g, evt) /\ Accepts(g, evt)
     THEN LET given == {i \in Members(g) : Wants(handlers[i], evt)} IN
          /\ ran' = ran \cup given
          /\ mismatched' = mismatched \cup
               {i \in given : handlers[i].name # DecodedAs(evt)}
     ELSE UNCHANGED <<ran, mismatched>>
  /\ UNCHANGED <<queue, handlers, connected, evt>>

\* Every group is done with the event.
Done ==
  /\ evt # None /\ waiting = {}
  /\ evt' = None /\ ran' = {} /\ mismatched' = {}
  /\ UNCHANGED <<queue, handlers, connected, waiting>>

Init ==
  /\ queue \in BOOLEAN
  /\ handlers = <<>> /\ connected = FALSE
  /\ evt = None /\ waiting = {} /\ ran = {} /\ mismatched = {}

Next ==
  \/ \E h \in Handler : Register(h)
  \/ Connect
  \/ \E e \in Event : Publish(e)
  \/ \E g \in waiting : Deliver(g)
  \/ Done

Spec == Init /\ [][Next]_vars

-----------------------------------------------------------------------------
(* Properties *)

\* The registrations and the event under way are well formed.
TypeOK ==
  /\ queue \in BOOLEAN /\ connected \in BOOLEAN
  /\ handlers \in Seq(Handler) /\ Len(handlers) <= MaxHandlers
  /\ evt \in Event \cup {None}
  /\ waiting \subseteq Groups
  /\ ran \subseteq 1..Len(handlers) /\ mismatched \subseteq ran

\* Compaction, widening and the two filters lose nothing and add nothing: an
\* event is given to exactly the handlers registered for it.
RoutesExactly ==
  evt # None /\ waiting = {} =>
    ran = {i \in 1..Len(handlers) :
             /\ handlers[i].kind = evt.kind
             /\ handlers[i].name # Star => handlers[i].name = evt.name
             /\ handlers[i].ids # {} => evt.id \in handlers[i].ids}

Overlap(f, h) ==
  /\ f.kind = h.kind
  /\ f.id = h.id \/ Star \in {f.id, h.id}
  /\ f.name = h.name \/ Star \in {f.name, h.name}

\* JetStream refuses a consumer with overlapping filters, and Connect would
\* fail: in a group without wildcard prototypes compaction leaves none.
FiltersDisjoint ==
  \A g \in Groups :
    (\A i \in Members(g) : handlers[i].name # Star) =>
      \A f, h \in ConsumerFilters(g) : f # h => ~Overlap(f, h)

\* The handler of a named prototype is given events of its own type, whatever
\* wildcard prototypes are registered beside it.  (A wildcard handler beside a
\* named one is given events that it refuses with "event type mismatch".)
NamedAreDecoded == \A i \in mismatched : handlers[i].name = Star
=============================================================================
