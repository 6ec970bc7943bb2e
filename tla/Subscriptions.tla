---------------------------- MODULE Subscriptions ----------------------------
(***************************************************************************)
(* What a subscription configuration selects, in the two implementations   *)
(* of the subscriber interfaces.  The NATS backend validates it (pubsub.go)*)
(* and turns it into subject filters for the server (nats/subjects.go),    *)
(* widens those of a queue consumer and checks again what it receives      *)
(* (nats/subscriber.go, nats/command_bus.go); the test kit matches each    *)
(* message against the configuration itself (testkit/stub.go).  One        *)
(* subscription is enough: subscriptions do not share filters.             *)
(***************************************************************************)
EXTENDS Naturals, FiniteSets

CONSTANTS
  Scopes, Types, AggregateIds, MessageNames,  \* tokens
  Overrides,                                  \* kinds of MessageKindOverride: any tokens
  TypeLists, IdLists, NameLists               \* lists a configuration may hold, as sets

\* The zero value of a token, and the wildcard of a subject filter.
Unset == ""
Wildcard == "*"
Default == [event |-> "event", command |-> "command", query |-> "query"]
Categories == DOMAIN Default

ASSUME SubscriptionsAssumption ==
  /\ {Unset, Wildcard} \cap UNION {Scopes, Overrides, Types, AggregateIds, MessageNames} = {}
  /\ TypeLists \subseteq SUBSET (Types \cup {Wildcard})
  /\ IdLists \subseteq SUBSET (AggregateIds \cup {Wildcard})
  /\ NameLists \subseteq SUBSET (MessageNames \cup {Wildcard})

MessageKinds == Overrides \cup {Default[c] : c \in Categories}
Message == [scope : Scopes, override : Overrides \cup {Unset},
            type : Types, id : AggregateIds, name : MessageNames]
EventFilter == [kind : MessageKinds \cup {Unset}, ids : IdLists, names : NameLists]
ConfigWith(filterLists, queue) ==
  [scope : Scopes \cup {Unset}, kind : MessageKinds \cup {Unset}, types : TypeLists,
   ids : IdLists, names : NameLists, filters : filterLists, queue : queue]
FilterLists == {{}} \cup {{f, g} : f, g \in EventFilter}  \* bound: at most two
EventConfig == ConfigWith(FilterLists, BOOLEAN)
CommandConfig == ConfigWith({{}}, {TRUE})
NoMessage == [scope |-> Unset]

VARIABLES
  cat,       \* what is subscribed to: one of Categories, or Unset
  cfg,       \* the configuration
  subjects,  \* the filters at the server; {} if the subscription was refused
  msg,       \* the message under way, or NoMessage
  served,    \* what the NATS backend did with it: "", "handled" or "ignored"
  triggered  \* what the test kit did with it

subscriptionVars == <<cat, cfg, subjects, msg, served, triggered>>

SubscriptionInit ==
  /\ cat = Unset /\ cfg = NoMessage /\ subjects = {}
  /\ msg = NoMessage /\ served = "" /\ triggered = ""

-----------------------------------------------------------------------------
(* Validation *)

\* ValidateToken for each of them.
Valid(tokens) == Wildcard \notin tokens

ValidFilter(f) == Valid(f.ids) /\ Valid(f.names)

\* EventSubscriptionConfig.Validate, and without filters CommandSubscriptionConfig's.
Validate(c) ==
  /\ c.types # {} => c.scope # Unset
  /\ c.filters # {} =>
       c.kind = Unset /\ c.ids = {} /\ c.names = {} /\ Cardinality(c.types) = 1
  /\ c.ids \cup c.names # {} => Cardinality(c.types) = 1
  /\ Valid(c.types) /\ Valid(c.ids) /\ Valid(c.names)
  /\ \A f \in c.filters : ValidFilter(f)

-----------------------------------------------------------------------------
(* Subject filters *)

Or(value, default) == IF value = Unset THEN default ELSE value
WildcardIfEmpty(tokens) == IF tokens = {} THEN {Wildcard} ELSE tokens

\* Every combination of the lists is a filter.
Product(scope, kind, types, ids, names) ==
  [scope : {scope}, kind : {kind}, type : WildcardIfEmpty(types),
   id : WildcardIfEmpty(ids), name : WildcardIfEmpty(names)]

\* subjectFilterCovers
SubjectFilterCovers(c, f) == \A t \in {"scope", "kind", "type", "id", "name"} : c[t] \in {Wildcard, f[t]}

CompactSubjectFilters(fs) == {f \in fs : ~\E c \in fs \ {f} : SubjectFilterCovers(c, f)}

EventFilterSubjects(c) ==
  UNION {Product(c.scope, Or(f.kind, "event"), c.types, f.ids, f.names) : f \in c.filters}

EventFilters(c) ==
  CompactSubjectFilters(
    IF c.filters # {} THEN EventFilterSubjects(c)
    ELSE Product(c.scope, Or(c.kind, "event"), c.types, c.ids, c.names))

CommandFilters(k, c) ==
  Product(Or(c.scope, Wildcard), Or(c.kind, Default[k]), c.types, c.ids, c.names)

\* aggregateInstanceQueueScope: the kinds and ids of a configuration's parts.
\* With one of each, they fit a single filter for all names.
Parts(c) == IF c.filters # {} THEN c.filters ELSE {c}
Instance(c) ==
  {[kind |-> Or(p.kind, "event"), ids |-> p.ids] : p \in Parts(c)}

QueueConsumerFilters(c) ==
  IF /\ Cardinality(EventFilters(c)) > 1
     /\ \E k \in MessageKinds, i \in AggregateIds : Instance(c) = {[kind |-> k, ids |-> {i}]}
  THEN {[f EXCEPT !.name = Wildcard] : f \in EventFilters(c)}
  ELSE EventFilters(c)

-----------------------------------------------------------------------------
(* Subscribing *)

Refused == {}

\* Subscriber.SubscribeEvents: one scope and one type name the stream.
SubscribeEvents(c) ==
  /\ cat' = "event" /\ cfg' = c
  /\ subjects' = IF ~Validate(c) \/ c.scope = Unset \/ Cardinality(c.types) # 1 THEN Refused
                 ELSE IF c.queue THEN QueueConsumerFilters(c) ELSE EventFilters(c)
  /\ UNCHANGED <<msg, served, triggered>>

\* CommandSubscriber.SubscribeCommand and SubscribeQuery.
Subscribe(k, c) ==
  /\ cat' = k /\ cfg' = c
  /\ subjects' = IF Validate(c) THEN CommandFilters(k, c) ELSE Refused
  /\ UNCHANGED <<msg, served, triggered>>

-----------------------------------------------------------------------------
(* A message *)

\* EventSubject, CommandSubject and QuerySubject.
Kind(m, k) == Or(m.override, Default[k])
SubjectOf(m) ==
  [scope |-> m.scope, kind |-> Kind(m, cat), type |-> m.type, id |-> m.id, name |-> m.name]

\* A message of the kind subscribed to, event, command or query, is published
\* or dispatched, and given to the test kit by the Trigger function for it.
Send(m) ==
  /\ subjects # Refused /\ msg = NoMessage
  /\ msg' = m
  /\ UNCHANGED <<cat, cfg, subjects, served, triggered>>

\* An empty list of a configuration selects everything.
Selects(tokens, t) == tokens = {} \/ t \in tokens

\* Mutant: the client relies on the server for the names.
SubscriptionSubjectMatches_NoNames(c, s) ==
  \E p \in Parts(c) : s.kind = Or(p.kind, "event") /\ Selects(p.ids, s.id)

\* subscriptionSubjectMatches, eventFilterMatchesSubject and the check of
\* AggregateIDs in handleMessage.
SubscriptionSubjectMatches(c, s) ==
  \E p \in Parts(c) :
    s.kind = Or(p.kind, "event") /\ Selects(p.ids, s.id) /\ Selects(p.names, s.name)

\* What the NATS subscriber receives it handles, if an event also passes the
\* client's filter; JetStream and core NATS match subjects (external).
Receive ==
  LET s == SubjectOf(msg)
      sent == \E f \in subjects : SubjectFilterCovers(f, s)
  IN /\ msg # NoMessage /\ served = ""
     /\ served' = IF sent /\ (cat = "event" => SubscriptionSubjectMatches(cfg, s))
                  THEN "handled" ELSE "ignored"
     /\ UNCHANGED <<cat, cfg, subjects, msg, triggered>>

\* eventConfigMatches and eventFilterMatches.
EventConfigMatches(c, m) ==
  /\ c.scope \in {Unset, m.scope}
  /\ Selects(c.types, m.type)
  /\ \E p \in Parts(c) :
       Or(p.kind, "event") = Kind(m, "event") /\ Selects(p.ids, m.id) /\ Selects(p.names, m.name)

\* Mutant: only the kind of a command is looked at.
CommandConfigMatches_NoQueries(c, m) ==
  /\ c.scope \in {Unset, m.scope}
  /\ Or(c.kind, "command") = Kind(m, "command")
  /\ Selects(c.types, m.type) /\ Selects(c.ids, m.id) /\ Selects(c.names, m.name)

\* commandConfigMatches, for commands and queries alike.
CommandConfigMatches(c, m) ==
  /\ c.scope \in {Unset, m.scope}
  /\ Or(c.kind, "command") \in {Kind(m, "command"), Kind(m, "query")}
  /\ Selects(c.types, m.type) /\ Selects(c.ids, m.id) /\ Selects(c.names, m.name)

\* TriggerEvent, TriggerCommand and TriggerQuery.
Trigger ==
  /\ msg # NoMessage /\ triggered = ""
  /\ triggered' = IF IF cat = "event" THEN EventConfigMatches(cfg, msg)
                     ELSE CommandConfigMatches(cfg, msg)
                  THEN "handled" ELSE "ignored"
  /\ UNCHANGED <<cat, cfg, subjects, msg, served>>

SubscriptionNext ==
  \/ cat = Unset /\ \E c \in EventConfig : SubscribeEvents(c)
  \/ cat = Unset /\ \E c \in CommandConfig, k \in {"command", "query"} : Subscribe(k, c)
  \/ \E m \in Message : Send(m)
  \/ Receive \/ Trigger

SubscriptionSpec == SubscriptionInit /\ [][SubscriptionNext]_subscriptionVars

-----------------------------------------------------------------------------
\* commandConfigMatches is not told whether it is asked for a command or for a
\* query.  It takes a kind that is named for either, and one left out for that of
\* commands: where the other side of the two goes by such a kind, it is wrong.
Confused(k, c, m) ==
  \/ /\ k \in {"command", "query"} /\ m.override = Unset
     /\ c.kind \in {"command", "query"} \ {k}
  \/ k = "query" /\ c.kind = Unset /\ m.override \in {"command", "query"}

\* The test kit gives a message to a subscription that the NATS backend accepts
\* if and only if that backend does, so that what a test with the harness
\* exercises is what runs in production; the exception is Confused.
HarnessAgrees ==
  served # "" /\ triggered # "" => served = triggered \/ Confused(cat, cfg, msg)

\* addCommandHandler, addQueryHandler and groupEventFilters: Bus names the kind
\* of the handler's own message type, default or not.
AsRegistered(k, c, m) == \A p \in Parts(c) : p.kind = Kind(m, k)
=============================================================================
