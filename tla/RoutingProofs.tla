--------------------------- MODULE RoutingProofs ---------------------------
(***************************************************************************)
(* Routing is exact for every set of kinds, names and ids and any number   *)
(* of handlers, and the test kit selects what the NATS backend selects,    *)
(* save where it takes a command for a query (module Subscriptions).  The  *)
(* heart of both is that compaction keeps, for every event a filter        *)
(* matches, some filter that matches it.                                   *)
(***************************************************************************)
EXTENDS Routing, Subscriptions, FiniteSetTheorems, TLAPS

\* Compaction loses no event.  A filter that matches e and is not covered is
\* found among the four shapes that match e, the widest first.
LEMMA CompactKeeps ==
  ASSUME NEW S \in SUBSET Filter, NEW e \in Event, NEW f \in S, Matches(f, e)
  PROVE  \E c \in Compact(S) : Matches(c, e)
<1> DEFINE All    == [kind |-> e.kind, id |-> Star, name |-> Star]
           ByName == [kind |-> e.kind, id |-> Star, name |-> e.name]
           ById   == [kind |-> e.kind, id |-> e.id, name |-> Star]
           Exact  == [kind |-> e.kind, id |-> e.id, name |-> e.name]
<1>e. e.kind \in Kinds /\ e.id \in Ids /\ e.name \in Names
  BY DEF Event
<1>n. e.id # Star /\ e.name # Star
  BY <1>e, RoutingAssumption
<1>m. Matches(All, e) /\ Matches(ByName, e) /\ Matches(ById, e) /\ Matches(Exact, e)
  BY DEF Matches
<1>s. \A c \in S : c = [kind |-> c.kind, id |-> c.id, name |-> c.name]
  BY DEF Filter
<1>1. \A c \in S : Covers(c, All) => c = All
  BY <1>s DEF Covers
<1>2. \A c \in S : Covers(c, ByName) => c \in {All, ByName}
  BY <1>s DEF Covers
<1>3. \A c \in S : Covers(c, ById) => c \in {All, ById}
  BY <1>s DEF Covers
<1>4. \A c \in S : Covers(c, Exact) => c \in {All, ByName, ById, Exact}
  BY <1>s DEF Covers
<1>5. f \in {All, ByName, ById, Exact}
  BY <1>s DEF Matches
<1> HIDE DEF All, ByName, ById, Exact
<1>6. CASE All \in S
  <2>1. All \in Compact(S)
    BY <1>6, <1>1 DEF Compact
  <2> QED
    BY <2>1, <1>m
<1>7. CASE All \notin S /\ ByName \in S
  <2>1. ByName \in Compact(S)
    BY <1>7, <1>2 DEF Compact
  <2> QED
    BY <2>1, <1>m
<1>8. CASE All \notin S /\ ById \in S
  <2>1. ById \in Compact(S)
    BY <1>8, <1>3 DEF Compact
  <2> QED
    BY <2>1, <1>m
<1>9. CASE All \notin S /\ ByName \notin S /\ ById \notin S
  <2>1. Exact \in Compact(S)
    BY <1>9, <1>4, <1>5 DEF Compact
  <2> QED
    BY <2>1, <1>m
<1> QED
  BY <1>6, <1>7, <1>8, <1>9

\* The filters of a group are filters, compacted or not.
LEMMA GroupFiltersType ==
  ASSUME TypeOK, NEW g
  PROVE  UNION {HandlerFilters(handlers[i]) : i \in Members(g)} \in SUBSET Filter
<1> SUFFICES ASSUME NEW i \in Members(g), NEW f \in HandlerFilters(handlers[i])
             PROVE  f \in Filter
  OBVIOUS
<1>1. i \in 1..Len(handlers)
  BY DEF Members
<1>2. handlers[i] \in Handler
  BY <1>1 DEF TypeOK
<1>3. handlers[i].kind \in Kinds /\ handlers[i].name \in Names \cup {Star} /\ handlers[i].ids \subseteq Ids
  BY <1>2 DEF Handler, HandlerNames
<1> QED
  BY <1>3 DEF HandlerFilters, Filter

\* An event that a member wants passes the consumer's filter and the client's.
LEMMA WantedArrives ==
  ASSUME TypeOK, NEW g, NEW i \in Members(g), NEW e \in Event, Wants(handlers[i], e)
  PROVE  Sends(g, e) /\ Accepts(g, e)
<1> DEFINE S == UNION {HandlerFilters(handlers[j]) : j \in Members(g)}
<1>1. S \in SUBSET Filter
  BY GroupFiltersType
<1>2. \E f \in HandlerFilters(handlers[i]) : Matches(f, e)
  <2>1. CASE handlers[i].ids = {}
    <3>1. [kind |-> handlers[i].kind, id |-> Star, name |-> handlers[i].name]
            \in HandlerFilters(handlers[i])
      BY <2>1 DEF HandlerFilters
    <3> QED
      BY <3>1 DEF Wants, Matches
  <2>2. CASE handlers[i].ids # {}
    <3>0. e.id \in handlers[i].ids
      BY <2>2 DEF Wants
    <3>1. [kind |-> handlers[i].kind, id |-> e.id, name |-> handlers[i].name]
            \in HandlerFilters(handlers[i])
      BY <2>2, <3>0 DEF HandlerFilters
    <3> QED
      BY <3>1 DEF Wants, Matches
  <2> QED
    BY <2>1, <2>2
<1>3. PICK f \in S : Matches(f, e)
  BY <1>2
<1>4. PICK c \in Compact(S) : Matches(c, e)
  BY <1>1, <1>3, CompactKeeps
<1>5. c \in GroupFilters(g)
  BY <1>4 DEF GroupFilters
<1>6. Accepts(g, e)
  BY <1>4, <1>5 DEF Accepts
<1>7. \E d \in ConsumerFilters(g) : Matches(d, e)
  <2> DEFINE filters == GroupFilters(g)
             Inst == {x \in filters : x.id # Star /\ \A o \in filters : o.kind = x.kind /\ o.id = x.id}
  <2>1. CASE queue /\ Cardinality(filters) > 1 /\ Inst # {}
    <3>1. PICK x \in Inst : TRUE
      BY <2>1
    <3>2. c.kind = x.kind /\ c.id = x.id
      BY <3>1, <1>5
    <3>3. [x EXCEPT !.name = Star] \in ConsumerFilters(g)
      BY <3>1, <2>1 DEF ConsumerFilters
    <3>4. x \in Filter
      BY <3>1, <1>1 DEF GroupFilters, Compact
    <3>5. Matches([x EXCEPT !.name = Star], e)
      BY <3>2, <3>4, <1>4 DEF Matches, Filter
    <3> QED
      BY <3>3, <3>5
  <2>2. CASE ~(queue /\ Cardinality(filters) > 1 /\ Inst # {})
    <3>1. ConsumerFilters(g) = filters
      BY <2>2 DEF ConsumerFilters
    <3> QED
      BY <3>1, <1>4, <1>5
  <2> QED
    BY <2>1, <2>2
<1> QED
  BY <1>6, <1>7 DEF Sends

\* The handlers an event has been given to are those that want it, in the
\* groups that are done with it.
Progress ==
  /\ evt = None => ran = {} /\ mismatched = {} /\ waiting = {}
  /\ evt # None => ran = {i \in 1..Len(handlers) :
                            GroupOf(i) \notin waiting /\ Wants(handlers[i], evt)}
  /\ ~connected => evt = None

Inv == TypeOK /\ Progress

LEMMA NoneIsNoEvent == None \notin Event
<1> SUFFICES ASSUME None \in Event PROVE FALSE
  OBVIOUS
<1>1. None.kind \in Kinds
  BY DEF Event
<1> QED
  BY <1>1, RoutingAssumption DEF None

LEMMA InitInv == Init => Inv
<1> SUFFICES ASSUME Init PROVE Inv
  OBVIOUS
<1>1. handlers \in Seq(Handler) /\ Len(handlers) <= MaxHandlers
  BY RoutingAssumption DEF Init
<1>2. TypeOK
  BY <1>1 DEF Init, TypeOK
<1>3. Progress
  BY DEF Init, Progress
<1> QED
  BY <1>2, <1>3 DEF Inv

LEMMA NextInv == Inv /\ [Next]_vars => Inv'
<1> SUFFICES ASSUME Inv, [Next]_vars PROVE Inv'
  OBVIOUS
<1> USE DEF Inv
<1>1. ASSUME NEW h \in Handler, Register(h) PROVE Inv'
  <2>0. evt = None /\ ran = {} /\ mismatched = {} /\ waiting = {}
    BY <1>1 DEF Register, Progress
  <2>1. handlers' \in Seq(Handler) /\ Len(handlers') = Len(handlers) + 1
    BY <1>1 DEF Register, TypeOK
  <2>2. TypeOK'
    BY <1>1, <2>0, <2>1, RoutingAssumption DEF Register, TypeOK
  <2>3. Progress'
    BY <1>1, <2>0 DEF Register, Progress
  <2> QED
    BY <2>2, <2>3
<1>2. CASE Connect
  <2>1. Groups' = Groups
    BY <1>2 DEF Connect, Groups, GroupOf
  <2>2. TypeOK'
    BY <1>2, <2>1 DEF Connect, TypeOK
  <2>3. Progress'
    BY <1>2 DEF Connect, Progress
  <2> QED
    BY <2>2, <2>3
<1>3. ASSUME NEW e \in Event, Publish(e) PROVE Inv'
  <2>1. Groups' = Groups
    BY <1>3 DEF Publish, Groups, GroupOf
  <2>2. TypeOK'
    BY <1>3, <2>1 DEF Publish, TypeOK
  <2>3. \A i \in 1..Len(handlers) : GroupOf(i)' \in waiting'
    BY <1>3 DEF Publish, Groups, GroupOf
  <2>4. ran' = {} /\ handlers' = handlers /\ evt' # None /\ connected'
    BY <1>3, NoneIsNoEvent DEF Publish, Progress
  <2>5. Progress'
    BY <2>3, <2>4 DEF Progress
  <2> QED
    BY <2>2, <2>5
<1>4. ASSUME NEW g \in waiting, Deliver(g) PROVE Inv'
  <2> DEFINE given == {i \in Members(g) : Wants(handlers[i], evt)}
  <2>0. evt # None /\ evt \in Event
    BY <1>4 DEF Progress, TypeOK
  <2>1. UNCHANGED <<queue, handlers, connected, evt>> /\ waiting' = waiting \ {g}
    BY <1>4 DEF Deliver
  <2>2. Groups' = Groups /\ \A i : GroupOf(i)' = GroupOf(i)
    BY <2>1 DEF Groups, GroupOf
  <2>3. given # {} => Sends(g, evt) /\ Accepts(g, evt)
    BY <2>0, WantedArrives
  <2>4. ran' = ran \cup given
    BY <1>4, <2>3 DEF Deliver
  <2>5. mismatched' \subseteq mismatched \cup given
    BY <1>4 DEF Deliver
  <2>6. given \subseteq 1..Len(handlers)
    BY DEF Members
  <2>7. TypeOK'
    BY <2>1, <2>2, <2>4, <2>5, <2>6 DEF TypeOK
  <2>8. given = {i \in 1..Len(handlers) : GroupOf(i) = g /\ Wants(handlers[i], evt)}
    BY DEF Members
  <2>9. ran = {i \in 1..Len(handlers) : GroupOf(i) \notin waiting /\ Wants(handlers[i], evt)}
    BY <2>0 DEF Progress
  <2>10. ran' = {i \in 1..Len(handlers) : GroupOf(i) \notin waiting' /\ Wants(handlers[i], evt)}
    BY <2>1, <2>4, <2>8, <2>9
  <2>11. Progress'
    <3>1. \A i : Wants(handlers[i], evt)' <=> Wants(handlers[i], evt)
      BY <2>1 DEF Wants
    <3> QED
      BY <2>0, <2>1, <2>2, <2>10, <3>1 DEF Progress
  <2> QED
    BY <2>7, <2>11
<1>5. CASE Done
  <2>1. Groups' = Groups
    BY <1>5 DEF Done, Groups, GroupOf
  <2>2. TypeOK'
    BY <1>5, <2>1 DEF Done, TypeOK
  <2>3. Progress'
    BY <1>5 DEF Done, Progress
  <2> QED
    BY <2>2, <2>3
<1>6. CASE UNCHANGED vars
  <2>1. Groups' = Groups /\ \A i : GroupOf(i)' = GroupOf(i)
    BY <1>6 DEF vars, Groups, GroupOf
  <2>2. TypeOK'
    BY <1>6, <2>1 DEF vars, TypeOK
  <2>3. Progress'
    BY <1>6, <2>1 DEF vars, Progress, Wants
  <2> QED
    BY <2>2, <2>3
<1> QED
  BY <1>1, <1>2, <1>3, <1>4, <1>5, <1>6 DEF Next

THEOREM Invariance == Spec => []Inv
  BY InitInv, NextInv, PTL DEF Spec

\* Registrations and the event under way are always well formed.
THEOREM TypeCorrect == Spec => []TypeOK
<1>1. Inv => TypeOK
  BY DEF Inv
<1> QED
  BY <1>1, Invariance, PTL

\* Whatever handlers are registered, an event is given to exactly those that
\* registered for it: the filters of bus.go and subscriber.go lose none.
THEOREM RoutingIsExact == Spec => []RoutesExactly
<1>1. Inv => RoutesExactly
  <2> SUFFICES ASSUME Inv, evt # None, waiting = {} PROVE RoutesExactly
    BY DEF RoutesExactly
  <2>1. ran = {i \in 1..Len(handlers) : Wants(handlers[i], evt)}
    BY DEF Inv, Progress
  <2> QED
    BY <2>1 DEF RoutesExactly, Wants
<1> QED
  BY <1>1, Invariance, PTL

\* The filters of a group without wildcard prototypes are disjoint, so
\* JetStream accepts them: two that overlap differ in their ids only, and then
\* one of them covers the other and compaction has dropped it.
THEOREM FiltersAreDisjoint ==
  Spec => []FiltersDisjoint
<1>1. TypeOK => FiltersDisjoint
  <2> SUFFICES ASSUME TypeOK, NEW g \in Groups,
                      \A i \in Members(g) : handlers[i].name # Star,
                      NEW f \in ConsumerFilters(g), NEW h \in ConsumerFilters(g),
                      f # h, Overlap(f, h)
               PROVE  FALSE
    BY DEF FiltersDisjoint
  <2> DEFINE S == UNION {HandlerFilters(handlers[i]) : i \in Members(g)}
             Inst == {x \in GroupFilters(g) :
                        x.id # Star /\ \A o \in GroupFilters(g) : o.kind = x.kind /\ o.id = x.id}
  <2>1. S \in SUBSET Filter
    BY GroupFiltersType
  <2>2. \A x \in S : x.name # Star
    <3> SUFFICES ASSUME NEW i \in Members(g), NEW x \in HandlerFilters(handlers[i])
                 PROVE  x.name # Star
      OBVIOUS
    <3>1. x.name = handlers[i].name
      BY DEF HandlerFilters
    <3> QED
      BY <3>1
  <2>3. GroupFilters(g) \subseteq S
    BY DEF GroupFilters, Compact
  <2>4. CASE f \in GroupFilters(g) /\ h \in GroupFilters(g)
    <3>1. f \in Filter /\ h \in Filter /\ f.name = h.name /\ f.kind = h.kind
      BY <2>1, <2>2, <2>3, <2>4 DEF Overlap
    <3>2. f.id # h.id
      BY <3>1 DEF Filter
    <3>3. Covers(f, h) \/ Covers(h, f)
      BY <3>1, <3>2 DEF Overlap, Covers
    <3> QED
      BY <3>3, <2>3, <2>4 DEF GroupFilters, Compact
  <2>5. CASE ~(f \in GroupFilters(g) /\ h \in GroupFilters(g))
    <3>1. PICK x \in Inst, y \in Inst : f = [x EXCEPT !.name = Star] /\ h = [y EXCEPT !.name = Star]
      BY <2>5 DEF ConsumerFilters
    <3>2. x \in Filter /\ y \in Filter /\ x.kind = y.kind /\ x.id = y.id
      BY <2>1, <2>3
    <3>3. f = h
      BY <3>1, <3>2 DEF Filter
    <3> QED
      BY <3>3
  <2> QED
    BY <2>4, <2>5
<1> QED
  BY <1>1, TypeCorrect, PTL

\* Beside whatever wildcard prototypes, a named handler is only given values of
\* its own type: the registry prefers the prototype of the event's name.
THEOREM NamedHandlersDecode == Spec => []NamedAreDecoded
<1>1. Init => NamedAreDecoded
  BY DEF Init, NamedAreDecoded
<1>2. Inv /\ NamedAreDecoded /\ [Next]_vars => NamedAreDecoded'
  <2> SUFFICES ASSUME Inv, NamedAreDecoded, [Next]_vars PROVE NamedAreDecoded'
    OBVIOUS
  <2>1. ASSUME NEW h \in Handler, Register(h) PROVE NamedAreDecoded'
    BY <2>1 DEF Register, Inv, Progress, NamedAreDecoded
  <2>2. CASE Connect \/ (\E e \in Event : Publish(e)) \/ UNCHANGED vars
    BY <2>2 DEF Connect, Publish, vars, NamedAreDecoded
  <2>3. ASSUME NEW g \in waiting, Deliver(g) PROVE NamedAreDecoded'
    <3> DEFINE refused == {i \in Members(g) : /\ Wants(handlers[i], evt)
                                              /\ handlers[i].name # DecodedAs(evt)}
    <3>1. mismatched' \subseteq mismatched \cup refused /\ handlers' = handlers
      BY <2>3 DEF Deliver
    <3>2. \A i \in refused : handlers[i].name = Star
      BY DEF Wants, DecodedAs, Members
    <3> QED
      BY <3>1, <3>2 DEF NamedAreDecoded
  <2>4. CASE Done
    BY <2>4 DEF Done, NamedAreDecoded
  <2> QED
    BY <2>1, <2>2, <2>3, <2>4 DEF Next
<1> QED
  BY <1>1, <1>2, InitInv, NextInv, PTL DEF Spec

-----------------------------------------------------------------------------
(* What a configuration selects: the module Subscriptions *)

\* A kind that a configuration or a message may have is a token.
LEMMA KindToken ==
  ASSUME NEW k \in MessageKinds \cup {Unset}, NEW c \in Categories
  PROVE  Or(k, Default[c]) \in MessageKinds /\ Or(k, Default[c]) # Wildcard
<1>1. Wildcard \notin MessageKinds
  BY SubscriptionsAssumption DEF MessageKinds, Wildcard, Default, Categories
<1>2. Default[c] \in MessageKinds
  BY DEF MessageKinds
<1> QED
  BY <1>1, <1>2 DEF Or

\* SubjectFilterCovers, token by token.
LEMMA CoversIs ==
  ASSUME NEW c, NEW f
  PROVE  SubjectFilterCovers(c, f) <=>
           /\ c.scope \in {Wildcard, f.scope} /\ c.kind \in {Wildcard, f.kind}
           /\ c.type \in {Wildcard, f.type} /\ c.id \in {Wildcard, f.id} /\ c.name \in {Wildcard, f.name}
BY DEF SubjectFilterCovers

\* The filters of a list of tokens without a wildcard cover what it selects.
LEMMA ListCovers ==
  ASSUME NEW tokens, Wildcard \notin tokens, NEW t, t # Wildcard
  PROVE  Selects(tokens, t) <=> \E x \in WildcardIfEmpty(tokens) : x \in {Wildcard, t}
BY DEF Selects, WildcardIfEmpty

\* A product of lists covers a subject whose tokens they all select.
LEMMA ProductCovers ==
  ASSUME NEW scope, NEW kind, NEW types, NEW ids, NEW names,
         Wildcard \notin types, Wildcard \notin ids, Wildcard \notin names,
         NEW s, s.type # Wildcard, s.id # Wildcard, s.name # Wildcard
  PROVE  (\E f \in Product(scope, kind, types, ids, names) : SubjectFilterCovers(f, s))
           <=> /\ scope \in {Wildcard, s.scope} /\ kind \in {Wildcard, s.kind}
               /\ Selects(types, s.type) /\ Selects(ids, s.id) /\ Selects(names, s.name)
<1>1. ASSUME NEW f \in Product(scope, kind, types, ids, names), SubjectFilterCovers(f, s)
      PROVE  /\ scope \in {Wildcard, s.scope} /\ kind \in {Wildcard, s.kind}
             /\ Selects(types, s.type) /\ Selects(ids, s.id) /\ Selects(names, s.name)
  <2>1. /\ f.scope = scope /\ f.kind = kind /\ f.type \in WildcardIfEmpty(types)
        /\ f.id \in WildcardIfEmpty(ids) /\ f.name \in WildcardIfEmpty(names)
    BY DEF Product
  <2> QED
    BY <1>1, <2>1, CoversIs, ListCovers
<1>2. ASSUME scope \in {Wildcard, s.scope}, kind \in {Wildcard, s.kind},
             Selects(types, s.type), Selects(ids, s.id), Selects(names, s.name)
      PROVE  \E f \in Product(scope, kind, types, ids, names) : SubjectFilterCovers(f, s)
  <2>1. PICK t \in WildcardIfEmpty(types) : t \in {Wildcard, s.type}
    BY <1>2, ListCovers
  <2>2. PICK i \in WildcardIfEmpty(ids) : i \in {Wildcard, s.id}
    BY <1>2, ListCovers
  <2>3. PICK n \in WildcardIfEmpty(names) : n \in {Wildcard, s.name}
    BY <1>2, ListCovers
  <2>4. PICK f : f = [scope |-> scope, kind |-> kind, type |-> t, id |-> i, name |-> n]
    OBVIOUS
  <2>5. f \in Product(scope, kind, types, ids, names)
    BY <2>4 DEF Product
  <2>6. SubjectFilterCovers(f, s)
    BY <1>2, <2>1, <2>2, <2>3, <2>4, CoversIs
  <2> QED
    BY <2>5, <2>6
<1> QED
  BY <1>1, <1>2

\* Filters of a configuration: of one scope, with no wildcard for kind or type.
ExactFilters(scope) ==
  [scope : {scope}, kind : MessageKinds, type : Types,
   id : AggregateIds \cup {Wildcard}, name : MessageNames \cup {Wildcard}]

\* Compaction drops no filter that is needed.
LEMMA CompactionKeeps ==
  ASSUME NEW scope, scope # Wildcard, NEW F \in SUBSET ExactFilters(scope),
         NEW s, NEW f \in F, SubjectFilterCovers(f, s), s.id # Wildcard, s.name # Wildcard
  PROVE  \E c \in CompactSubjectFilters(F) : SubjectFilterCovers(c, s)
<1> DEFINE With(i, n) == [scope |-> scope, kind |-> s.kind, type |-> s.type, id |-> i, name |-> n]
<1>1. Wildcard \notin MessageKinds /\ Wildcard \notin Types
  BY SubscriptionsAssumption DEF MessageKinds, Wildcard, Default, Categories
<1>2. \A g \in F : /\ g.scope = scope /\ g.kind \in MessageKinds /\ g.type \in Types
                   /\ g = [scope |-> g.scope, kind |-> g.kind, type |-> g.type, id |-> g.id, name |-> g.name]
  BY DEF ExactFilters
<1>3. ASSUME NEW g \in F, SubjectFilterCovers(g, s)
      PROVE  g \in {With(Wildcard, Wildcard), With(Wildcard, s.name), With(s.id, Wildcard), With(s.id, s.name)}
  BY <1>1, <1>2, <1>3, CoversIs
<1>4. ASSUME NEW i \in {Wildcard, s.id}, NEW n \in {Wildcard, s.name}, NEW g \in F,
             SubjectFilterCovers(g, With(i, n))
      PROVE  g.id \in {Wildcard, i} /\ g.name \in {Wildcard, n} /\ g = With(g.id, g.name)
  BY <1>1, <1>2, <1>4, CoversIs
<1>5. \A i \in {Wildcard, s.id}, n \in {Wildcard, s.name} : scope = s.scope => SubjectFilterCovers(With(i, n), s)
  BY CoversIs
<1>6. scope = s.scope
  BY <1>2, CoversIs
<1> HIDE DEF With
<1>7. CASE With(Wildcard, Wildcard) \in F
  <2>1. With(Wildcard, Wildcard) \in CompactSubjectFilters(F)
    BY <1>4, <1>7 DEF CompactSubjectFilters
  <2> QED
    BY <1>5, <1>6, <2>1
<1>8. CASE With(Wildcard, Wildcard) \notin F /\ With(Wildcard, s.name) \in F
  <2>1. With(Wildcard, s.name) \in CompactSubjectFilters(F)
    BY <1>4, <1>8 DEF CompactSubjectFilters
  <2> QED
    BY <1>5, <1>6, <2>1
<1>9. CASE With(Wildcard, Wildcard) \notin F /\ With(s.id, Wildcard) \in F
  <2>1. With(s.id, Wildcard) \in CompactSubjectFilters(F)
    BY <1>4, <1>9 DEF CompactSubjectFilters
  <2> QED
    BY <1>5, <1>6, <2>1
<1>10. CASE With(Wildcard, Wildcard) \notin F /\ With(Wildcard, s.name) \notin F /\ With(s.id, Wildcard) \notin F
  <2>0. With(s.id, s.name) \in F
    BY <1>3, <1>10
  <2>1. With(s.id, s.name) \in CompactSubjectFilters(F)
    BY <1>4, <1>10, <2>0 DEF CompactSubjectFilters
  <2> QED
    BY <1>5, <1>6, <2>1
<1> QED
  BY <1>7, <1>8, <1>9, <1>10

-----------------------------------------------------------------------------
(* Events *)

\* The filters of a configuration before compaction.
Wanted(c) ==
  UNION {Product(c.scope, Or(p.kind, "event"), c.types, p.ids, p.names) : p \in Parts(c)}

\* What SubscribeEvents accepts.
Accepted(c) ==
  /\ c \in EventConfig /\ Validate(c) /\ c.scope # Unset /\ c.types # {}

LEMMA AcceptedTypes ==
  ASSUME NEW c, Accepted(c)
  PROVE  /\ c.scope \in Scopes /\ c.scope # Wildcard /\ c.types \subseteq Types
         /\ \A p \in Parts(c) : /\ p.kind \in MessageKinds \cup {Unset}
                                /\ p.ids \subseteq AggregateIds /\ p.names \subseteq MessageNames
<1>1. /\ c.scope \in Scopes /\ c.kind \in MessageKinds \cup {Unset}
      /\ c.types \in TypeLists /\ c.ids \in IdLists /\ c.names \in NameLists
      /\ c.filters \in FilterLists
  BY DEF Accepted, EventConfig, ConfigWith
<1>2. c.filters \subseteq EventFilter
  BY <1>1 DEF FilterLists
<1>3. c.types \subseteq Types /\ c.ids \subseteq AggregateIds /\ c.names \subseteq MessageNames
  BY <1>1, SubscriptionsAssumption DEF Accepted, Validate, Valid
<1>4. c.scope # Wildcard
  BY <1>1, SubscriptionsAssumption
<1>5. ASSUME NEW f \in c.filters
      PROVE  f.kind \in MessageKinds \cup {Unset} /\ f.ids \subseteq AggregateIds /\ f.names \subseteq MessageNames
  <2>1. f.kind \in MessageKinds \cup {Unset} /\ f.ids \in IdLists /\ f.names \in NameLists
    BY <1>2 DEF EventFilter
  <2>2. Wildcard \notin f.ids /\ Wildcard \notin f.names
    BY DEF Accepted, Validate, ValidFilter, Valid
  <2> QED
    BY <2>1, <2>2, SubscriptionsAssumption
<1> QED
  BY <1>1, <1>3, <1>4, <1>5 DEF Parts

LEMMA EventFiltersAre ==
  ASSUME NEW c, Accepted(c)
  PROVE  /\ EventFilters(c) = CompactSubjectFilters(Wanted(c))
         /\ Wanted(c) \in SUBSET ExactFilters(c.scope)
<1>1. EventFilters(c) = CompactSubjectFilters(Wanted(c))
  <2>1. CASE c.filters = {}
    <3>1. Wanted(c) = Product(c.scope, Or(c.kind, "event"), c.types, c.ids, c.names)
      BY <2>1 DEF Wanted, Parts
    <3> QED
      BY <2>1, <3>1 DEF EventFilters
  <2>2. CASE c.filters # {}
    BY <2>2 DEF EventFilters, Wanted, Parts, EventFilterSubjects
  <2> QED
    BY <2>1, <2>2
<1>2. ASSUME NEW p \in Parts(c), NEW f \in Product(c.scope, Or(p.kind, "event"), c.types, p.ids, p.names)
      PROVE  f \in ExactFilters(c.scope)
  <2>1. /\ c.types \subseteq Types /\ p.kind \in MessageKinds \cup {Unset}
        /\ p.ids \subseteq AggregateIds /\ p.names \subseteq MessageNames
    BY AcceptedTypes
  <2>2. Or(p.kind, "event") \in MessageKinds
    <3>1. "event" \in Categories /\ Default["event"] = "event"
      BY DEF Categories, Default
    <3> QED
      BY <2>1, <3>1, KindToken
  <2>3. /\ WildcardIfEmpty(c.types) \subseteq Types
        /\ WildcardIfEmpty(p.ids) \subseteq AggregateIds \cup {Wildcard}
        /\ WildcardIfEmpty(p.names) \subseteq MessageNames \cup {Wildcard}
    BY <2>1 DEF WildcardIfEmpty, Accepted
  <2> QED
    BY <2>2, <2>3 DEF Product, ExactFilters
<1> QED
  BY <1>1, <1>2 DEF Wanted

\* A subject of a message that can be published.
Subject == [scope : Scopes, kind : MessageKinds, type : Types, id : AggregateIds, name : MessageNames]

\* The server matches, with the filters before compaction, what the test kit
\* matches with the configuration.
LEMMA WantedIs ==
  ASSUME NEW c, Accepted(c), NEW s \in Subject
  PROVE  (\E f \in Wanted(c) : SubjectFilterCovers(f, s)) <=>
           /\ c.scope = s.scope /\ Selects(c.types, s.type)
           /\ SubscriptionSubjectMatches(c, s)
<1>1. /\ s.scope # Wildcard /\ s.type # Wildcard /\ s.id # Wildcard /\ s.name # Wildcard
  BY SubscriptionsAssumption DEF Subject
<1>2. /\ c.scope # Wildcard /\ Wildcard \notin c.types
      /\ \A p \in Parts(c) : Wildcard \notin p.ids /\ Wildcard \notin p.names /\ Or(p.kind, "event") # Wildcard
  <2>1. "event" \in Categories /\ Default["event"] = "event"
    BY DEF Categories, Default
  <2>2. \A p \in Parts(c) : Or(p.kind, "event") # Wildcard
    BY <2>1, AcceptedTypes, KindToken
  <2> QED
    BY <2>2, AcceptedTypes, SubscriptionsAssumption
<1>3. \A p \in Parts(c) :
        (\E f \in Product(c.scope, Or(p.kind, "event"), c.types, p.ids, p.names) : SubjectFilterCovers(f, s))
          <=> /\ c.scope = s.scope /\ Or(p.kind, "event") = s.kind
              /\ Selects(c.types, s.type) /\ Selects(p.ids, s.id) /\ Selects(p.names, s.name)
  BY <1>1, <1>2, ProductCovers
<1>4. (\E f \in Wanted(c) : SubjectFilterCovers(f, s)) <=>
        \E p \in Parts(c) : \E f \in Product(c.scope, Or(p.kind, "event"), c.types, p.ids, p.names) : SubjectFilterCovers(f, s)
  BY DEF Wanted
<1> QED
  BY <1>3, <1>4 DEF SubscriptionSubjectMatches

\* What the server sends with either set of filters, and the client lets pass,
\* is what the configuration wants.
LEMMA EventsAgree ==
  ASSUME NEW c, Accepted(c), NEW s \in Subject,
         NEW fs \in {EventFilters(c), QueueConsumerFilters(c)}
  PROVE  (\E f \in fs : SubjectFilterCovers(f, s)) /\ SubscriptionSubjectMatches(c, s)
           <=> \E f \in Wanted(c) : SubjectFilterCovers(f, s)
<1>1. fs = EventFilters(c) \/ fs = {[f EXCEPT !.name = Wildcard] : f \in EventFilters(c)}
  BY DEF QueueConsumerFilters
<1>2. EventFilters(c) \subseteq Wanted(c) /\ Wanted(c) \in SUBSET ExactFilters(c.scope)
  BY EventFiltersAre DEF CompactSubjectFilters
<1>3. \A f \in EventFilters(c) :
        /\ [f EXCEPT !.name = Wildcard].scope = f.scope /\ [f EXCEPT !.name = Wildcard].kind = f.kind
        /\ [f EXCEPT !.name = Wildcard].type = f.type /\ [f EXCEPT !.name = Wildcard].id = f.id
        /\ [f EXCEPT !.name = Wildcard].name = Wildcard
  BY <1>2 DEF ExactFilters
<1>4. ASSUME NEW f \in Wanted(c), SubjectFilterCovers(f, s)
      PROVE  (\E g \in fs : SubjectFilterCovers(g, s)) /\ SubscriptionSubjectMatches(c, s)
  <2>1. SubscriptionSubjectMatches(c, s)
    BY <1>4, WantedIs
  <2>2. PICK g \in EventFilters(c) : SubjectFilterCovers(g, s)
    <3>1. c.scope # Wildcard /\ s.id # Wildcard /\ s.name # Wildcard
      BY AcceptedTypes, SubscriptionsAssumption DEF Subject
    <3> QED
      BY <1>2, <1>4, <3>1, EventFiltersAre, CompactionKeeps
  <2>3. SubjectFilterCovers([g EXCEPT !.name = Wildcard], s)
    BY <1>3, <2>2, CoversIs
  <2> QED
    BY <1>1, <2>1, <2>2, <2>3
<1>5. ASSUME NEW g \in fs, SubjectFilterCovers(g, s), SubscriptionSubjectMatches(c, s)
      PROVE  \E f \in Wanted(c) : SubjectFilterCovers(f, s)
  <2>1. PICK f \in EventFilters(c) : g.scope = f.scope /\ g.type = f.type
    <3>1. CASE fs = EventFilters(c)
      BY <3>1
    <3>2. CASE fs = {[f EXCEPT !.name = Wildcard] : f \in EventFilters(c)}
      <4>1. PICK f \in EventFilters(c) : g = [f EXCEPT !.name = Wildcard]
        BY <3>2
      <4> QED
        BY <1>3, <4>1
    <3> QED
      BY <1>1, <3>1, <3>2
  <2>2. PICK p \in Parts(c) : f \in Product(c.scope, Or(p.kind, "event"), c.types, p.ids, p.names)
    BY <1>2 DEF Wanted
  <2>3. f.scope = c.scope /\ f.type \in c.types
    BY <2>2 DEF Product, WildcardIfEmpty, Accepted
  <2>4. c.scope # Wildcard /\ c.types \subseteq Types /\ Wildcard \notin Types
    BY AcceptedTypes, SubscriptionsAssumption
  <2>5. c.scope = s.scope /\ s.type \in c.types
    BY <1>5, <2>1, <2>3, <2>4, CoversIs
  <2> QED
    BY <1>5, <2>5, WantedIs DEF Selects
<1> QED
  BY <1>4, <1>5

-----------------------------------------------------------------------------
(* Commands and queries *)

\* commandConfigMatches compares the kind with that of a command and that of a
\* query; unless it is confused, both comparisons come to the same as the filter's.
LEMMA CommandsAgree ==
  ASSUME NEW k \in {"command", "query"},
         NEW c \in CommandConfig, Validate(c), NEW m \in Message, ~Confused(k, c, m),
         NEW s, s = [scope |-> m.scope, kind |-> Kind(m, k), type |-> m.type, id |-> m.id, name |-> m.name]
  PROVE  (\E f \in CommandFilters(k, c) : SubjectFilterCovers(f, s)) <=> CommandConfigMatches(c, m)
<1>1. /\ c.scope \in Scopes \cup {Unset} /\ c.kind \in MessageKinds \cup {Unset}
      /\ Wildcard \notin c.types /\ Wildcard \notin c.ids /\ Wildcard \notin c.names
  BY DEF CommandConfig, ConfigWith, Validate, Valid
<1>2. /\ m.scope \in Scopes /\ m.override \in Overrides \cup {Unset}
      /\ m.type \in Types /\ m.id \in AggregateIds /\ m.name \in MessageNames
  BY DEF Message
<1>3. /\ s.scope = m.scope /\ s.kind = Or(m.override, Default[k])
      /\ s.type = m.type /\ s.id = m.id /\ s.name = m.name
  BY DEF Kind
<1>4. s.type # Wildcard /\ s.id # Wildcard /\ s.name # Wildcard
  BY <1>2, <1>3, SubscriptionsAssumption
<1>5. (\E f \in CommandFilters(k, c) : SubjectFilterCovers(f, s)) <=>
        /\ Or(c.scope, Wildcard) \in {Wildcard, s.scope} /\ Or(c.kind, Default[k]) \in {Wildcard, s.kind}
        /\ Selects(c.types, s.type) /\ Selects(c.ids, s.id) /\ Selects(c.names, s.name)
  BY <1>1, <1>4, ProductCovers DEF CommandFilters
<1>6. Or(c.scope, Wildcard) \in {Wildcard, s.scope} <=> c.scope \in {Unset, m.scope}
  BY <1>1, <1>2, <1>3, SubscriptionsAssumption DEF Or
<1>7. Or(c.kind, Default[k]) \in {Wildcard, s.kind}
        <=> Or(c.kind, "command") \in {Kind(m, "command"), Kind(m, "query")}
  <2>1. /\ Default["command"] = "command" /\ Default["query"] = "query" /\ Default[k] = k
        /\ "command" \in Categories /\ "query" \in Categories
    BY DEF Default, Categories
  <2>2. Or(c.kind, Default[k]) # Wildcard
    BY <1>1, <2>1, KindToken
  <2>3. Kind(m, "command") = Or(m.override, "command") /\ Kind(m, "query") = Or(m.override, "query")
    BY <2>1 DEF Kind
  <2>4. s.kind = Or(m.override, k)
    BY <1>3, <2>1
  <2>5. CASE m.override = Unset
    <3>1. s.kind = k /\ Kind(m, "command") = "command" /\ Kind(m, "query") = "query"
      BY <2>3, <2>4, <2>5 DEF Or
    <3>2. c.kind \notin {"command", "query"} \ {k}
      BY <2>5 DEF Confused
    <3> QED
      BY <2>1, <2>2, <3>1, <3>2 DEF Or
  <2>6. CASE m.override # Unset
    <3>1. s.kind = m.override /\ Kind(m, "command") = m.override /\ Kind(m, "query") = m.override
      BY <2>3, <2>4, <2>6 DEF Or
    <3>2. k = "query" /\ c.kind = Unset => m.override \notin {"command", "query"}
      BY DEF Confused
    <3> QED
      BY <2>1, <2>2, <3>1, <3>2 DEF Or
  <2> QED
    BY <2>5, <2>6
<1> QED
  BY <1>3, <1>5, <1>6, <1>7 DEF CommandConfigMatches

-----------------------------------------------------------------------------
(* The two implementations *)

\* A subscription that the NATS backend has accepted.
AcceptedInv ==
  subjects # Refused =>
    \/ /\ cat = "event" /\ Accepted(cfg)
       /\ subjects \in {EventFilters(cfg), QueueConsumerFilters(cfg)}
    \/ /\ cat \in {"command", "query"} /\ cfg \in CommandConfig /\ Validate(cfg)
       /\ subjects = CommandFilters(cat, cfg)

\* What Receive and Trigger decide.
NatsHandles ==
  /\ \E f \in subjects : SubjectFilterCovers(f, SubjectOf(msg))
  /\ cat = "event" => SubscriptionSubjectMatches(cfg, SubjectOf(msg))
KitHandles ==
  IF cat = "event" THEN EventConfigMatches(cfg, msg) ELSE CommandConfigMatches(cfg, msg)

\* Both have decided on the message under way, each in its own way.
VerdictInv ==
  /\ msg # NoMessage => subjects # Refused /\ msg \in Message
  /\ served # "" => msg # NoMessage /\ served = IF NatsHandles THEN "handled" ELSE "ignored"
  /\ triggered # "" => msg # NoMessage /\ triggered = IF KitHandles THEN "handled" ELSE "ignored"

LEMMA HandlesAgree ==
  ASSUME AcceptedInv, VerdictInv, msg # NoMessage, ~Confused(cat, cfg, msg)
  PROVE  NatsHandles <=> KitHandles
<1>1. msg \in Message /\ subjects # Refused
  BY DEF VerdictInv
<1>2. PICK s : s = SubjectOf(msg)
  OBVIOUS
<1>3. /\ s = [scope |-> msg.scope, kind |-> Kind(msg, cat), type |-> msg.type, id |-> msg.id, name |-> msg.name]
      /\ msg.override \in Overrides \cup {Unset}
      /\ msg.scope \in Scopes /\ msg.type \in Types /\ msg.id \in AggregateIds /\ msg.name \in MessageNames
  BY <1>1, <1>2 DEF SubjectOf, Message
<1>4. CASE cat = "event" /\ Accepted(cfg) /\ subjects \in {EventFilters(cfg), QueueConsumerFilters(cfg)}
  <2>1. s \in Subject /\ s.kind = Kind(msg, "event")
    <3>1. "event" \in Categories
      BY DEF Categories, Default
    <3>2. msg.override \in MessageKinds \cup {Unset}
      BY <1>3 DEF MessageKinds
    <3>3. Kind(msg, "event") \in MessageKinds
      BY <3>1, <3>2, KindToken DEF Kind
    <3> QED
      BY <1>3, <1>4, <3>3 DEF Subject
  <2>2. NatsHandles <=> /\ cfg.scope = s.scope /\ Selects(cfg.types, s.type)
                        /\ SubscriptionSubjectMatches(cfg, s)
    BY <1>2, <1>4, <2>1, EventsAgree, WantedIs DEF NatsHandles
  <2>3. SubscriptionSubjectMatches(cfg, s) <=>
          \E p \in Parts(cfg) : /\ Or(p.kind, "event") = Kind(msg, "event")
                                /\ Selects(p.ids, msg.id) /\ Selects(p.names, msg.name)
    BY <1>3, <2>1 DEF SubscriptionSubjectMatches
  <2>4. cfg.scope # Unset
    BY <1>4 DEF Accepted
  <2> QED
    BY <1>3, <1>4, <2>2, <2>3, <2>4 DEF KitHandles, EventConfigMatches
<1>5. CASE /\ cat \in {"command", "query"} /\ cfg \in CommandConfig /\ Validate(cfg)
           /\ subjects = CommandFilters(cat, cfg)
  <2>1. NatsHandles <=> \E f \in CommandFilters(cat, cfg) : SubjectFilterCovers(f, s)
    BY <1>2, <1>5 DEF NatsHandles
  <2>2. (\E f \in CommandFilters(cat, cfg) : SubjectFilterCovers(f, s)) <=> CommandConfigMatches(cfg, msg)
    BY <1>1, <1>3, <1>5, CommandsAgree
  <2> QED
    BY <1>5, <2>1, <2>2 DEF KitHandles
<1> QED
  BY <1>1, <1>4, <1>5 DEF AcceptedInv

LEMMA SubscribingStep ==
  ASSUME AcceptedInv, VerdictInv, cat = Unset
  PROVE  msg = NoMessage /\ served = "" /\ triggered = ""
BY DEF AcceptedInv, VerdictInv, Unset

LEMMA HarnessStep ==
  ASSUME AcceptedInv, VerdictInv, [SubscriptionNext]_subscriptionVars
  PROVE  AcceptedInv' /\ VerdictInv'
<1>1. ASSUME cat = Unset, NEW c \in EventConfig, SubscribeEvents(c)
      PROVE  AcceptedInv' /\ VerdictInv'
  <2>1. msg' = NoMessage /\ served' = "" /\ triggered' = ""
    BY <1>1, SubscribingStep DEF SubscribeEvents
  <2>2. ASSUME subjects' # Refused
        PROVE  /\ Accepted(c) /\ subjects' \in {EventFilters(c), QueueConsumerFilters(c)}
    <3>1. Validate(c) /\ c.scope # Unset /\ Cardinality(c.types) = 1
      BY <1>1, <2>2 DEF SubscribeEvents
    <3>2. c.types # {}
      <4>1. c.types = {} => Cardinality(c.types) = 0
        BY FS_EmptySet, Zenon
      <4> QED
        BY <3>1, <4>1
    <3> QED
      BY <1>1, <2>2, <3>1, <3>2 DEF SubscribeEvents, Accepted
  <2>3. cat' = "event" /\ cfg' = c
    BY <1>1 DEF SubscribeEvents
  <2> QED
    BY <2>1, <2>2, <2>3 DEF AcceptedInv, VerdictInv
<1>2. ASSUME cat = Unset, NEW c \in CommandConfig, NEW k \in {"command", "query"}, Subscribe(k, c)
      PROVE  AcceptedInv' /\ VerdictInv'
  <2>1. msg' = NoMessage /\ served' = "" /\ triggered' = ""
    BY <1>2, SubscribingStep DEF Subscribe
  <2>2. cat' = k /\ cfg' = c /\ (subjects' # Refused => Validate(c) /\ subjects' = CommandFilters(k, c))
    BY <1>2 DEF Subscribe
  <2> QED
    BY <2>1, <2>2 DEF AcceptedInv, VerdictInv
<1>3. ASSUME UNCHANGED <<cat, cfg, subjects>>
      PROVE  AcceptedInv'
  BY <1>3 DEF AcceptedInv
<1>4. ASSUME UNCHANGED <<cat, cfg, subjects, msg>>
      PROVE  (NatsHandles' <=> NatsHandles) /\ (KitHandles' <=> KitHandles)
  BY <1>4 DEF NatsHandles, KitHandles, SubjectOf
<1>5. ASSUME NEW m \in Message, Send(m)
      PROVE  AcceptedInv' /\ VerdictInv'
  BY <1>3, <1>5 DEF Send, VerdictInv
<1>6. CASE Receive
  <2>1. served' = IF NatsHandles THEN "handled" ELSE "ignored"
    BY <1>6 DEF Receive, NatsHandles
  <2>2. msg # NoMessage /\ UNCHANGED <<cat, cfg, subjects, msg, triggered>>
    BY <1>6 DEF Receive
  <2>3. AcceptedInv' /\ (NatsHandles' <=> NatsHandles) /\ (KitHandles' <=> KitHandles)
    BY <1>3, <1>4, <2>2
  <2> QED
    BY <2>1, <2>2, <2>3 DEF VerdictInv
<1>7. CASE Trigger
  <2>1. triggered' = IF KitHandles THEN "handled" ELSE "ignored"
    BY <1>7 DEF Trigger, KitHandles
  <2>2. msg # NoMessage /\ UNCHANGED <<cat, cfg, subjects, msg, served>>
    BY <1>7 DEF Trigger
  <2>3. AcceptedInv' /\ (NatsHandles' <=> NatsHandles) /\ (KitHandles' <=> KitHandles)
    BY <1>3, <1>4, <2>2
  <2> QED
    BY <2>1, <2>2, <2>3 DEF VerdictInv
<1>8. CASE UNCHANGED subscriptionVars
  <2>1. AcceptedInv' /\ (NatsHandles' <=> NatsHandles) /\ (KitHandles' <=> KitHandles)
    BY <1>3, <1>4, <1>8 DEF subscriptionVars
  <2> QED
    BY <1>8, <2>1 DEF subscriptionVars, VerdictInv
<1> QED
  BY <1>1, <1>2, <1>5, <1>6, <1>7, <1>8 DEF SubscriptionNext

LEMMA HarnessInvariance == SubscriptionSpec => [](AcceptedInv /\ VerdictInv)
<1>1. SubscriptionInit => AcceptedInv /\ VerdictInv
  BY DEF SubscriptionInit, AcceptedInv, VerdictInv, Refused
<1>2. AcceptedInv /\ VerdictInv /\ [SubscriptionNext]_subscriptionVars => AcceptedInv' /\ VerdictInv'
  BY HarnessStep
<1> QED
  BY <1>1, <1>2, PTL DEF SubscriptionSpec

\* The test kit gives a message to a subscription that the NATS backend accepts
\* if and only if that backend does, whatever the configuration and its kinds,
\* save where commandConfigMatches takes a command for a query or a query for a
\* command (Confused).
THEOREM HarnessIsFaithful == SubscriptionSpec => []HarnessAgrees
<1>1. AcceptedInv /\ VerdictInv => HarnessAgrees
  BY HandlesAgree DEF VerdictInv, HarnessAgrees
<1> QED
  BY <1>1, HarnessInvariance, PTL

\* Without an exception, for the configurations of a Bus, which names the kind of
\* the handler's message type in every one of them, "command" and "query" too
\* (addCommandHandler, addQueryHandler, groupEventFilters).
THEOREM BusHandlersAgree ==
  SubscriptionSpec => [](served # "" /\ triggered # "" /\ AsRegistered(cat, cfg, msg)
                           => served = triggered)
<1>1. ASSUME AcceptedInv, VerdictInv, served # "", triggered # "", AsRegistered(cat, cfg, msg)
      PROVE  served = triggered
  <2>1. msg \in Message /\ msg # NoMessage /\ subjects # Refused
    BY <1>1 DEF VerdictInv
  <2>2. ASSUME Confused(cat, cfg, msg)
        PROVE  FALSE
    <3>1. cat \in {"command", "query"}
      BY <2>2 DEF Confused
    <3>2. cfg \in CommandConfig
      BY <1>1, <2>1, <3>1 DEF AcceptedInv
    <3>3. Parts(cfg) = {cfg}
      BY <3>2 DEF CommandConfig, ConfigWith, Parts
    <3>4. cfg.kind = Kind(msg, cat)
      BY <1>1, <3>3 DEF AsRegistered
    <3>5. Default["command"] = "command" /\ Default["query"] = "query"
      BY DEF Default
    <3>6. cat # Unset
      BY <3>1 DEF Unset
    <3> QED
      BY <2>2, <3>1, <3>4, <3>5, <3>6 DEF Confused, Kind, Or
  <2> QED
    BY <1>1, <2>1, <2>2, HandlesAgree DEF VerdictInv
<1>2. AcceptedInv /\ VerdictInv =>
        (served # "" /\ triggered # "" /\ AsRegistered(cat, cfg, msg) => served = triggered)
  BY <1>1
<1> QED
  BY <1>2, HarnessInvariance, PTL

=============================================================================
