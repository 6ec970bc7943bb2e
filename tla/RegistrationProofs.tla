-------------------------- MODULE RegistrationProofs --------------------------
(***************************************************************************)
(* For any registrations by any number of goroutines: what the registry    *)
(* holds is unambiguous, and the handlers that a connected bus serves are  *)
(* given values of the type they take, provided their type parameters are  *)
(* pointers.                                                               *)
(***************************************************************************)
EXTENDS Registration, TLAPS

\* The key under which c must be found when a message for it arrives.
Own(c) == Entry(Category(c), KindOf(c, DefaultKind(c)), Type[c])

\* A key of the registry belongs to one type.
Unambiguous ==
  \A category, kind, name : \A t, u \in DOMAIN Name :
    <<category, kind, name, t>> \in registry /\ <<category, kind, name, u>> \in registry => t = u

\* A call that got past the registry has its type there, and stays there.
Registered == \A c \in Calls : pc[c] \in {"add", "returned"} => Own(c) \in registry

\* The bus has the handlers of the calls that returned; once it runs it accepts
\* no other, and all of them are started.
Accounted ==
  /\ added = {c \in Calls : pc[c] = "returned"}
  /\ bus = "new" => started = {}
  /\ bus = "running" => started = added

\* Only HandleQuery stops between the check and the registry.
Checked == \A c \in Calls : pc[c] = "register" => Api[c] = "query"

Inv == TypeOK /\ Unambiguous /\ Registered /\ Checked /\ Accounted

\* What a registration changes is the registry, by entries of one type under
\* keys that no other type has.
Extends(category, K, v) ==
  registry' = registry \cup {Entry(category, k, v) : k \in K}

LEMMA CallTypes ==
  ASSUME NEW c \in Calls
  PROVE  /\ Category(c) \in {"events", "commands"}
         /\ Type[c] \in DOMAIN Name
         /\ Api[c] \in {"event", "queue", "command", "query"}
BY RegistrationAssumption DEF Category

\* The registry stays unambiguous when a type is added under keys at which it
\* has no conflict.
LEMMA AddEntries ==
  ASSUME NEW category, NEW K, NEW v \in DOMAIN Name,
         Unambiguous, \A k \in K : ~Conflict(category, k, v),
         Extends(category, K, v)
  PROVE  Unambiguous'
<1> SUFFICES ASSUME NEW cat, NEW k, NEW n, NEW t \in DOMAIN Name, NEW u \in DOMAIN Name,
                    <<cat, k, n, t>> \in registry', <<cat, k, n, u>> \in registry'
             PROVE  t = u
  BY DEF Unambiguous
<1>1. \A w \in DOMAIN Name :
        <<cat, k, n, w>> \in registry
          \/ (w = v /\ cat = category /\ k \in K /\ n = Name[v])
          \/ <<cat, k, n, w>> \notin registry'
  BY DEF Extends, Entry
<1>2. \A j \in K : \A w \in DOMAIN Name :
        w # v => <<category, j, Name[v], w>> \notin registry
  BY DEF Conflict
<1>3. CASE <<cat, k, n, t>> \in registry /\ <<cat, k, n, u>> \in registry
  BY <1>3 DEF Unambiguous
<1>4. CASE t = v /\ cat = category /\ k \in K /\ n = Name[v]
  BY <1>1, <1>2, <1>4
<1>5. CASE u = v /\ cat = category /\ k \in K /\ n = Name[v]
  BY <1>1, <1>2, <1>5
<1> QED
  BY <1>1, <1>3, <1>4, <1>5

\* Entries have their shape.
LEMMA AddWellFormed ==
  ASSUME NEW category \in {"events", "commands"}, NEW K, NEW v \in DOMAIN Name,
         \A r \in registry : r[1] \in {"events", "commands"} /\ r[3] = Name[r[4]],
         Extends(category, K, v)
  PROVE  \A r \in registry' : r[1] \in {"events", "commands"} /\ r[3] = Name[r[4]]
BY DEF Extends, Entry

\* RegisterType in the form of Extends.
LEMMA RegisterTypeExtends ==
  ASSUME NEW c \in Calls, TypeOK, RegisterType(c)
  PROVE  \E K : /\ Extends(Category(c), K, Type[c])
                /\ \A k \in K : ~Conflict(Category(c), k, Type[c])
                /\ pc'[c] = "add" => KindOf(c, DefaultKind(c)) \in K
<1> DEFINE kinds == KindsFor(c)
           clash == {i \in DOMAIN kinds : Conflict(Category(c), kinds[i], Type[c])}
           done == {i \in DOMAIN kinds : \A j \in clash : i < j}
           K == IF Invalid(c) THEN {} ELSE {kinds[i] : i \in done}
<1>1. DOMAIN kinds \subseteq Nat /\ 1 \in DOMAIN kinds
  <2>1. CASE kinds = <<"command", "query">>
    <3>1. DOMAIN kinds = 1..2
      BY <2>1
    <3> QED
      BY <3>1
  <2>2. CASE kinds = <<KindOf(c, DefaultKind(c))>>
    <3>1. DOMAIN kinds = 1..1
      BY <2>2
    <3> QED
      BY <3>1
  <2> QED
    BY <2>1, <2>2 DEF KindsFor
<1>2. kinds[1] = KindOf(c, DefaultKind(c))
  BY CallTypes DEF KindsFor, KindOf, DefaultKind, Category
<1>3. \A i \in done : i \notin clash
  BY <1>1
<1>4. \A k \in K : ~Conflict(Category(c), k, Type[c])
  BY <1>3
<1>5. Extends(Category(c), K, Type[c])
  <2>1. CASE Invalid(c)
    BY <2>1 DEF RegisterType, Extends
  <2>2. CASE ~Invalid(c)
    <3>1. registry' = registry \cup {Entry(Category(c), kinds[i], Type[c]) : i \in done}
      BY <2>2 DEF RegisterType
    <3>2. {Entry(Category(c), kinds[i], Type[c]) : i \in done}
            = {Entry(Category(c), k, Type[c]) : k \in K}
      BY <2>2
    <3> QED
      BY <3>1, <3>2 DEF Extends
  <2> QED
    BY <2>1, <2>2
<1>6. ASSUME pc'[c] = "add" PROVE KindOf(c, DefaultKind(c)) \in K
  <2>1. ~Invalid(c) /\ clash = {}
    <3>1. pc'[c] = IF Invalid(c) \/ clash # {} THEN "panicked" ELSE "add"
      BY DEF RegisterType, GoTo, TypeOK
    <3> QED
      BY <1>6, <3>1
  <2>2. 1 \in done
    BY <1>1, <2>1
  <2> QED
    BY <1>2, <2>1, <2>2
<1> QED
  BY <1>4, <1>5, <1>6

\* A step of the registry: everything but accounting.
LEMMA Grow ==
  ASSUME NEW c \in Calls, NEW K, Inv,
         Extends(Category(c), K, Type[c]),
         \A k \in K : ~Conflict(Category(c), k, Type[c]),
         pc[c] \in {"start", "register"},
         pc' = [pc EXCEPT ![c] = "add"] \/ pc' = [pc EXCEPT ![c] = "panicked"],
         pc'[c] = "add" => KindOf(c, DefaultKind(c)) \in K,
         UNCHANGED <<hasQueue, bus, added, started>>
  PROVE  Inv'
<1> USE CallTypes
<1>1. TypeOK'
  <2>1. \A r \in registry' : r[1] \in {"events", "commands"} /\ r[3] = Name[r[4]]
    BY AddWellFormed DEF Inv, TypeOK
  <2>2. pc' \in [Calls -> {"start", "register", "add", "returned", "panicked"}]
    BY DEF Inv, TypeOK
  <2> QED
    BY <2>1, <2>2 DEF Inv, TypeOK
<1>2. Unambiguous'
  BY AddEntries DEF Inv
<1>3. Registered'
  <2> SUFFICES ASSUME NEW d \in Calls, pc'[d] \in {"add", "returned"}
               PROVE  Own(d) \in registry'
    BY DEF Registered, Own, Entry
  <2>1. CASE d # c
    BY <2>1 DEF Inv, TypeOK, Registered, Extends
  <2>2. CASE d = c
    <3>1. pc'[c] = "add"
      BY <2>2 DEF Inv, TypeOK
    <3> QED
      BY <2>2, <3>1 DEF Own, Extends
  <2> QED
    BY <2>1, <2>2
<1>4. Accounted'
  BY DEF Inv, TypeOK, Accounted
<1>5. Checked'
  BY DEF Inv, TypeOK, Checked
<1> QED
  BY <1>1, <1>2, <1>3, <1>4, <1>5 DEF Inv

\* A step of one call that leaves the registry alone and does not pass it.
LEMMA Move ==
  ASSUME NEW c \in Calls, NEW where \in {"register", "panicked"}, Inv,
         pc' = [pc EXCEPT ![c] = where], pc[c] # "returned",
         where = "register" => Api[c] = "query",
         UNCHANGED <<hasQueue, bus, registry, added, started>>
  PROVE  Inv'
<1>1. TypeOK'
  BY DEF Inv, TypeOK
<1>2. Unambiguous'
  BY DEF Inv, Unambiguous
<1>3. Registered'
  BY DEF Inv, TypeOK, Registered, Own, Entry
<1>4. Accounted'
  BY DEF Inv, TypeOK, Accounted
<1>5. Checked'
  BY DEF Inv, TypeOK, Checked
<1> QED
  BY <1>1, <1>2, <1>3, <1>4, <1>5 DEF Inv

LEMMA AddStep ==
  ASSUME NEW c \in Calls, Inv, Add(c)
  PROVE  Inv'
<1>1. TypeOK'
  BY DEF Inv, TypeOK, Add, GoTo
<1>2. Unambiguous'
  BY DEF Inv, Unambiguous, Add
<1>3. Registered'
  BY DEF Inv, TypeOK, Registered, Own, Entry, Add, GoTo
<1>4. Accounted'
  BY DEF Inv, TypeOK, Accounted, Add, GoTo
<1>5. Checked'
  BY DEF Inv, TypeOK, Checked, Add, GoTo
<1> QED
  BY <1>1, <1>2, <1>3, <1>4, <1>5 DEF Inv

LEMMA BusStep ==
  ASSUME Inv, Connect \/ Disconnect
  PROVE  Inv'
<1>1. TypeOK'
  BY DEF Inv, TypeOK, Connect, Disconnect
<1>2. Unambiguous'
  BY DEF Inv, Unambiguous, Connect, Disconnect
<1>3. Registered'
  BY DEF Inv, Registered, Own, Entry, Connect, Disconnect
<1>4. Accounted'
  BY DEF Inv, TypeOK, Accounted, Connect, Disconnect
<1>5. Checked'
  BY DEF Inv, Checked, Connect, Disconnect
<1> QED
  BY <1>1, <1>2, <1>3, <1>4, <1>5 DEF Inv

LEMMA InitInv == Init => Inv
BY DEF Init, Inv, TypeOK, Unambiguous, Registered, Checked, Accounted

LEMMA NextInv == Inv /\ [Next]_vars => Inv'
<1> SUFFICES ASSUME Inv, [Next]_vars PROVE Inv'
  OBVIOUS
<1>1. ASSUME NEW c \in Calls, Refuse(c) PROVE Inv'
  BY <1>1, Move DEF Refuse, GoTo
<1>2. ASSUME NEW c \in Calls, RegisterType(c) PROVE Inv'
  <2>1. PICK K : /\ Extends(Category(c), K, Type[c])
                 /\ \A k \in K : ~Conflict(Category(c), k, Type[c])
                 /\ pc'[c] = "add" => KindOf(c, DefaultKind(c)) \in K
    BY <1>2, RegisterTypeExtends DEF Inv
  <2>2. /\ pc[c] = "start"
        /\ pc' = [pc EXCEPT ![c] = "add"] \/ pc' = [pc EXCEPT ![c] = "panicked"]
        /\ UNCHANGED <<hasQueue, bus, added, started>>
    BY <1>2 DEF RegisterType, GoTo
  <2> QED
    BY <2>1, <2>2, Grow
<1>3. ASSUME NEW c \in Calls, CheckQuery(c) PROVE Inv'
  BY <1>3, Move DEF CheckQuery, GoTo
<1>4. ASSUME NEW c \in Calls, RegisterQuery(c) PROVE Inv'
  <2>1. CASE Invalid(c) \/ Conflict("commands", KindOf(c, "query"), Type[c])
    BY <1>4, <2>1, Move DEF RegisterQuery, GoTo
  <2>2. CASE ~(Invalid(c) \/ Conflict("commands", KindOf(c, "query"), Type[c]))
    <3>1. Api[c] = "query"
      BY <1>4 DEF RegisterQuery, Inv, Checked
    <3>2. Category(c) = "commands" /\ DefaultKind(c) = "query"
      BY <3>1 DEF Category, DefaultKind
    <3>3. PICK K : K = {KindOf(c, "query")}
      OBVIOUS
    <3>4. Extends(Category(c), K, Type[c])
      BY <1>4, <2>2, <3>2, <3>3 DEF RegisterQuery, Extends
    <3>5. /\ pc[c] = "register" /\ pc' = [pc EXCEPT ![c] = "add"]
          /\ UNCHANGED <<hasQueue, bus, added, started>>
      BY <1>4, <2>2 DEF RegisterQuery, GoTo
    <3>6. \A k \in K : ~Conflict(Category(c), k, Type[c])
      BY <2>2, <3>2, <3>3
    <3>7. KindOf(c, DefaultKind(c)) \in K
      BY <3>2, <3>3
    <3> QED
      BY <3>4, <3>5, <3>6, <3>7, Grow
  <2> QED
    BY <2>1, <2>2
<1>5. ASSUME NEW c \in Calls, NoQueue(c) PROVE Inv'
  BY <1>5, Move DEF NoQueue, GoTo
<1>6. ASSUME NEW c \in Calls, AddEventHandler(c) \/ AddReplyHandler(c) PROVE Inv'
  BY <1>6, AddStep DEF AddEventHandler, AddReplyHandler
<1>7. ASSUME Connect \/ Disconnect PROVE Inv'
  BY <1>7, BusStep
<1>8. CASE UNCHANGED vars
  BY <1>8 DEF vars, Inv, TypeOK, Unambiguous, Registered, Accounted, Checked, Own, Entry
<1> QED
  BY <1>1, <1>2, <1>3, <1>4, <1>5, <1>6, <1>7, <1>8 DEF Next

\* The inductive invariant holds.
THEOREM Invariance == Spec => []Inv
<1>1. Init => Inv
  BY InitInv
<1>2. Inv /\ [Next]_vars => Inv'
  BY NextInv
<1> QED
  BY <1>1, <1>2, PTL DEF Spec

\* Registry, handlers and the progress of every call of Handle* are well formed,
\* for any calls and types.
THEOREM TypeCorrect == Spec => []TypeOK
<1>1. Inv => TypeOK
  BY DEF Inv
<1> QED
  BY <1>1, Invariance, PTL

\* A running bus serves exactly the handlers whose Handle* returned, however
\* registrations race Connect and Disconnect.
THEOREM NoHandlerIsLost == Spec => []ReturnedIsStarted
<1>1. Inv => ReturnedIsStarted
  BY DEF Inv, Accounted, ReturnedIsStarted
<1> QED
  BY <1>1, Invariance, PTL

\* With pointers as type parameters a started handler is given values of the
\* type it asserts: nothing else can be registered under its key, before or
\* after, and the wildcard prototype does not come into play.
THEOREM StartedHandlersDecode ==
  ASSUME Pointer = Calls
  PROVE  Spec => []HandlersDecode
<1>1. ASSUME Inv PROVE HandlersDecode
  <2> SUFFICES ASSUME NEW c \in started
               PROVE {Factory(t) : t \in DecodedAs(Category(c), KindOf(c, DefaultKind(c)),
                                                   Name[Type[c]])} = {Asserted(c)}
    BY DEF HandlersDecode
  <2> DEFINE category == Category(c)
             kind == KindOf(c, DefaultKind(c))
             name == Name[Type[c]]
             exact == {t \in DOMAIN Name : <<category, kind, name, t>> \in registry}
  <2>1. c \in Calls /\ pc[c] = "returned"
    BY <1>1 DEF Inv, TypeOK, Accounted
  <2>2. <<category, kind, name, Type[c]>> \in registry
    BY <1>1, <2>1 DEF Inv, Registered, Own, Entry
  <2>3. Type[c] \in DOMAIN Name
    BY <2>1, CallTypes
  <2>4. exact = {Type[c]}
    BY <1>1, <2>2, <2>3 DEF Inv, Unambiguous
  <2>5. DecodedAs(category, kind, name) = exact
    BY <2>4 DEF DecodedAs
  <2>6. Factory(Type[c]) = Asserted(c)
    BY <2>1 DEF Factory, Asserted
  <2>7. {Factory(t) : t \in {Type[c]}} = {Asserted(c)}
    BY <2>6
  <2> QED
    BY <2>4, <2>5, <2>7
<1> QED
  BY <1>1, Invariance, PTL
=============================================================================
