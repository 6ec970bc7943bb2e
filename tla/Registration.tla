---------------------------- MODULE Registration ----------------------------
(***************************************************************************)
(* Handler registration (HandleEvent, HandleQueueEvent, HandleCommand and  *)
(* HandleQuery in bus.go) and the type registry (registry.go) that the     *)
(* transport decodes with, as goroutines register while another connects   *)
(* or disconnects the bus.  b.mu is taken once to register the type and    *)
(* again to add the handler.                                               *)
(***************************************************************************)
EXTENDS Naturals, FiniteSets

CONSTANTS
  Calls,    \* calls of Handle*, each by a goroutine of its own
  Api,      \* Api[c]: "event", "queue", "command" or "query"
  Type,     \* Type[c]: the Go type, less a pointer
  Pointer,  \* calls whose type parameter is the pointer
  Name,     \* Name[t]: the name of its prototype, "" for a wildcard event
  Override  \* Override[t]: what MessageKind returns, "" without the method

ASSUME RegistrationAssumption ==
  /\ Api \in [Calls -> {"event", "queue", "command", "query"}]
  /\ Pointer \subseteq Calls
  /\ DOMAIN Type = Calls
  /\ \A c \in Calls : Type[c] \in DOMAIN Name \cap DOMAIN Override

VARIABLES
  hasQueue, \* whether BusOptions.Queue is set
  bus,      \* "new", "running" or "closed"
  registry, \* <<category, kind, name, type>>
  pc,       \* pc[c]
  added,    \* the handlers of the bus
  started   \* the handlers for which Connect starts subscriptions

vars == <<hasQueue, bus, registry, pc, added, started>>

Category(c) == IF Api[c] \in {"event", "queue"} THEN "events" ELSE "commands"
DefaultKind(c) == IF Category(c) = "events" THEN "event" ELSE Api[c]

\* messageKind(prototype, fallback)
KindOf(c, fallback) == IF Override[Type[c]] # "" THEN Override[Type[c]] ELSE fallback

Init ==
  /\ hasQueue \in BOOLEAN
  /\ bus = "new" /\ registry = {} /\ added = {} /\ started = {}
  /\ pc = [c \in Calls |-> "start"]

-----------------------------------------------------------------------------
(* The registry *)

\* Mutant: a second type replaces the first.
Conflict_Never(category, kind, t) == FALSE

\* registerType: the key is taken by another type.
Conflict(category, kind, t) ==
  \E u \in DOMAIN Name : u # t /\ <<category, kind, Name[t], u>> \in registry

\* Mutant: the fields of the key in the wrong order.
Entry_Swapped(category, kind, t) == <<kind, category, Name[t], t>>

Entry(category, kind, t) == <<category, kind, Name[t], t>>

\* Names of commands may not be empty: validateTypeKey.
Invalid(c) == Category(c) = "commands" /\ Name[Type[c]] = ""

\* The kinds that RegisterMessageType registers one after the other: a command
\* without a kind of its own may be a query as well.
KindsFor(c) ==
  IF Api[c] = "command" /\ Override[Type[c]] = "" THEN <<"command", "query">>
  ELSE <<KindOf(c, DefaultKind(c))>>

\* The types that an incoming message of a kind and name is decoded into:
\* NewEvent falls back on the wildcard prototype, NewCommand does not.
DecodedAs(category, kind, name) ==
  LET exact == {t \in DOMAIN Name : <<category, kind, name, t>> \in registry}
      wild == {t \in DOMAIN Name : <<category, kind, "", t>> \in registry}
  IN IF exact # {} \/ category = "commands" THEN exact ELSE wild

\* factoryFor makes a pointer, of a value type too: the pointer has its methods.
Factory(t) == [type |-> t, pointer |-> TRUE]

-----------------------------------------------------------------------------
(* Handle* *)

\* The type that the wrapper of Handle* asserts of what it is given.
Asserted(c) == [type |-> Type[c], pointer |-> c \in Pointer]

GoTo(c, where) == pc' = [pc EXCEPT ![c] = where]

\* mustAllowRegistrationLocked panics.
Refuse(c) ==
  /\ pc[c] \in {"start", "add"} /\ bus # "new"
  /\ GoTo(c, "panicked")
  /\ UNCHANGED <<hasQueue, bus, registry, added, started>>

\* Bus.RegisterMessageType, under b.mu: what was registered before a conflict
\* stays registered.
RegisterType(c) ==
  LET kinds == KindsFor(c)
      category == Category(c)
      clash == {i \in DOMAIN kinds : Conflict(category, kinds[i], Type[c])}
      done == {i \in DOMAIN kinds : \A j \in clash : i < j}
  IN /\ pc[c] = "start" /\ bus = "new" /\ Api[c] # "query"
     /\ IF Invalid(c) THEN UNCHANGED registry
        ELSE registry' = registry \cup {Entry(category, kinds[i], Type[c]) : i \in done}
     /\ GoTo(c, IF Invalid(c) \/ clash # {} THEN "panicked" ELSE "add")
     /\ UNCHANGED <<hasQueue, bus, added, started>>

\* HandleQuery looks at the bus under b.mu and registers after it has let go.
CheckQuery(c) ==
  /\ pc[c] = "start" /\ bus = "new" /\ Api[c] = "query"
  /\ GoTo(c, "register")
  /\ UNCHANGED <<hasQueue, bus, registry, added, started>>

RegisterQuery(c) ==
  LET kind == KindOf(c, "query")
      fails == Invalid(c) \/ Conflict("commands", kind, Type[c])
  IN /\ pc[c] = "register"
     /\ registry' = IF fails THEN registry
                    ELSE registry \cup {Entry("commands", kind, Type[c])}
     /\ GoTo(c, IF fails THEN "panicked" ELSE "add")
     /\ UNCHANGED <<hasQueue, bus, added, started>>

\* Mutant: the handler is added without a second look at the bus.
Add_Unchecked(c) ==
  /\ pc[c] = "add"
  /\ added' = added \cup {c} /\ GoTo(c, "returned")
  /\ UNCHANGED <<hasQueue, bus, registry, started>>

Add(c) ==
  /\ pc[c] = "add" /\ bus = "new"
  /\ added' = added \cup {c} /\ GoTo(c, "returned")
  /\ UNCHANGED <<hasQueue, bus, registry, started>>

\* addOrderedHandler, addQueueHandler.
AddEventHandler(c) ==
  Category(c) = "events" /\ (Api[c] = "queue" => hasQueue) /\ Add(c)

\* addCommandHandler, addQueryHandler.
AddReplyHandler(c) == Category(c) = "commands" /\ Add(c)

\* addQueueHandler panics before it locks.
NoQueue(c) ==
  /\ pc[c] = "add" /\ Api[c] = "queue" /\ ~hasQueue
  /\ GoTo(c, "panicked")
  /\ UNCHANGED <<hasQueue, bus, registry, added, started>>

-----------------------------------------------------------------------------
(* Connect and Disconnect: Bus models the rest of them *)

Connect ==
  /\ bus = "new"
  /\ bus' = "running" /\ started' = added
  /\ UNCHANGED <<hasQueue, registry, pc, added>>

Disconnect ==
  /\ bus # "closed"
  /\ bus' = "closed"
  /\ UNCHANGED <<hasQueue, registry, pc, added, started>>

Next ==
  \/ \E c \in Calls : \/ Refuse(c) \/ RegisterType(c) \/ CheckQuery(c)
                      \/ RegisterQuery(c) \/ NoQueue(c)
                      \/ AddEventHandler(c) \/ AddReplyHandler(c)
  \/ Connect \/ Disconnect

Spec == Init /\ [][Next]_vars

-----------------------------------------------------------------------------
TypeOK ==
  /\ bus \in {"new", "running", "closed"} /\ hasQueue \in BOOLEAN
  /\ \A r \in registry : r[1] \in {"events", "commands"} /\ r[3] = Name[r[4]]
  /\ pc \in [Calls -> {"start", "register", "add", "returned", "panicked"}]
  /\ added \subseteq Calls /\ started \subseteq added

\* README.md, "Quick Tutorial": a typed helper "tells the bus both which
\* subject to subscribe to and which Go type to decode".  A message of the
\* subject of a started handler is decoded into the type the handler takes,
\* whatever other registrations succeeded, panicked half way or came later.
HandlersDecode ==
  \A c \in started :
    {Factory(t) : t \in DecodedAs(Category(c), KindOf(c, DefaultKind(c)), Name[Type[c]])}
      = {Asserted(c)}

\* The comments of Handle*: a call "panics if the bus is already connected".
\* One that returned instead is served: a racing Connect has its handler.
ReturnedIsStarted ==
  bus = "running" => started = {c \in Calls : pc[c] = "returned"}
=============================================================================
