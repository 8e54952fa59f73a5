------------------------------ MODULE Registry ------------------------------
(***************************************************************************)
(* The object registry (cgv/base/register.cxx).  Objects are registered by *)
(* static initialisers of the program and of plugins while registration is *)
(* disabled, or by code of the running program.  Registration events are   *)
(* buffered, sent when registration is enabled, and kept for listeners     *)
(* that come later unless event cleanup is on.                             *)
(*                                                                         *)
(* The program is single threaded, but enable_registration calls listeners *)
(* and on_register of objects that may register further objects while its  *)
(* loops are running, so it is modelled one loop iteration per step.       *)
(* load_plugin is Disable, the registrations of the plugin, and Enable.    *)
(***************************************************************************)
EXTENDS RegistrationOrder

CONSTANTS
    Objects,
    Servers, Drivers, Listeners,  \* the objects with that interface
    Delayed,       \* objects registered through a constructor if need be
    OnRegister,    \* object |-> the objects its on_register registers in turn
    FromProgram,   \* the objects registered by the program, not by on_register
    OrdersBefore,  \* partial orders for before the constructors are executed
    OrdersAfter,   \* and for after
    Uses           \* which of the rarely used operations the program uses

UseNames == {"cleanup", "permanent", "early_unregister", "raw_constructor"}

ASSUME RegistryAssumption ==
    /\ IsFiniteSet(Objects)
    /\ Servers \cup Drivers \cup Listeners \cup Delayed \cup FromProgram \subseteq Objects
    /\ Servers \cap Drivers = {}
    /\ OnRegister \in [Objects -> Seq(Objects \ FromProgram)]
    /\ OrdersBefore \cup OrdersAfter \subseteq Seq(Objects)
    /\ Uses \subseteq UseNames

VARIABLES
    registration_enabled, permanent_registration, registration_event_cleanup,
    nr_events_before_disable,
    registration_events,   \* sequence of entries
    listeners,             \* sequence of objects
    objects,               \* object_collection: sequence of entries
    phase,                 \* the loop that is running, or "idle"
    i,                     \* its index
    todo,                  \* objects that a running on_register still registers
    submitted,             \* history: objects that register_object was called for
    gone,                  \* history: objects that were unregistered
    calls,                 \* history: number of on_register calls per object
    told                   \* history: told[l][o], how often l was told of o
                           \* since it was last told that o is unregistered

flags == <<registration_enabled, permanent_registration, registration_event_cleanup>>
history == <<submitted, gone, calls, told>>
vars == <<flags, nr_events_before_disable, registration_events, listeners,
          objects, phase, i, todo, history>>

Phases == <<"servers", "drivers", "listeners", "remaining">>

\* What is registered is an object, or (built is FALSE) the constructor of one.
Entry == [obj : Objects, built : BOOLEAN]
Built(o) == [obj |-> o, built |-> TRUE]

TypeOK ==
    /\ registration_enabled \in BOOLEAN
    /\ permanent_registration \in BOOLEAN
    /\ registration_event_cleanup \in BOOLEAN
    /\ nr_events_before_disable \in Nat
    /\ registration_events \in Seq(Entry)
    /\ listeners \in Seq(Listeners)
    /\ objects \in Seq(Entry)
    /\ phase \in ToSet(Phases) \cup {"idle", "clearing"}
    /\ i \in Nat
    /\ todo \in Seq(Objects)
    /\ submitted \subseteq Objects /\ gone \subseteq submitted
    /\ calls \in [Objects -> Nat]
    /\ told \in [Listeners -> [Objects -> Nat]]

Init ==
    /\ registration_enabled = FALSE
    /\ permanent_registration = TRUE
    /\ registration_event_cleanup = FALSE
    /\ nr_events_before_disable = 0
    /\ registration_events = <<>> /\ listeners = <<>> /\ objects = <<>>
    /\ phase = "idle" /\ i = 0 /\ todo = <<>>
    /\ submitted = {} /\ gone = {}
    /\ calls = [o \in Objects |-> 0]
    /\ told = [l \in Listeners |-> [o \in Objects |-> 0]]

Ready == phase = "idle" /\ todo = <<>>
-----------------------------------------------------------------------------
(* What registering one object does                                        *)

Occurrences(s, x) == Cardinality({k \in DOMAIN s : s[k] = x})

\* td after listeners ls have each been told of e; of a constructor they learn
\* nothing about the object.
TellAll(td, ls, e) ==
    IF ~e.built THEN td
    ELSE [l \in Listeners |-> [td[l] EXCEPT ![e.obj] = @ + Occurrences(ls, l)]]

\* td after listener l has been told of all events
Replay(td, l, events) ==
    [td EXCEPT ![l] = [o \in Objects |-> @[o] + Occurrences(events, Built(o))]]

\* Mutant: every object is taken for a listener.
AddListenerAlways(ls, o) == Append(ls, o)

\* ref_listeners() after o has been registered
AddListener(ls, o) == IF o \in Listeners THEN Append(ls, o) ELSE ls

\* object_registration<T>: the object, or a constructor while disabled
EntryFor(o) == [obj |-> o, built |-> registration_enabled \/ o \notin Delayed]

\* The objects that on_register of an entry registers, a constructor's none.
NestedIn(e) == IF e.built THEN OnRegister[e.obj] ELSE <<>>

\* register_object_internal(e) with listeners ls, told td before: tells the
\* listeners, adds to the collection and leaves on_register to the caller.
RegisterInternal(e, ls, td) ==
    /\ told' = TellAll(td, ls, e)
    /\ objects' = IF permanent_registration THEN Append(objects, e) ELSE objects
    /\ calls' = IF e.built THEN [calls EXCEPT ![e.obj] = @ + 1] ELSE calls

\* register_object for an event e.  rest is what else has to be registered
\* after it; on_register of e.obj is the last thing register_object does.
RegisterObject(e, rest) ==
    LET o == e.obj
        store == ~registration_enabled \/ ~registration_event_cleanup
        events == IF store THEN Append(registration_events, e) ELSE registration_events
    IN  /\ submitted' = submitted \cup {o}
        /\ registration_events' = events
        /\ IF ~registration_enabled
           THEN /\ todo' = rest
                /\ UNCHANGED <<listeners, objects, calls, told>>
           ELSE /\ todo' = OnRegister[o] \o rest
                /\ listeners' = AddListener(listeners, o)
                /\ RegisterInternal(Built(o), listeners',
                        IF o \in Listeners THEN Replay(told, o, events) ELSE told)
        /\ UNCHANGED <<flags, nr_events_before_disable, phase, i, gone>>

Register(o) ==
    /\ Ready
    /\ o \in FromProgram \ submitted
    /\ RegisterObject(EntryFor(o), <<>>)

\* A constructor handed to register_object although registration is enabled.
RegisterConstructor(o) ==
    /\ Ready
    /\ "raw_constructor" \in Uses
    /\ registration_enabled
    /\ o \in (FromProgram \cap Delayed) \ submitted
    /\ RegisterObject([obj |-> o, built |-> FALSE], <<>>)

\* The next registration made by an on_register that is running.
RegisterNested ==
    /\ phase = "idle" /\ todo # <<>>
    /\ RegisterObject(EntryFor(Head(todo)), Tail(todo))
-----------------------------------------------------------------------------
(* enable_registration                                                     *)

Construct(events, i0) ==
    [k \in DOMAIN events |->
        IF k > i0 THEN [events[k] EXCEPT !.built = TRUE] ELSE events[k]]

\* Sort, execute the constructors of the new events, sort again.
Enable ==
    /\ Ready
    /\ ~registration_enabled
    /\ registration_events' =
            LET sorted == SortRegistrationEvents(registration_events, OrdersBefore)
            IN  SortRegistrationEvents(Construct(sorted, nr_events_before_disable),
                                       OrdersAfter)
    /\ phase' = "servers"
    /\ i' = nr_events_before_disable + 1
    /\ UNCHANGED <<flags, nr_events_before_disable, listeners, objects, todo, history>>

\* Mutant: the last loop forgets that drivers have been registered.
InPhaseDriversAgain(p, e) ==
    CASE p = "servers"   -> e.built /\ e.obj \in Servers
      [] p = "drivers"   -> e.built /\ e.obj \in Drivers
      [] p = "listeners" -> e.built /\ e.obj \in Listeners \ (Servers \cup Drivers)
      [] p = "remaining" -> e.built => e.obj \notin Servers \cup Listeners

\* Which entries a loop registers.  A constructor has none of the interfaces.
InPhase(p, e) ==
    CASE p = "servers"   -> e.built /\ e.obj \in Servers
      [] p = "drivers"   -> e.built /\ e.obj \in Drivers
      [] p = "listeners" -> e.built /\ e.obj \in Listeners \ (Servers \cup Drivers)
      [] p = "remaining" -> e.built => e.obj \notin Servers \cup Drivers \cup Listeners

\* Mutants: only the old events, or all events before the listener's own.
EventsBeforeOld(k) == SubSeq(registration_events, 1, nr_events_before_disable)
EventsBeforeAll(k) == SubSeq(registration_events, 1, k - 1)

\* The events a new listener is told of in the third loop: the old ones, and
\* those of listeners that come before it among the new ones.
EventsBefore(k) ==
    SubSeq(registration_events, 1, nr_events_before_disable) \o
    Only(SubSeq(registration_events, nr_events_before_disable + 1, k - 1),
         {Built(l) : l \in Listeners})

\* One iteration: the object is registered if the loop is for it.  What its
\* on_register registers is appended to the events, registration being disabled.
LoopStep ==
    /\ phase \in ToSet(Phases)
    /\ i <= Len(registration_events)
    /\ LET e == registration_events[i]
           td == IF phase = "listeners" /\ e.built /\ e.obj \in Listeners
                 THEN Replay(told, e.obj, EventsBefore(i)) ELSE told
           nested == NestedIn(e)
       IN  IF InPhase(phase, e)
           THEN /\ RegisterInternal(e, listeners, td)
                /\ listeners' = IF e.built THEN AddListener(listeners, e.obj) ELSE listeners
                /\ submitted' = submitted \cup ToSet(nested)
                /\ registration_events' = registration_events \o
                        [k \in DOMAIN nested |-> EntryFor(nested[k])]
           ELSE /\ told' = td
                /\ UNCHANGED <<listeners, objects, submitted, calls, registration_events>>
    /\ i' = i + 1
    /\ UNCHANGED <<flags, nr_events_before_disable, phase, todo, gone>>

\* The next loop starts.
NextLoop ==
    /\ i > Len(registration_events)
    /\ \E k \in 1..3 : phase = Phases[k] /\ phase' = Phases[k + 1]
    /\ i' = nr_events_before_disable + 1
    /\ UNCHANGED <<flags, nr_events_before_disable, registration_events,
                   listeners, objects, todo, history>>

\* All loops are done: remove the events, or remember how many there are.
EnableDone ==
    /\ phase = "remaining"
    /\ i > Len(registration_events)
    /\ registration_events' =
            IF registration_event_cleanup THEN <<>> ELSE registration_events
    /\ nr_events_before_disable' = Len(registration_events')
    /\ registration_enabled' = TRUE
    /\ phase' = "idle"
    /\ i' = 0
    /\ UNCHANGED <<permanent_registration, registration_event_cleanup,
                   listeners, objects, todo, history>>

\* Mutant: disable_registration does not count the events.
DisableForgetsCount ==
    /\ Ready
    /\ registration_enabled
    /\ registration_enabled' = FALSE
    /\ UNCHANGED <<nr_events_before_disable, permanent_registration,
                   registration_event_cleanup, registration_events, listeners,
                   objects, phase, i, todo, history>>

\* disable_registration, by load_plugin
Disable ==
    /\ Ready
    /\ registration_enabled
    /\ nr_events_before_disable' = Len(registration_events)
    /\ registration_enabled' = FALSE
    /\ UNCHANGED <<permanent_registration, registration_event_cleanup,
                   registration_events, listeners, objects, phase, i, todo, history>>
-----------------------------------------------------------------------------
(* unregister_object and unregister_all_objects                            *)

\* object_collection::remove_object: after one that it erases the loop skips two,
\* in erased are the places where it finds e.
RemoveObject(s, e) ==
    LET erased == CHOOSE E \in SUBSET {k \in DOMAIN s : s[k] = e} :
                    \A k \in DOMAIN s : k \in E <=> s[k] = e /\ {k - 1, k - 2} \cap E = {}
    IN  At(s, DOMAIN s \ erased)

\* Mutant: unregistering leaves the event.
EraseNoEvents(events, e) == events

\* The events without those of an entry
EraseEvents(events, e) == Only(events, Entry \ {e})

UnregisterObject(e) ==
    /\ objects' = RemoveObject(objects, e)
    /\ registration_events' = EraseEvents(registration_events, e)
    /\ IF e.built
       THEN /\ listeners' = Only(listeners, Listeners \ {e.obj})
            /\ told' = [l \in Listeners |->
                    IF l \in ToSet(listeners') THEN [told[l] EXCEPT ![e.obj] = 0]
                    ELSE told[l]]
            /\ gone' = gone \cup {e.obj}
       ELSE UNCHANGED <<listeners, told, gone>>
    /\ UNCHANGED <<flags, nr_events_before_disable, i, todo, submitted, calls>>

\* Nobody has a pointer to an object that is still to be constructed.
Unregister(o) ==
    /\ Ready
    /\ o \in submitted \ gone
    /\ registration_enabled \/ "early_unregister" \in Uses
    /\ registration_enabled \/ o \notin Delayed \/ calls[o] > 0
    /\ UnregisterObject(Built(o))
    /\ UNCHANGED phase

UnregisterAll ==
    /\ Ready
    /\ registration_enabled
    /\ phase' = "clearing"
    /\ UNCHANGED <<flags, nr_events_before_disable, registration_events,
                   listeners, objects, i, todo, history>>

ClearStep ==
    /\ phase = "clearing"
    /\ objects # <<>>
    /\ UnregisterObject(Last(objects))
    /\ UNCHANGED phase

ClearDone ==
    /\ phase = "clearing"
    /\ objects = <<>>
    /\ phase' = "idle"
    /\ UNCHANGED <<flags, nr_events_before_disable, registration_events,
                   listeners, objects, i, todo, history>>
-----------------------------------------------------------------------------
(* The switches                                                            *)

EnablePermanent ==
    /\ Ready /\ "permanent" \in Uses
    /\ permanent_registration' = TRUE
    /\ UNCHANGED <<registration_enabled, registration_event_cleanup,
                   nr_events_before_disable, registration_events, listeners,
                   objects, phase, i, todo, history>>

DisablePermanent ==
    /\ Ready /\ "permanent" \in Uses
    /\ permanent_registration' = FALSE
    /\ UNCHANGED <<registration_enabled, registration_event_cleanup,
                   nr_events_before_disable, registration_events, listeners,
                   objects, phase, i, todo, history>>

\* enable_registration_event_cleanup: drop the events already sent.
EnableCleanup ==
    /\ Ready /\ "cleanup" \in Uses
    /\ ~registration_event_cleanup
    /\ registration_event_cleanup' = TRUE
    /\ registration_events' =
            IF registration_enabled THEN <<>>
            ELSE SubSeq(registration_events, nr_events_before_disable + 1,
                        Len(registration_events))
    /\ nr_events_before_disable' = 0
    /\ UNCHANGED <<registration_enabled, permanent_registration, listeners,
                   objects, phase, i, todo, history>>

DisableCleanup ==
    /\ Ready /\ "cleanup" \in Uses
    /\ registration_event_cleanup' = FALSE
    /\ UNCHANGED <<registration_enabled, permanent_registration,
                   nr_events_before_disable, registration_events, listeners,
                   objects, phase, i, todo, history>>
-----------------------------------------------------------------------------
EnableStep == LoopStep \/ NextLoop \/ EnableDone
ClearAllStep == ClearStep \/ ClearDone

Next ==
    \/ \E o \in Objects : Register(o) \/ RegisterConstructor(o) \/ Unregister(o)
    \/ RegisterNested
    \/ Enable \/ EnableStep \/ Disable
    \/ UnregisterAll \/ ClearAllStep
    \/ EnablePermanent \/ DisablePermanent
    \/ EnableCleanup \/ DisableCleanup

Spec == Init /\ [][Next]_vars

\* Sorting keeps the events of earlier enablings at the front: the index of the first
\* new event means the same before and after it.
OldEventsStay ==
    LET n == nr_events_before_disable
        sorted == SortRegistrationEvents(registration_events, OrdersBefore)
        Stay(events, orders) ==
            LET s == SortRegistrationEvents(events, orders)
            IN  {s[k] : k \in 1..n} = {events[k] : k \in 1..n}
    IN  Stay(registration_events, OrdersBefore) /\ Stay(Construct(sorted, n), OrdersAfter)

\* The programs whose orders, if there are any, put no new object before an old one.
Orderly == Enable => OldEventsStay
OrderedSpec == Init /\ [][Next /\ Orderly]_vars

-----------------------------------------------------------------------------
(* Correctness                                                             *)

Present == submitted \ gone

\* Whenever registration is enabled and no call is under way, every object that
\* was submitted and not unregistered has been registered exactly once: no
\* event gets lost between disable and enable, none is sent twice.
AllSent == Ready /\ registration_enabled => \A o \in Present : calls[o] = 1

\* on_register is never called for an object that was unregistered, and never a
\* second time.
RegisteredOnce ==
    [][\A o \in Objects : calls'[o] # calls[o] => calls[o] = 0 /\ o \notin gone]_vars

\* As long as events are kept, every listener knows every present object,
\* whichever of them came first and in whichever way they were registered.
ListenersKnow ==
    Ready /\ registration_enabled /\ "cleanup" \notin Uses =>
        \A l \in ToSet(listeners) : \A o \in Present \ {l} : told[l][o] > 0

\* No listener is told of another object twice.
ToldOnce == \A l \in ToSet(listeners) : \A o \in Objects \ {l} : told[l][o] <= 1

\* Nobody holds on to an object that was unregistered: no listener believes in
\* it, and the collection that objects are looked up in has it no longer.
NoneDangling ==
    /\ \A l \in ToSet(listeners), o \in gone : told[l][o] = 0
    /\ ToSet(objects) \cap {Built(o) : o \in gone} = {}
=============================================================================
