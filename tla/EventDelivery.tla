--------------------------- MODULE EventDelivery ----------------------------
(***************************************************************************)
(* The delivery of events from the core to its listeners, as the threads   *)
(* run it: core/ACEventManager.{h,cpp} and core/ACEventListener.{h,cpp}.   *)
(*                                                                         *)
(* Raising a signal takes a copy of the list of slots (boost::signals2) and *)
(* calls them one after the other on the raising thread; a slot posts the  *)
(* event on the listener's io_service, whose queue the listener's own      *)
(* thread runs.  Several threads raise events at the same time: the import *)
(* threads and the GUI thread, which is also the one that adds listeners,  *)
(* cleans the manager and destroys the listeners.                          *)
(* One signal is modelled; clean leaves the connections of                 *)
(* sig_mediasImported out, so that NoCallAfterClean is not said of it.     *)
(***************************************************************************)
EXTENDS Naturals, Sequences, FiniteSets

CONSTANTS
  Gui,        \* the GUI thread
  Importers,  \* the import threads
  Listeners,
  MaxEvents   \* bound: events each thread raises

ASSUME GuiAssumption == Gui \notin Importers
ASSUME MaxEventsAssumption == MaxEvents \in Nat

Emitters == {Gui} \cup Importers

VARIABLES
  slots,      \* the listeners in the order of their slots
  connected,  \* those whose slot is not disconnected
  raised,     \* raised[e]: number of the last event e raised
  todo,       \* todo[e]: slots the event being raised by e has yet to reach
  calling,    \* calling[e]: the slot at the head of todo[e] is being called
  queue,      \* queue[l]: events posted on l's io_service
  alive,      \* listeners whose destructor has not stopped their service
  cleaned,    \* ACEventManager::clean has begun
  next        \* next[l][e]: one more than the last event of e that l handled

vars == <<slots, connected, raised, todo, calling, queue, alive, cleaned, next>>

Init ==
  /\ slots = <<>>
  /\ connected = {}
  /\ raised = [e \in Emitters |-> 0]
  /\ todo = [e \in Emitters |-> <<>>]
  /\ calling = [e \in Emitters |-> FALSE]
  /\ queue = [l \in Listeners |-> <<>>]
  /\ alive = Listeners
  /\ cleaned = FALSE
  /\ next = [l \in Listeners |-> [e \in Emitters |-> 0]]

GuiIdle == todo[Gui] = <<>> /\ ~cleaned

\* addListener: each application component registers once.
AddListener(l) ==
  /\ GuiIdle
  /\ \A i \in DOMAIN slots : slots[i] # l
  /\ slots' = Append(slots, l)
  /\ connected' = connected \cup {l}
  /\ UNCHANGED <<raised, todo, calling, queue, alive, cleaned, next>>

\* eventManager->sig_...(...): the call begins with a copy of the slots.
Raise(e) ==
  /\ e = Gui => GuiIdle
  /\ todo[e] = <<>>
  /\ raised[e] < MaxEvents
  /\ raised' = [raised EXCEPT ![e] = @ + 1]
  /\ todo' = [todo EXCEPT ![e] = slots]
  /\ UNCHANGED <<slots, connected, calling, queue, alive, cleaned, next>>

\* The emission looks whether the next slot is still connected.
CallSlot(e) ==
  /\ todo[e] # <<>> /\ ~calling[e]
  /\ IF Head(todo[e]) \in connected
       THEN /\ calling' = [calling EXCEPT ![e] = TRUE]
            /\ UNCHANGED todo
       ELSE /\ todo' = [todo EXCEPT ![e] = Tail(@)]
            /\ UNCHANGED calling
  /\ UNCHANGED <<slots, connected, raised, queue, alive, cleaned, next>>

\* Mutants of Post: the call does not return; the newest event goes first.
PostForEver(e) ==
  LET l == Head(todo[e])
  IN /\ calling[e]
     /\ queue' = [queue EXCEPT ![l] = Append(@, [from |-> e, no |-> raised[e]])]
     /\ todo' = [todo EXCEPT ![e] = Tail(@)]
     /\ UNCHANGED <<slots, connected, raised, calling, alive, cleaned, next>>

PostInFront(e) ==
  LET l == Head(todo[e])
  IN /\ calling[e]
     /\ queue' = [queue EXCEPT ![l] = <<[from |-> e, no |-> raised[e]]>> \o @]
     /\ todo' = [todo EXCEPT ![e] = Tail(@)]
     /\ calling' = [calling EXCEPT ![e] = FALSE]
     /\ UNCHANGED <<slots, connected, raised, alive, cleaned, next>>

\* s_mediaImported and the like: service.post.
Post(e) ==
  LET l == Head(todo[e])
  IN /\ calling[e]
     /\ queue' = [queue EXCEPT ![l] = Append(@, [from |-> e, no |-> raised[e]])]
     /\ todo' = [todo EXCEPT ![e] = Tail(@)]
     /\ calling' = [calling EXCEPT ![e] = FALSE]
     /\ UNCHANGED <<slots, connected, raised, alive, cleaned, next>>

\* Mutants of Handle: the rest of the queue is dropped; the service stops with
\* the connection.
HandleFirstOnly(l) ==
  LET ev == Head(queue[l])
  IN /\ l \in alive
     /\ queue[l] # <<>>
     /\ queue' = [queue EXCEPT ![l] = <<>>]
     /\ next' = [next EXCEPT ![l][ev.from] = ev.no + 1]
     /\ UNCHANGED <<slots, connected, raised, todo, calling, alive, cleaned>>

HandleWhileConnected(l) ==
  LET ev == Head(queue[l])
  IN /\ l \in alive \cap connected
     /\ queue[l] # <<>>
     /\ queue' = [queue EXCEPT ![l] = Tail(@)]
     /\ next' = [next EXCEPT ![l][ev.from] = ev.no + 1]
     /\ UNCHANGED <<slots, connected, raised, todo, calling, alive, cleaned>>

\* service.run on the listener's thread.
Handle(l) ==
  LET ev == Head(queue[l])
  IN /\ l \in alive
     /\ queue[l] # <<>>
     /\ queue' = [queue EXCEPT ![l] = Tail(@)]
     /\ next' = [next EXCEPT ![l][ev.from] = ev.no + 1]
     /\ UNCHANGED <<slots, connected, raised, todo, calling, alive, cleaned>>

\* ACEventManager::clean, from the destructor of MediaCycle on the GUI thread:
\* the connections are closed one by one.
CleanBegin ==
  /\ GuiIdle
  /\ cleaned' = TRUE
  /\ UNCHANGED <<slots, connected, raised, todo, calling, queue, alive, next>>

\* Mutant of Disconnect: the slot is taken off the list and stays connected.
ForgetSlot ==
  /\ cleaned /\ slots # <<>>
  /\ slots' = Tail(slots)
  /\ UNCHANGED <<connected, raised, todo, calling, queue, alive, cleaned, next>>

Disconnect ==
  /\ cleaned /\ slots # <<>>
  /\ connected' = connected \ {Head(slots)}
  /\ slots' = Tail(slots)
  /\ UNCHANGED <<raised, todo, calling, queue, alive, cleaned, next>>

\* ~ACEventListener, after the MediaCycle is gone: service.stop drops what is
\* still queued.
Destroy(l) ==
  /\ cleaned /\ slots = <<>>
  /\ l \in alive
  /\ alive' = alive \ {l}
  /\ queue' = [queue EXCEPT ![l] = <<>>]
  /\ UNCHANGED <<slots, connected, raised, todo, calling, cleaned, next>>

Next ==
  \/ \E l \in Listeners : AddListener(l) \/ Handle(l) \/ Destroy(l)
  \/ \E e \in Emitters : Raise(e) \/ CallSlot(e) \/ Post(e)
  \/ CleanBegin
  \/ Disconnect

Spec == Init /\ [][Next]_vars

\* A thread that raises an event goes through all its slots, and the listener's
\* thread, blocked in service.run, handles what is posted.
Fairness ==
  /\ \A e \in Emitters : WF_vars(CallSlot(e)) /\ WF_vars(Post(e))
  /\ \A l \in Listeners : WF_vars(Handle(l))

FairSpec == Spec /\ Fairness

-----------------------------------------------------------------------------
(* Properties.                                                             *)

Event == [from : Emitters, no : Nat]

\* The variables hold what their declarations allow; a slot is called only
\* while its emission is going on.
TypeOK ==
  /\ slots \in Seq(Listeners)
  /\ connected \subseteq Listeners
  /\ raised \in [Emitters -> Nat]
  /\ todo \in [Emitters -> Seq(Listeners)]
  /\ calling \in [Emitters -> BOOLEAN]
  /\ queue \in [Listeners -> Seq(Event)]
  /\ alive \subseteq Listeners
  /\ cleaned \in BOOLEAN
  /\ next \in [Listeners -> [Emitters -> Nat]]
  /\ \A e \in Emitters : calling[e] => todo[e] # <<>>

Broadcast == INSTANCE EventBroadcast

\* Each listener hears an unbroken, ordered run of each emitter's events: no
\* thread's events overtake one another between the signal and the handler.
InOrder == Broadcast!Spec

\* Where events of e wait for l.
Pending(l, e) == {i \in DOMAIN queue[l] : queue[l][i].from = e}

\* Two listeners that have both joined an emitter's events are never more than
\* what is queued and being raised apart: no listener is skipped.
NoneSkipped ==
  \A l \in alive, e \in Emitters :
    next[l][e] > 0 /\ l \in connected =>
      LET late == IF \E i \in DOMAIN todo[e] : todo[e][i] = l THEN 1 ELSE 0
      IN next[l][e] + Cardinality(Pending(l, e)) + late = raised[e] + 1

\* What is posted to a listener is handled, unless the listener is destroyed
\* first.
Handled ==
  \A l \in Listeners, e \in Emitters :
    \A n \in 1..MaxEvents :
      (\E i \in DOMAIN queue[l] : queue[l][i] = [from |-> e, no |-> n])
        ~> (next[l][e] > n \/ l \notin alive)

\* Once the manager is cleaned no slot is called any more, not even by an
\* emission that copied the slots before: only the calls under way may still
\* post, and when they are over the listeners may be destroyed.
NoCallAfterClean ==
  [][cleaned /\ slots = <<>> => \A e \in Emitters : calling'[e] => calling[e]]_vars
=============================================================================
