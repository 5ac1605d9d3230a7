--------------------------- MODULE EventBroadcast ---------------------------
(***************************************************************************)
(* What the event manager promises its listeners, whatever the threads     *)
(* that raise the events: of each emitter, a listener hears an unbroken    *)
(* run of events in the order they were raised.  It may join late and it   *)
(* may leave early, but it never hears an event twice, out of order or     *)
(* after a gap.  Nothing is promised across emitters.                      *)
(***************************************************************************)
EXTENDS Naturals

CONSTANTS Emitters, Listeners

VARIABLES
  raised,  \* raised[e]: how many events e has raised so far
  next     \* next[l][e]: number of the event of e that l hears next, 0 if it
           \* has heard none and may join anywhere

vars == <<raised, next>>

Init ==
  /\ raised = [e \in Emitters |-> 0]
  /\ next = [l \in Listeners |-> [e \in Emitters |-> 0]]

Raise(e) ==
  /\ raised' = [raised EXCEPT ![e] = @ + 1]
  /\ UNCHANGED next

Hear(l, e) ==
  \E n \in 1..raised[e] :
    /\ next[l][e] \in {0, n}
    /\ next' = [next EXCEPT ![l][e] = n + 1]
    /\ UNCHANGED raised

Next == \E e \in Emitters : Raise(e) \/ \E l \in Listeners : Hear(l, e)

Spec == Init /\ [][Next]_vars
=============================================================================
