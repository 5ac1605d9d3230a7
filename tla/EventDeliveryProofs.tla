------------------------ MODULE EventDeliveryProofs -------------------------
(***************************************************************************)
(* EventDelivery implements EventBroadcast, for all sets of importers and  *)
(* listeners, and no slot is called once the manager is cleaned.           *)
(*                                                                         *)
(* What makes it work is that an emitter posts one event to all its slots  *)
(* before it raises the next, and that a listener joins at the end of the  *)
(* slots and never joins again: the events of an emitter that a listener   *)
(* has queued run without a gap from the one it handles next to the last   *)
(* one that was posted to it.                                              *)
(***************************************************************************)
EXTENDS EventDelivery, SequenceTheorems, FiniteSetTheorems, WellFoundedInduction, TLAPS

Elements(s) == {s[i] : i \in DOMAIN s}
Distinct(s) == \A i, j \in DOMAIN s : s[i] = s[j] => i = j

\* Slots and connections are one and the same, and an emission goes through a
\* copy of them.
SlotsInv ==
  /\ Distinct(slots)
  /\ connected = Elements(slots)
  /\ \A e \in Emitters : Distinct(todo[e]) /\ (todo[e] # <<>> => raised[e] >= 1)

\* A listener that has not joined has not heard of anything.
NewcomerInv ==
  ~cleaned => \A l \in Listeners \ Elements(slots), e \in Emitters :
    queue[l] = <<>> /\ next[l][e] = 0 /\ l \notin Elements(todo[e])

\* Number of the last event that e has posted to l, or had posted when l joined.
Posted(l, e) == IF l \in Elements(todo[e]) THEN raised[e] - 1 ELSE raised[e]

\* The i-th of the events q queued for a listener comes after the earlier ones of
\* its emitter, and it is the one the listener is due, its first, or follows an
\* earlier one by one.
InLine(q, due, i) ==
  LET e == q[i].from
      no == q[i].no
  IN /\ \A j \in 1..i - 1 : q[j].from = e => q[j].no < no
     /\ \/ due[e] = no
        \/ due[e] = 0 /\ \A j \in 1..i - 1 : q[j].from # e
        \/ \E j \in 1..i - 1 : q[j].from = e /\ q[j].no + 1 = no

\* The events queued for a listener are in line, and none is ahead of its emitter.
GapFree(l) ==
  \A i \in DOMAIN queue[l] :
    /\ \A e \in Emitters : queue[l][i].from = e => queue[l][i].no \in 1..Posted(l, e)
    /\ InLine(queue[l], next[l], i)

\* What a listener handles next comes right after what is queued for it.
Silent(l, e) == next[l][e] = 0 /\ \A i \in DOMAIN queue[l] : queue[l][i].from # e

CaughtUp(l, e) ==
  \/ Silent(l, e)
  \/ next[l][e] = Posted(l, e) + 1
  \/ \E i \in DOMAIN queue[l] : queue[l][i].from = e /\ queue[l][i].no = Posted(l, e)

Joined(l, e) == l \in Elements(slots) \/ l \in Elements(todo[e])

DeliveryInv ==
  \A l \in alive : GapFree(l) /\ \A e \in Emitters : Joined(l, e) => CaughtUp(l, e)

IInv == TypeOK /\ SlotsInv /\ NewcomerInv /\ DeliveryInv

-----------------------------------------------------------------------------
(* Sequences: what taking the head off and appending do to the elements.   *)

LEMMA TailElements ==
  ASSUME NEW S, NEW s \in Seq(S), s # <<>>
  PROVE  /\ Head(s) \in S /\ Head(s) = s[1] /\ 1 \in DOMAIN s
         /\ Tail(s) \in Seq(S)
         /\ DOMAIN Tail(s) = 1..Len(s) - 1 /\ DOMAIN s = 1..Len(s)
         /\ \A i \in 1..Len(s) - 1 : Tail(s)[i] = s[i + 1]
         /\ Elements(s) = {Head(s)} \cup Elements(Tail(s))
<1>1. /\ Head(s) \in S /\ Head(s) = s[1] /\ Tail(s) \in Seq(S)
      /\ Len(Tail(s)) = Len(s) - 1 /\ Len(s) \in Nat \ {0}
      /\ \A i \in 1..Len(Tail(s)) : Tail(s)[i] = s[i + 1]
  BY HeadTailProperties
<1>2. DOMAIN s = 1..Len(s) /\ DOMAIN Tail(s) = 1..Len(s) - 1
  BY <1>1
<1>3. ASSUME NEW i \in DOMAIN s
      PROVE  s[i] \in {Head(s)} \cup Elements(Tail(s))
  <2>1. CASE i = 1
    BY <1>1, <2>1
  <2>2. CASE i # 1
    <3>1. i - 1 \in DOMAIN Tail(s) /\ Tail(s)[i - 1] = s[i]
      BY <1>1, <1>2, <2>2
    <3>2. QED
      BY <3>1 DEF Elements
  <2>3. QED
    BY <2>1, <2>2
<1>4. ASSUME NEW i \in DOMAIN Tail(s)
      PROVE  Tail(s)[i] \in Elements(s)
  <2>1. i + 1 \in DOMAIN s /\ Tail(s)[i] = s[i + 1]
    BY <1>1, <1>2
  <2>2. QED
    BY <2>1 DEF Elements
<1>5. Elements(s) = {Head(s)} \cup Elements(Tail(s))
  <2>1. Head(s) \in Elements(s)
    BY <1>1, <1>2 DEF Elements
  <2>2. QED
    BY <1>3, <1>4, <2>1 DEF Elements
<1>6. QED
  BY <1>1, <1>2, <1>5

LEMMA TailDistinct ==
  ASSUME NEW S, NEW s \in Seq(S), s # <<>>, Distinct(s)
  PROVE  Distinct(Tail(s)) /\ Head(s) \notin Elements(Tail(s))
<1>1. /\ Head(s) = s[1] /\ 1 \in DOMAIN s
      /\ DOMAIN Tail(s) = 1..Len(s) - 1 /\ DOMAIN s = 1..Len(s)
      /\ \A i \in 1..Len(s) - 1 : Tail(s)[i] = s[i + 1]
  BY TailElements
<1>2. Len(s) \in Nat
  OBVIOUS
<1>3. \A i \in DOMAIN Tail(s) : i + 1 \in DOMAIN s /\ i + 1 # 1 /\ Tail(s)[i] = s[i + 1]
  BY <1>1, <1>2
<1>4. Head(s) \notin Elements(Tail(s))
  BY <1>1, <1>3 DEF Distinct, Elements
<1>5. \A i, j \in DOMAIN Tail(s) : Tail(s)[i] = Tail(s)[j] => i + 1 = j + 1
  BY <1>3 DEF Distinct
<1>6. \A i, j \in DOMAIN Tail(s) : i + 1 = j + 1 => i = j
  BY <1>1, <1>2
<1>7. QED
  BY <1>4, <1>5, <1>6 DEF Distinct

LEMMA AppendElements ==
  ASSUME NEW S, NEW s \in Seq(S), NEW x \in S
  PROVE  /\ Append(s, x) \in Seq(S)
         /\ DOMAIN s = 1..Len(s) /\ Len(s) \in Nat
         /\ DOMAIN Append(s, x) = 1..Len(s) + 1
         /\ \A i \in 1..Len(s) : Append(s, x)[i] = s[i]
         /\ Append(s, x)[Len(s) + 1] = x
         /\ Elements(Append(s, x)) = Elements(s) \cup {x}
<1>1. /\ Append(s, x) \in Seq(S)
      /\ Len(Append(s, x)) = Len(s) + 1 /\ Len(s) \in Nat
      /\ \A i \in 1..Len(s) : Append(s, x)[i] = s[i]
      /\ Append(s, x)[Len(s) + 1] = x
  BY AppendProperties
<1>2. DOMAIN s = 1..Len(s) /\ DOMAIN Append(s, x) = 1..Len(s) + 1
  BY <1>1
<1>3. Elements(s) \cup {x} \subseteq Elements(Append(s, x))
  <2>1. \A i \in DOMAIN s : i \in DOMAIN Append(s, x) /\ Append(s, x)[i] = s[i]
    BY <1>1, <1>2
  <2>2. Len(s) + 1 \in DOMAIN Append(s, x)
    BY <1>1, <1>2
  <2>3. QED
    BY <1>1, <2>1, <2>2 DEF Elements
<1>4. ASSUME NEW i \in DOMAIN Append(s, x)
      PROVE  Append(s, x)[i] \in Elements(s) \cup {x}
  <2>1. i \in DOMAIN s \/ i = Len(s) + 1
    BY <1>1, <1>2
  <2>2. QED
    BY <1>1, <1>2, <2>1 DEF Elements
<1>5. Elements(Append(s, x)) \subseteq Elements(s) \cup {x}
  BY <1>4 DEF Elements
<1>6. QED
  BY <1>1, <1>2, <1>3, <1>5

LEMMA AppendDistinct ==
  ASSUME NEW S, NEW s \in Seq(S), NEW x \in S, Distinct(s), x \notin Elements(s)
  PROVE  Distinct(Append(s, x))
<1>1. /\ DOMAIN s = 1..Len(s) /\ Len(s) \in Nat
      /\ DOMAIN Append(s, x) = 1..Len(s) + 1
      /\ \A i \in 1..Len(s) : Append(s, x)[i] = s[i]
      /\ Append(s, x)[Len(s) + 1] = x
  BY AppendElements
<1>2. \A i \in DOMAIN Append(s, x) :
        (i \in DOMAIN s /\ Append(s, x)[i] = s[i] /\ s[i] # x)
        \/ (i = Len(s) + 1 /\ Append(s, x)[i] = x)
  BY <1>1 DEF Elements
<1>3. QED
  BY <1>2 DEF Distinct

-----------------------------------------------------------------------------
(* Types.                                                                  *)

LEMMA InitTyping == Init => TypeOK
<1> SUFFICES ASSUME Init PROVE TypeOK
  OBVIOUS
<1>1. <<>> \in Seq(Listeners) /\ <<>> \in Seq(Event)
  OBVIOUS
<1>2. todo \in [Emitters -> Seq(Listeners)] /\ queue \in [Listeners -> Seq(Event)]
  BY <1>1 DEF Init
<1>3. next \in [Listeners -> [Emitters -> Nat]]
  BY DEF Init
<1>4. QED
  BY <1>1, <1>2, <1>3 DEF Init, TypeOK

LEMMA StepTyping == TypeOK /\ [Next]_vars => TypeOK'
<1> SUFFICES ASSUME TypeOK, [Next]_vars PROVE TypeOK'
  OBVIOUS
<1>1. ASSUME NEW l \in Listeners, AddListener(l) PROVE TypeOK'
  <2>1. slots' \in Seq(Listeners)
    BY <1>1, AppendElements DEF AddListener, TypeOK
  <2>2. connected' \subseteq Listeners
    BY <1>1 DEF AddListener, TypeOK
  <2>3. QED
    BY <1>1, <2>1, <2>2 DEF AddListener, TypeOK
<1>2. ASSUME NEW l \in Listeners, Handle(l) PROVE TypeOK'
  <2>1. queue[l] \in Seq(Event) /\ queue[l] # <<>>
    BY <1>2 DEF Handle, TypeOK
  <2>2. Head(queue[l]) \in Event /\ Tail(queue[l]) \in Seq(Event)
    BY <2>1, TailElements
  <2>3. queue' \in [Listeners -> Seq(Event)]
    BY <1>2, <2>2 DEF Handle, TypeOK
  <2>4. next' \in [Listeners -> [Emitters -> Nat]]
    <3> DEFINE ev == Head(queue[l])
    <3>1. ev.from \in Emitters /\ ev.no + 1 \in Nat
      BY <2>2 DEF Event
    <3>2. next' = [next EXCEPT ![l] = [next[l] EXCEPT ![ev.from] = ev.no + 1]]
      BY <1>2 DEF Handle, TypeOK
    <3> HIDE DEF ev
    <3>3. [next[l] EXCEPT ![ev.from] = ev.no + 1] \in [Emitters -> Nat]
      BY <3>1 DEF TypeOK
    <3>4. QED
      BY <3>2, <3>3 DEF TypeOK
  <2>5. QED
    BY <1>2, <2>3, <2>4 DEF Handle, TypeOK
<1>3. ASSUME NEW l \in Listeners, Destroy(l) PROVE TypeOK'
  <2>1. queue' \in [Listeners -> Seq(Event)] /\ alive' \subseteq Listeners
    BY <1>3 DEF Destroy, TypeOK
  <2>2. QED
    BY <1>3, <2>1 DEF Destroy, TypeOK
<1>4. ASSUME NEW e \in Emitters, Raise(e) PROVE TypeOK'
  <2>1. raised' \in [Emitters -> Nat] /\ todo' \in [Emitters -> Seq(Listeners)]
    BY <1>4 DEF Raise, TypeOK
  <2>2. ~calling[e] /\ calling' = calling
    BY <1>4 DEF Raise, TypeOK
  <2>3. \A x \in Emitters : calling'[x] => todo'[x] # <<>>
    BY <1>4, <2>2 DEF Raise, TypeOK
  <2>4. QED
    BY <1>4, <2>1, <2>3 DEF Raise, TypeOK
<1>5. ASSUME NEW e \in Emitters, CallSlot(e) PROVE TypeOK'
  <2>1. todo[e] \in Seq(Listeners) /\ todo[e] # <<>> /\ ~calling[e]
    BY <1>5 DEF CallSlot, TypeOK
  <2>2. Tail(todo[e]) \in Seq(Listeners)
    BY <2>1, TailElements
  <2>3. CASE Head(todo[e]) \in connected
    <3>1. calling' = [calling EXCEPT ![e] = TRUE] /\ todo' = todo
      BY <1>5, <2>3 DEF CallSlot
    <3>2. calling' \in [Emitters -> BOOLEAN] /\ \A x \in Emitters : calling'[x] => todo'[x] # <<>>
      BY <2>1, <3>1 DEF TypeOK
    <3>3. QED
      BY <1>5, <3>1, <3>2 DEF CallSlot, TypeOK
  <2>4. CASE Head(todo[e]) \notin connected
    <3>1. calling' = calling /\ todo' = [todo EXCEPT ![e] = Tail(@)]
      BY <1>5, <2>4 DEF CallSlot
    <3>2. todo' \in [Emitters -> Seq(Listeners)]
      BY <2>2, <3>1 DEF TypeOK
    <3>3. \A x \in Emitters : calling'[x] => todo'[x] # <<>>
      BY <2>1, <3>1 DEF TypeOK
    <3>4. QED
      BY <1>5, <3>1, <3>2, <3>3 DEF CallSlot, TypeOK
  <2>5. QED
    BY <2>3, <2>4
<1>6. ASSUME NEW e \in Emitters, Post(e) PROVE TypeOK'
  <2>1. todo[e] \in Seq(Listeners) /\ todo[e] # <<>>
    BY <1>6 DEF Post, TypeOK
  <2>2. Tail(todo[e]) \in Seq(Listeners) /\ Head(todo[e]) \in Listeners
    BY <2>1, TailElements
  <2>3. [from |-> e, no |-> raised[e]] \in Event
    BY DEF Event, TypeOK
  <2>4. Append(queue[Head(todo[e])], [from |-> e, no |-> raised[e]]) \in Seq(Event)
    BY <2>2, <2>3, AppendElements DEF TypeOK
  <2>5. queue' \in [Listeners -> Seq(Event)]
    BY <1>6, <2>2, <2>4 DEF Post, TypeOK
  <2>6. todo' \in [Emitters -> Seq(Listeners)]
    BY <1>6, <2>2 DEF Post, TypeOK
  <2>7. calling' \in [Emitters -> BOOLEAN] /\ \A x \in Emitters : calling'[x] => todo'[x] # <<>>
    BY <1>6 DEF Post, TypeOK
  <2>8. QED
    BY <1>6, <2>5, <2>6, <2>7 DEF Post, TypeOK
<1>7. CASE CleanBegin
  BY <1>7 DEF CleanBegin, TypeOK
<1>8. CASE Disconnect
  <2>1. slots \in Seq(Listeners) /\ slots # <<>>
    BY <1>8 DEF Disconnect, TypeOK
  <2>2. Tail(slots) \in Seq(Listeners)
    BY <2>1, TailElements
  <2>3. connected' \subseteq Listeners
    BY <1>8 DEF Disconnect, TypeOK
  <2>4. QED
    BY <1>8, <2>2, <2>3 DEF Disconnect, TypeOK
<1>9. CASE UNCHANGED vars
  BY <1>9 DEF vars, TypeOK
<1>10. QED
  BY <1>1, <1>2, <1>3, <1>4, <1>5, <1>6, <1>7, <1>8, <1>9 DEF Next

-----------------------------------------------------------------------------
(* Slots and newcomers.                                                    *)

LEMMA StepSlots == TypeOK /\ SlotsInv /\ [Next]_vars => SlotsInv'
<1> SUFFICES ASSUME TypeOK, SlotsInv, [Next]_vars PROVE SlotsInv'
  OBVIOUS
<1>1. ASSUME NEW l \in Listeners, AddListener(l) PROVE SlotsInv'
  <2>1. slots \in Seq(Listeners) /\ l \notin Elements(slots) /\ Distinct(slots)
    BY <1>1 DEF AddListener, TypeOK, Elements, SlotsInv
  <2>2. Distinct(slots') /\ Elements(slots') = Elements(slots) \cup {l}
    BY <1>1, <2>1, AppendElements, AppendDistinct DEF AddListener
  <2>3. QED
    BY <1>1, <2>2 DEF AddListener, SlotsInv
<1>2. ASSUME NEW l \in Listeners, Handle(l) PROVE SlotsInv'
  BY <1>2 DEF Handle, SlotsInv
<1>3. ASSUME NEW l \in Listeners, Destroy(l) PROVE SlotsInv'
  BY <1>3 DEF Destroy, SlotsInv
<1>4. ASSUME NEW e \in Emitters, Raise(e) PROVE SlotsInv'
  <2>1. \A x \in Emitters : IF x = e THEN todo'[x] = slots /\ raised'[x] = raised[x] + 1
                                     ELSE todo'[x] = todo[x] /\ raised'[x] = raised[x]
    BY <1>4 DEF Raise, TypeOK
  <2>2. ASSUME NEW x \in Emitters
        PROVE  Distinct(todo'[x]) /\ (todo'[x] # <<>> => raised'[x] >= 1)
    <3>1. CASE x = e
      <4>1. todo'[x] = slots /\ raised'[x] = raised[x] + 1 /\ raised[x] \in Nat
        BY <2>1, <3>1 DEF TypeOK
      <4>2. QED
        BY <4>1 DEF SlotsInv
    <3>2. CASE x # e
      BY <2>1, <3>2 DEF SlotsInv
    <3>3. QED
      BY <3>1, <3>2
  <2>3. QED
    BY <1>4, <2>2 DEF Raise, SlotsInv
<1>5. ASSUME NEW e \in Emitters, CallSlot(e) \/ Post(e) PROVE SlotsInv'
  <2>1. todo[e] \in Seq(Listeners) /\ todo[e] # <<>> /\ Distinct(todo[e]) /\ raised[e] >= 1
    BY <1>5 DEF CallSlot, Post, TypeOK, SlotsInv
  <2>2. Distinct(Tail(todo[e]))
    BY <2>1, TailDistinct
  <2>3. todo' = todo \/ todo' = [todo EXCEPT ![e] = Tail(@)]
    BY <1>5 DEF CallSlot, Post
  <2>4. raised' = raised /\ slots' = slots /\ connected' = connected
    BY <1>5 DEF CallSlot, Post
  <2>5. \A x \in Emitters : Distinct(todo'[x]) /\ (todo'[x] # <<>> => raised'[x] >= 1)
    BY <2>1, <2>2, <2>3, <2>4 DEF SlotsInv, TypeOK
  <2>6. QED
    BY <2>4, <2>5 DEF SlotsInv
<1>6. CASE CleanBegin
  BY <1>6 DEF CleanBegin, SlotsInv
<1>7. CASE Disconnect
  <2>1. slots \in Seq(Listeners) /\ slots # <<>> /\ Distinct(slots)
    BY <1>7 DEF Disconnect, TypeOK, SlotsInv
  <2>2. /\ Distinct(Tail(slots)) /\ Head(slots) \notin Elements(Tail(slots))
        /\ Elements(slots) = {Head(slots)} \cup Elements(Tail(slots))
    BY <2>1, TailDistinct, TailElements
  <2>3. connected' = Elements(slots') /\ Distinct(slots')
    BY <1>7, <2>2 DEF Disconnect, SlotsInv
  <2>4. QED
    BY <1>7, <2>3 DEF Disconnect, SlotsInv
<1>8. CASE UNCHANGED vars
  BY <1>8 DEF vars, SlotsInv
<1>9. QED
  BY <1>1, <1>2, <1>3, <1>4, <1>5, <1>6, <1>7, <1>8 DEF Next

LEMMA StepNewcomer ==
  TypeOK /\ SlotsInv /\ NewcomerInv /\ [Next]_vars => NewcomerInv'
<1> SUFFICES ASSUME TypeOK, SlotsInv, NewcomerInv, [Next]_vars, ~cleaned',
                    NEW l \in Listeners, l \notin Elements(slots'), NEW e \in Emitters
             PROVE  queue'[l] = <<>> /\ next'[l][e] = 0 /\ l \notin Elements(todo'[e])
  BY DEF NewcomerInv
<1>1. ASSUME NEW k \in Listeners, AddListener(k)
      PROVE  queue'[l] = <<>> /\ next'[l][e] = 0 /\ l \notin Elements(todo'[e])
  <2>1. slots \in Seq(Listeners) /\ ~cleaned
    BY <1>1 DEF AddListener, TypeOK
  <2>2. l \notin Elements(slots)
    BY <1>1, <2>1, AppendElements DEF AddListener
  <2>3. QED
    BY <1>1, <2>1, <2>2 DEF AddListener, NewcomerInv
<1>2. ASSUME NEW k \in Listeners, Handle(k)
      PROVE  queue'[l] = <<>> /\ next'[l][e] = 0 /\ l \notin Elements(todo'[e])
  <2>1. ~cleaned /\ l \notin Elements(slots) /\ todo' = todo /\ queue[k] # <<>>
    BY <1>2 DEF Handle
  <2>2. queue[l] = <<>> /\ next[l][e] = 0 /\ l \notin Elements(todo[e])
    BY <2>1 DEF NewcomerInv
  <2>3. k # l
    BY <2>1, <2>2
  <2>4. QED
    BY <1>2, <2>1, <2>2, <2>3 DEF Handle, TypeOK
<1>3. ASSUME NEW k \in Listeners, Destroy(k)
      PROVE  queue'[l] = <<>> /\ next'[l][e] = 0 /\ l \notin Elements(todo'[e])
  BY <1>3 DEF Destroy
<1>4. ASSUME NEW x \in Emitters, Raise(x)
      PROVE  queue'[l] = <<>> /\ next'[l][e] = 0 /\ l \notin Elements(todo'[e])
  BY <1>4 DEF Raise, NewcomerInv, TypeOK
<1>5. ASSUME NEW x \in Emitters, CallSlot(x) \/ Post(x)
      PROVE  queue'[l] = <<>> /\ next'[l][e] = 0 /\ l \notin Elements(todo'[e])
  <2>1. todo[x] \in Seq(Listeners) /\ todo[x] # <<>>
    BY <1>5 DEF CallSlot, Post, TypeOK
  <2>2. Elements(todo[x]) = {Head(todo[x])} \cup Elements(Tail(todo[x]))
    BY <2>1, TailElements
  <2>3. todo' = todo \/ todo' = [todo EXCEPT ![x] = Tail(@)]
    BY <1>5 DEF CallSlot, Post
  <2>4. ~cleaned /\ l \notin Elements(slots) /\ next' = next
    BY <1>5 DEF CallSlot, Post
  <2>5. queue[l] = <<>> /\ next[l][e] = 0 /\ l \notin Elements(todo[e]) /\ l \notin Elements(todo[x])
    BY <2>4 DEF NewcomerInv
  <2>6. l \notin Elements(todo'[e])
    BY <2>2, <2>3, <2>5 DEF TypeOK
  <2>7. queue'[l] = queue[l]
    BY <1>5, <2>2, <2>5 DEF CallSlot, Post, TypeOK
  <2>8. QED
    BY <2>4, <2>5, <2>6, <2>7
<1>6. CASE CleanBegin
  BY <1>6 DEF CleanBegin
<1>7. CASE Disconnect
  BY <1>7 DEF Disconnect
<1>8. CASE UNCHANGED vars
  BY <1>8 DEF vars, NewcomerInv
<1>9. QED
  BY <1>1, <1>2, <1>3, <1>4, <1>5, <1>6, <1>7, <1>8 DEF Next

-----------------------------------------------------------------------------
(* What is queued.                                                         *)

LEMMA PostedType ==
  ASSUME TypeOK, NEW l, NEW e \in Emitters
  PROVE  Posted(l, e) \in Int /\ Posted(l, e) <= raised[e]
BY DEF Posted, TypeOK

\* The event a listener handles next is the one it is due, or its first.
LEMMA HeadIsDue ==
  ASSUME TypeOK, NEW l \in Listeners, GapFree(l), queue[l] # <<>>
  PROVE  LET ev == Head(queue[l])
         IN /\ ev \in Event /\ ev = queue[l][1] /\ 1 \in DOMAIN queue[l]
            /\ ev.no \in 1..Posted(l, ev.from)
            /\ next[l][ev.from] = 0 \/ next[l][ev.from] = ev.no
<1>1. queue[l] \in Seq(Event)
  BY DEF TypeOK
<1>2. Head(queue[l]) \in Event /\ Head(queue[l]) = queue[l][1] /\ 1 \in DOMAIN queue[l]
  BY <1>1, TailElements
<1>3. 1..1 - 1 = {}
  OBVIOUS
<1>4. Head(queue[l]).from \in Emitters
  BY <1>2 DEF Event
<1>5. QED
  BY <1>2, <1>3, <1>4 DEF GapFree, InLine

\* A step that leaves a listener's queue alone.
LEMMA QueueUnmoved ==
  ASSUME TypeOK, TypeOK', NEW l \in Listeners, GapFree(l),
         queue'[l] = queue[l], next'[l] = next[l],
         \A e \in Emitters : Posted(l, e) <= Posted(l, e)'
  PROVE  GapFree(l)'
<1> SUFFICES ASSUME NEW i \in DOMAIN queue[l], NEW e \in Emitters, queue[l][i].from = e
             PROVE  queue[l][i].no \in 1..Posted(l, e)'
  BY DEF GapFree
<1>1. Posted(l, e) \in Int /\ Posted(l, e)' \in Int
  BY PostedType DEF Posted, TypeOK
<1>2. queue[l][i].no \in 1..Posted(l, e)
  BY DEF GapFree
<1>3. QED
  BY <1>1, <1>2

LEMMA CaughtUpUnmoved ==
  ASSUME NEW l, NEW e, CaughtUp(l, e),
         queue'[l] = queue[l], next'[l] = next[l],
         Posted(l, e)' = Posted(l, e)
  PROVE  CaughtUp(l, e)'
BY DEF CaughtUp, Silent

DeliveryInvOf(l) == GapFree(l) /\ \A e \in Emitters : Joined(l, e) => CaughtUp(l, e)

LEMMA AddListenerDelivery ==
  ASSUME TypeOK, TypeOK', NewcomerInv, DeliveryInv,
         NEW k \in Listeners, AddListener(k), NEW l \in alive
  PROVE  DeliveryInvOf(l)'
<1>1. /\ l \in Listeners /\ queue' = queue /\ next' = next /\ todo' = todo
      /\ raised' = raised /\ ~cleaned /\ GapFree(l)
  BY DEF AddListener, GuiIdle, DeliveryInv, TypeOK
<1>2. \A e \in Emitters : Posted(l, e)' = Posted(l, e)
  BY <1>1 DEF Posted
<1>3. GapFree(l)'
  BY <1>1, <1>2, PostedType, QueueUnmoved
<1>4. ASSUME NEW e \in Emitters, Joined(l, e)' PROVE CaughtUp(l, e)'
  <2>1. Elements(slots') = Elements(slots) \cup {k}
    BY AppendElements DEF AddListener, TypeOK
  <2>2. CASE Joined(l, e)
    BY <1>1, <1>2, <2>2, CaughtUpUnmoved DEF DeliveryInv
  <2>3. CASE ~Joined(l, e)
    <3>1. l \in Listeners \ Elements(slots)
      BY <1>1, <2>3 DEF Joined
    <3>2. queue[l] = <<>> /\ next[l][e] = 0
      BY <1>1, <3>1 DEF NewcomerInv
    <3>3. QED
      BY <1>1, <3>2 DEF CaughtUp, Silent
  <2>4. QED
    BY <2>2, <2>3
<1>5. QED
  BY <1>3, <1>4 DEF DeliveryInvOf

LEMMA RaiseDelivery ==
  ASSUME TypeOK, TypeOK', DeliveryInv,
         NEW x \in Emitters, Raise(x), NEW l \in alive
  PROVE  DeliveryInvOf(l)'
<1>1. /\ l \in Listeners /\ queue' = queue /\ next' = next /\ slots' = slots
      /\ todo[x] = <<>> /\ GapFree(l)
  BY DEF Raise, DeliveryInv, TypeOK
<1>2. todo'[x] = slots /\ raised'[x] = raised[x] + 1 /\ raised[x] \in Nat
  BY DEF Raise, TypeOK
<1>3. \A e \in Emitters \ {x} : todo'[e] = todo[e] /\ raised'[e] = raised[e]
  BY DEF Raise, TypeOK
<1>4. l \notin Elements(todo[x])
  BY <1>1 DEF Elements
<1>5. ASSUME NEW e \in Emitters
      PROVE  /\ Posted(l, e) <= Posted(l, e)'
             /\ Joined(l, e)' => Joined(l, e) /\ Posted(l, e)' = Posted(l, e)
  <2>1. CASE e = x
    BY <1>1, <1>2, <1>4, <2>1 DEF Posted, Joined
  <2>2. CASE e # x
    <3>1. Posted(l, e)' = Posted(l, e)
      BY <1>3, <2>2 DEF Posted
    <3>2. QED
      BY <1>1, <1>3, <2>2, <3>1, PostedType DEF Joined
  <2>3. QED
    BY <2>1, <2>2
<1>6. GapFree(l)'
  BY <1>1, <1>5, QueueUnmoved
<1>7. \A e \in Emitters : Joined(l, e)' => CaughtUp(l, e)'
  BY <1>1, <1>5, CaughtUpUnmoved DEF DeliveryInv
<1>8. QED
  BY <1>6, <1>7 DEF DeliveryInvOf

LEMMA CallSlotDelivery ==
  ASSUME TypeOK, TypeOK', SlotsInv, DeliveryInv,
         NEW x \in Emitters, CallSlot(x), NEW l \in alive
  PROVE  DeliveryInvOf(l)'
<1>1. /\ l \in Listeners /\ queue' = queue /\ next' = next /\ slots' = slots
      /\ raised' = raised /\ GapFree(l)
  BY DEF CallSlot, DeliveryInv, TypeOK
<1>2. todo[x] \in Seq(Listeners) /\ todo[x] # <<>> /\ Distinct(todo[x])
  BY DEF CallSlot, TypeOK, SlotsInv
<1>3. /\ Elements(todo[x]) = {Head(todo[x])} \cup Elements(Tail(todo[x]))
      /\ Head(todo[x]) \notin Elements(Tail(todo[x]))
  BY <1>2, TailElements, TailDistinct
<1>4. \/ todo' = todo
      \/ todo' = [todo EXCEPT ![x] = Tail(@)] /\ Head(todo[x]) \notin Elements(slots)
  BY DEF CallSlot, SlotsInv
<1>5. ASSUME NEW e \in Emitters
      PROVE  /\ Posted(l, e) <= Posted(l, e)'
             /\ Joined(l, e)' => Joined(l, e) /\ Posted(l, e)' = Posted(l, e)
  <2>1. raised[e] \in Nat
    BY DEF TypeOK
  <2>2. CASE todo'[e] = todo[e]
    <3>1. Posted(l, e)' = Posted(l, e)
      BY <1>1, <2>2 DEF Posted
    <3>2. QED
      BY <1>1, <2>2, <3>1, PostedType DEF Joined
  <2>3. CASE todo'[e] # todo[e]
    <3>1. e = x /\ todo'[e] = Tail(todo[e]) /\ Head(todo[e]) \notin Elements(slots)
      BY <1>4, <2>3 DEF TypeOK
    <3>2. CASE l = Head(todo[e])
      <4>1. l \notin Elements(todo'[e]) /\ l \in Elements(todo[e]) /\ l \notin Elements(slots)
        BY <1>3, <3>1, <3>2
      <4>2. QED
        BY <1>1, <2>1, <4>1 DEF Posted, Joined
    <3>3. CASE l # Head(todo[e])
      <4>1. l \in Elements(todo'[e]) <=> l \in Elements(todo[e])
        BY <1>3, <3>1, <3>3
      <4>2. Posted(l, e)' = Posted(l, e)
        BY <1>1, <4>1 DEF Posted
      <4>3. QED
        BY <1>1, <4>1, <4>2, PostedType DEF Joined
    <3>4. QED
      BY <3>2, <3>3
  <2>4. QED
    BY <2>2, <2>3
<1>6. GapFree(l)'
  BY <1>1, <1>5, QueueUnmoved
<1>7. \A e \in Emitters : Joined(l, e)' => CaughtUp(l, e)'
  BY <1>1, <1>5, CaughtUpUnmoved DEF DeliveryInv
<1>8. QED
  BY <1>6, <1>7 DEF DeliveryInvOf

LEMMA PostDelivery ==
  ASSUME TypeOK, TypeOK', SlotsInv, DeliveryInv,
         NEW x \in Emitters, Post(x), NEW l \in alive
  PROVE  DeliveryInvOf(l)'
<1> DEFINE k == Head(todo[x])
           ev == [from |-> x, no |-> raised[x]]
<1>1. /\ l \in Listeners /\ next' = next /\ slots' = slots /\ raised' = raised
      /\ GapFree(l) /\ todo[x] # <<>> /\ todo[x] \in Seq(Listeners) /\ Distinct(todo[x])
      /\ raised[x] \in Nat /\ raised[x] >= 1
  BY DEF Post, DeliveryInv, TypeOK, SlotsInv
<1>2. /\ k \in Listeners /\ k \notin Elements(Tail(todo[x]))
      /\ Elements(todo[x]) = {k} \cup Elements(Tail(todo[x]))
  BY <1>1, TailElements, TailDistinct
<1>3. /\ todo'[x] = Tail(todo[x])
      /\ \A e \in Emitters \ {x} : todo'[e] = todo[e]
      /\ queue'[k] = Append(queue[k], ev)
      /\ \A j \in Listeners \ {k} : queue'[j] = queue[j]
  BY <1>2 DEF Post, TypeOK
<1> HIDE DEF k, ev
<1>4. \A e \in Emitters : e # x \/ l # k => Posted(l, e)' = Posted(l, e) /\ (Joined(l, e)' => Joined(l, e))
  BY <1>1, <1>2, <1>3 DEF Posted, Joined
<1>5. CASE l # k
  <2>1. GapFree(l)'
    BY <1>1, <1>3, <1>4, <1>5, PostedType, QueueUnmoved
  <2>2. \A e \in Emitters : Joined(l, e)' => CaughtUp(l, e)'
    BY <1>1, <1>3, <1>4, <1>5, CaughtUpUnmoved DEF DeliveryInv
  <2>3. QED
    BY <2>1, <2>2 DEF DeliveryInvOf
<1>6. CASE l = k
  <2> DEFINE n == Len(queue[l])
  <2>1. ev \in Event /\ ev.from = x /\ ev.no = raised[x]
    BY <1>1 DEF Event, ev
  <2>2. /\ queue[l] \in Seq(Event) /\ n \in Nat
        /\ DOMAIN queue[l] = 1..n /\ DOMAIN queue'[l] = 1..n + 1
        /\ \A i \in 1..n : queue'[l][i] = queue[l][i]
        /\ queue'[l][n + 1] = ev
    <3>1. queue[l] \in Seq(Event) /\ queue'[l] = Append(queue[l], ev)
      BY <1>1, <1>3, <1>6 DEF TypeOK
    <3>2. QED
      BY <2>1, <3>1, AppendElements
  <2> HIDE DEF n
  <2>3. Posted(l, x) = raised[x] - 1 /\ Posted(l, x)' = raised[x]
    BY <1>1, <1>2, <1>3, <1>6 DEF Posted
  <2>4. CaughtUp(l, x)
    BY <1>2, <1>6 DEF DeliveryInv, Joined
  <2>5. ASSUME NEW i \in 1..n, NEW e \in Emitters, queue'[l][i].from = e
        PROVE  queue'[l][i].no \in 1..Posted(l, e)'
    <3>1. queue'[l][i] = queue[l][i] /\ i \in DOMAIN queue[l]
      BY <2>2
    <3>2. queue[l][i].no \in 1..Posted(l, e)
      BY <1>1, <2>5, <3>1 DEF GapFree
    <3>3. Posted(l, e) \in Int /\ Posted(l, e)' \in Int /\ Posted(l, e) <= Posted(l, e)'
      <4>1. CASE e = x
        BY <1>1, <2>3, <4>1
      <4>2. CASE e # x
        BY <1>4, <4>2, PostedType
      <4>3. QED
        BY <4>1, <4>2
    <3>4. QED
      BY <3>1, <3>2, <3>3
  <2>6. /\ raised[x] \in 1..Posted(l, x)'
        /\ \A j \in 1..n : queue[l][j].from = x => queue[l][j].no < raised[x]
        /\ \/ next[l][x] = raised[x]
           \/ next[l][x] = 0 /\ \A j \in 1..n : queue[l][j].from # x
           \/ \E j \in 1..n : queue[l][j].from = x /\ queue[l][j].no + 1 = raised[x]
    <3>1. raised[x] \in 1..Posted(l, x)'
      BY <1>1, <2>3
    <3>2. ASSUME NEW j \in 1..n, queue[l][j].from = x
          PROVE  queue[l][j].no < raised[x] /\ queue[l][j].no \in Nat
      <4>1. queue[l][j].no \in 1..Posted(l, x)
        BY <1>1, <2>2, <3>2 DEF GapFree
      <4>2. QED
        BY <1>1, <2>3, <4>1
    <3>3. next[l][x] = Posted(l, x) + 1 => next[l][x] = raised[x]
      BY <1>1, <2>3
    <3>4. \A j \in 1..n : queue[l][j].from = x /\ queue[l][j].no = Posted(l, x)
            => queue[l][j].no + 1 = raised[x]
      BY <1>1, <2>3
    <3>5. QED
      BY <2>2, <2>4, <3>1, <3>2, <3>3, <3>4 DEF CaughtUp, Silent
  <2>7. GapFree(l)'
    <3>1. SUFFICES ASSUME NEW i \in DOMAIN queue'[l]
                   PROVE  /\ \A e \in Emitters : queue'[l][i].from = e
                                => queue'[l][i].no \in 1..Posted(l, e)'
                          /\ InLine(queue'[l], next'[l], i)
      BY DEF GapFree
    <3>2. CASE i \in 1..n
      <4>1. queue'[l][i] = queue[l][i] /\ \A j \in 1..i - 1 : queue'[l][j] = queue[l][j]
        BY <2>2, <3>2
      <4>2. InLine(queue[l], next[l], i)
        BY <1>1, <2>2, <3>2 DEF GapFree
      <4>3. InLine(queue'[l], next'[l], i)
        BY <1>1, <4>1, <4>2 DEF InLine
      <4>4. QED
        BY <2>5, <3>2, <4>3
    <3>3. CASE i = n + 1
      <4>1. i - 1 = n
        BY <2>2, <3>3
      <4>2. queue'[l][i].from = x /\ queue'[l][i].no = raised[x]
        BY <2>1, <2>2, <3>3
      <4>3. \A j \in 1..n : queue'[l][j] = queue[l][j]
        BY <2>2
      <4>4. InLine(queue'[l], next'[l], i)
        BY <1>1, <2>6, <4>1, <4>2, <4>3 DEF InLine
      <4>5. QED
        BY <2>6, <4>2, <4>4
    <3>4. QED
      BY <2>2, <3>2, <3>3
  <2>8. ASSUME NEW e \in Emitters, Joined(l, e)' PROVE CaughtUp(l, e)'
    <3>1. CASE e = x
      <4>1. n + 1 \in DOMAIN queue'[l]
        BY <2>2
      <4>2. QED
        BY <2>1, <2>2, <2>3, <3>1, <4>1 DEF CaughtUp
    <3>2. CASE e # x
      <4>1. Posted(l, e)' = Posted(l, e) /\ CaughtUp(l, e)
        BY <1>4, <2>8, <3>2 DEF DeliveryInv
      <4>2. CASE Silent(l, e)
        <5>1. \A i \in DOMAIN queue'[l] : queue'[l][i].from # e
          BY <2>1, <2>2, <3>2, <4>2 DEF Silent
        <5>2. QED
          BY <1>1, <4>2, <5>1 DEF CaughtUp, Silent
      <4>3. CASE next[l][e] = Posted(l, e) + 1
        BY <1>1, <4>1, <4>3 DEF CaughtUp
      <4>4. CASE \E i \in DOMAIN queue[l] : queue[l][i].from = e /\ queue[l][i].no = Posted(l, e)
        <5>1. PICK i \in DOMAIN queue[l] : queue[l][i].from = e /\ queue[l][i].no = Posted(l, e)
          BY <4>4
        <5>2. i \in DOMAIN queue'[l] /\ queue'[l][i] = queue[l][i]
          BY <2>2
        <5>3. QED
          BY <4>1, <5>1, <5>2 DEF CaughtUp
      <4>5. QED
        BY <4>1, <4>2, <4>3, <4>4 DEF CaughtUp
    <3>3. QED
      BY <3>1, <3>2
  <2>9. QED
    BY <2>7, <2>8 DEF DeliveryInvOf
<1>7. QED
  BY <1>5, <1>6

LEMMA HandleDelivery ==
  ASSUME TypeOK, TypeOK', DeliveryInv,
         NEW k \in Listeners, Handle(k), NEW l \in alive
  PROVE  DeliveryInvOf(l)'
<1>1. /\ l \in Listeners /\ todo' = todo /\ slots' = slots /\ raised' = raised
      /\ GapFree(l)
  BY DEF Handle, DeliveryInv, TypeOK
<1>2. \A e \in Emitters : Posted(l, e)' = Posted(l, e) /\ Posted(l, e) \in Int
                         /\ (Joined(l, e)' => Joined(l, e))
  BY <1>1, PostedType DEF Posted, Joined
<1>3. CASE l # k
  <2>1. queue'[l] = queue[l] /\ next'[l] = next[l]
    BY <1>1, <1>3 DEF Handle, TypeOK
  <2>2. GapFree(l)'
    BY <1>1, <1>2, <2>1, QueueUnmoved
  <2>3. \A e \in Emitters : Joined(l, e)' => CaughtUp(l, e)'
    BY <1>2, <2>1, CaughtUpUnmoved DEF DeliveryInv
  <2>4. QED
    BY <2>2, <2>3 DEF DeliveryInvOf
<1>4. CASE l = k
  <2> DEFINE head == queue[l][1]
             n == Len(queue[l])
  <2>1. /\ queue[l] \in Seq(Event) /\ queue[l] # <<>> /\ n \in Nat
        /\ DOMAIN queue[l] = 1..n /\ DOMAIN queue'[l] = 1..n - 1
        /\ \A i \in 1..n - 1 : queue'[l][i] = queue[l][i + 1]
        /\ head = Head(queue[l])
    <3>1. queue[l] \in Seq(Event) /\ queue[l] # <<>> /\ queue'[l] = Tail(queue[l])
      BY <1>1, <1>4 DEF Handle, TypeOK
    <3>2. QED
      BY <3>1, TailElements
  <2>2. /\ head \in Event /\ 1 \in DOMAIN queue[l]
        /\ head.no \in 1..Posted(l, head.from)
        /\ next[l][head.from] = 0 \/ next[l][head.from] = head.no
    BY <1>1, <2>1, HeadIsDue
  <2>3. head.from \in Emitters /\ head.no \in Nat
    BY <2>2 DEF Event
  <2>4. /\ next'[l][head.from] = head.no + 1
        /\ \A e \in Emitters \ {head.from} : next'[l][e] = next[l][e]
    <3>1. next' = [next EXCEPT ![l] = [next[l] EXCEPT ![head.from] = head.no + 1]]
      BY <1>4, <2>1 DEF Handle, TypeOK
    <3>2. next[l] \in [Emitters -> Nat] /\ next \in [Listeners -> [Emitters -> Nat]]
      BY <1>1 DEF TypeOK
    <3>3. next'[l] = [next[l] EXCEPT ![head.from] = head.no + 1]
      BY <1>1, <3>1, <3>2
    <3>4. QED
      BY <2>3, <3>2, <3>3
  <2> HIDE DEF head, n
  <2>5. GapFree(l)'
    <3>1. SUFFICES ASSUME NEW i \in DOMAIN queue'[l]
                   PROVE  /\ \A e \in Emitters : queue'[l][i].from = e
                                => queue'[l][i].no \in 1..Posted(l, e)'
                          /\ InLine(queue'[l], next'[l], i)
      BY DEF GapFree
    <3>2. /\ i \in 1..n - 1 /\ i + 1 \in DOMAIN queue[l] /\ i + 1 - 1 = i
          /\ i \in Nat /\ i >= 1
      BY <2>1
    <3>3. queue'[l][i] = queue[l][i + 1] /\ queue[l][i + 1] \in Event
      BY <2>1, <3>2
    <3> PICK e \in Emitters : queue[l][i + 1].from = e
      BY <3>3 DEF Event
    <3> DEFINE no == queue[l][i + 1].no
    <3>4. /\ no \in 1..Posted(l, e)
          /\ \A j \in 1..i : queue[l][j].from = e => queue[l][j].no < no
          /\ \/ next[l][e] = no
             \/ next[l][e] = 0 /\ \A j \in 1..i : queue[l][j].from # e
             \/ \E j \in 1..i : queue[l][j].from = e /\ queue[l][j].no + 1 = no
      BY <1>1, <3>2 DEF GapFree, InLine
    <3>5. ASSUME NEW j \in 1..i - 1
          PROVE  j + 1 \in 1..i /\ queue'[l][j] = queue[l][j + 1]
      <4>1. j \in 1..n - 1 /\ j + 1 \in 1..i
        BY <2>1, <3>2
      <4>2. QED
        BY <2>1, <4>1
    <3>6. \A j \in 2..i : j - 1 \in 1..i - 1 /\ queue'[l][j - 1] = queue[l][j]
      BY <2>1, <3>2
    <3>7. queue[l][1] = head /\ 1 \in 1..i
      BY <3>2 DEF head
    <3> HIDE DEF no
    <3>8. \/ next'[l][e] = no
          \/ next'[l][e] = 0 /\ \A j \in 1..i - 1 : queue'[l][j].from # e
          \/ \E j \in 1..i - 1 : queue'[l][j].from = e /\ queue'[l][j].no + 1 = no
      <4>1. CASE next[l][e] = no
        <5>1. CASE e = head.from
          <6>1. head.no < no /\ no > 0 /\ head.no \in Nat /\ no \in Int
            BY <1>2, <2>3, <3>3, <3>4, <3>7, <5>1
          <6>2. QED
            BY <2>2, <4>1, <5>1, <6>1
        <5>2. CASE e # head.from
          BY <2>4, <3>3, <4>1, <5>2
        <5>3. QED
          BY <5>1, <5>2
      <4>2. CASE next[l][e] = 0 /\ \A j \in 1..i : queue[l][j].from # e
        <5>1. e # head.from
          BY <3>7, <4>2
        <5>2. QED
          BY <2>4, <3>3, <3>5, <4>2, <5>1
      <4>3. CASE \E j \in 1..i : queue[l][j].from = e /\ queue[l][j].no + 1 = no
        <5>1. PICK j \in 1..i : queue[l][j].from = e /\ queue[l][j].no + 1 = no
          BY <4>3
        <5>2. CASE j = 1
          BY <2>4, <3>7, <5>1, <5>2
        <5>3. CASE j # 1
          <6>1. j \in 2..i
            BY <3>2, <5>3
          <6>2. QED
            BY <3>6, <5>1, <6>1
        <5>4. QED
          BY <5>2, <5>3
      <4>4. QED
        BY <3>4, <4>1, <4>2, <4>3
    <3>9. \A j \in 1..i - 1 : queue'[l][j].from = e => queue'[l][j].no < no
      BY <3>4, <3>5
    <3>10. InLine(queue'[l], next'[l], i)
      BY <3>3, <3>8, <3>9 DEF InLine, no
    <3>11. QED
      BY <1>2, <3>3, <3>4, <3>10 DEF no
  <2>6. ASSUME NEW e \in Emitters, Joined(l, e)' PROVE CaughtUp(l, e)'
    <3>1. CaughtUp(l, e) /\ Posted(l, e)' = Posted(l, e) /\ Posted(l, e) \in Int
      BY <1>2, <2>6 DEF DeliveryInv
    <3>2. CASE Silent(l, e)
      <4>1. e # head.from /\ next'[l][e] = 0
        BY <2>2, <2>4, <3>2 DEF Silent, head
      <4>2. ASSUME NEW i \in DOMAIN queue'[l] PROVE queue'[l][i].from # e
        <5>1. i + 1 \in DOMAIN queue[l] /\ queue'[l][i] = queue[l][i + 1]
          BY <2>1
        <5>2. QED
          BY <3>2, <5>1 DEF Silent
      <4>3. QED
        BY <4>1, <4>2 DEF CaughtUp, Silent
    <3>3. CASE next[l][e] = Posted(l, e) + 1
      <4>1. e # head.from
        <5>1. SUFFICES ASSUME e = head.from PROVE FALSE
          OBVIOUS
        <5>2. head.no <= Posted(l, e) /\ head.no >= 1 /\ Posted(l, e) \in Int /\ head.no \in Nat
          BY <1>2, <2>2, <2>3, <5>1
        <5>3. next[l][e] = 0 \/ next[l][e] = head.no
          BY <2>2, <5>1
        <5>4. QED
          BY <3>3, <5>2, <5>3
      <4>2. QED
        BY <2>4, <3>1, <3>3, <4>1 DEF CaughtUp
    <3>4. CASE \E i \in DOMAIN queue[l] : queue[l][i].from = e /\ queue[l][i].no = Posted(l, e)
      <4>1. PICK i \in DOMAIN queue[l] : queue[l][i].from = e /\ queue[l][i].no = Posted(l, e)
        BY <3>4
      <4>2. CASE i = 1
        BY <2>4, <3>1, <4>1, <4>2 DEF CaughtUp, head
      <4>3. CASE i # 1
        <5>1. i - 1 \in DOMAIN queue'[l] /\ queue'[l][i - 1] = queue[l][i]
          BY <2>1, <4>3
        <5>2. QED
          BY <3>1, <4>1, <5>1 DEF CaughtUp
      <4>4. QED
        BY <4>2, <4>3
    <3>5. QED
      BY <3>1, <3>2, <3>3, <3>4 DEF CaughtUp
  <2>7. QED
    BY <2>5, <2>6 DEF DeliveryInvOf
<1>5. QED
  BY <1>3, <1>4

\* The steps that touch neither the queue of a listener that lives on, nor what
\* is under way.
LEMMA OtherDelivery ==
  ASSUME TypeOK, TypeOK', DeliveryInv,
         CleanBegin \/ Disconnect \/ UNCHANGED vars \/ \E k \in Listeners : Destroy(k),
         NEW l \in alive'
  PROVE  DeliveryInvOf(l)'
<1>1. /\ l \in alive /\ l \in Listeners /\ next' = next /\ todo' = todo /\ raised' = raised
      /\ queue'[l] = queue[l]
  BY DEF CleanBegin, Disconnect, vars, Destroy, TypeOK
<1>2. Elements(slots') \subseteq Elements(slots)
  <2>1. CASE Disconnect
    BY <2>1, TailElements DEF Disconnect, TypeOK
  <2>2. CASE ~Disconnect
    BY <2>2 DEF CleanBegin, vars, Destroy
  <2>3. QED
    BY <2>1, <2>2
<1>3. \A e \in Emitters : Posted(l, e)' = Posted(l, e) /\ (Joined(l, e)' => Joined(l, e))
  BY <1>1, <1>2 DEF Posted, Joined
<1>4. GapFree(l)'
  BY <1>1, <1>3, PostedType, QueueUnmoved DEF DeliveryInv
<1>5. \A e \in Emitters : Joined(l, e)' => CaughtUp(l, e)'
  BY <1>1, <1>3, CaughtUpUnmoved DEF DeliveryInv
<1>6. QED
  BY <1>4, <1>5 DEF DeliveryInvOf

LEMMA StepDelivery ==
  IInv /\ TypeOK' /\ [Next]_vars => DeliveryInv'
<1> SUFFICES ASSUME IInv, TypeOK', [Next]_vars, NEW l \in alive'
             PROVE  DeliveryInvOf(l)'
  BY DEF DeliveryInv, DeliveryInvOf
<1>1. ASSUME NEW k \in Listeners, AddListener(k) PROVE DeliveryInvOf(l)'
  <2>1. l \in alive
    BY <1>1 DEF AddListener
  <2>2. QED
    BY <1>1, <2>1, AddListenerDelivery DEF IInv
<1>2. ASSUME NEW k \in Listeners, Handle(k) PROVE DeliveryInvOf(l)'
  <2>1. l \in alive
    BY <1>2 DEF Handle
  <2>2. QED
    BY <1>2, <2>1, HandleDelivery DEF IInv
<1>3. ASSUME NEW e \in Emitters, Raise(e) PROVE DeliveryInvOf(l)'
  <2>1. l \in alive
    BY <1>3 DEF Raise
  <2>2. QED
    BY <1>3, <2>1, RaiseDelivery DEF IInv
<1>4. ASSUME NEW e \in Emitters, CallSlot(e) PROVE DeliveryInvOf(l)'
  <2>1. l \in alive
    BY <1>4 DEF CallSlot
  <2>2. QED
    BY <1>4, <2>1, CallSlotDelivery DEF IInv
<1>5. ASSUME NEW e \in Emitters, Post(e) PROVE DeliveryInvOf(l)'
  <2>1. l \in alive
    BY <1>5 DEF Post
  <2>2. QED
    BY <1>5, <2>1, PostDelivery DEF IInv
<1>6. CASE CleanBegin \/ Disconnect \/ UNCHANGED vars \/ \E k \in Listeners : Destroy(k)
  BY <1>6, OtherDelivery DEF IInv
<1>7. QED
  BY <1>1, <1>2, <1>3, <1>4, <1>5, <1>6 DEF Next

-----------------------------------------------------------------------------
(* The theorems.                                                           *)

LEMMA InitInv == Init => IInv
<1> SUFFICES ASSUME Init PROVE IInv
  OBVIOUS
<1>1. TypeOK
  BY InitTyping
<1>2. DOMAIN slots = {} /\ \A e \in Emitters : DOMAIN todo[e] = {} /\ todo[e] = <<>>
  BY DEF Init
<1>3. SlotsInv
  BY <1>2 DEF Init, SlotsInv, Distinct, Elements
<1>4. NewcomerInv
  BY <1>2 DEF Init, NewcomerInv, Elements
<1>5. DeliveryInv
  <2>1. \A l \in Listeners : DOMAIN queue[l] = {}
    BY DEF Init
  <2>2. QED
    BY <1>1, <2>1 DEF Init, DeliveryInv, GapFree, CaughtUp, Silent, TypeOK
<1>6. QED
  BY <1>1, <1>3, <1>4, <1>5 DEF IInv

LEMMA StepInv == IInv /\ [Next]_vars => IInv'
BY StepTyping, StepSlots, StepNewcomer, StepDelivery DEF IInv

LEMMA Invariance == Spec => []IInv
BY InitInv, StepInv, PTL DEF Spec

\* The variables stay in their types, whoever raises events and listens.
THEOREM Typing == Spec => []TypeOK
<1>1. IInv => TypeOK
  BY DEF IInv
<1>2. QED
  BY Invariance, <1>1, PTL

\* Each step is one of the broadcast or leaves it alone.
LEMMA StepRefines == IInv /\ [Next]_vars => [Broadcast!Next]_Broadcast!vars
<1> SUFFICES ASSUME IInv, [Next]_vars
             PROVE  Broadcast!Next \/ UNCHANGED <<raised, next>>
  BY DEF Broadcast!vars
<1>1. ASSUME NEW e \in Emitters, Raise(e) PROVE Broadcast!Next
  BY <1>1 DEF Raise, Broadcast!Next, Broadcast!Raise
<1>2. ASSUME NEW l \in Listeners, Handle(l) PROVE Broadcast!Next
  <2> DEFINE ev == Head(queue[l])
  <2>1. GapFree(l) /\ TypeOK /\ queue[l] # <<>>
    BY <1>2 DEF Handle, IInv, DeliveryInv
  <2>2. /\ ev \in Event /\ ev.no \in 1..Posted(l, ev.from)
        /\ next[l][ev.from] = 0 \/ next[l][ev.from] = ev.no
    BY <2>1, HeadIsDue
  <2>3. ev.from \in Emitters
    BY <2>2 DEF Event
  <2>4. ev.no \in 1..raised[ev.from]
    <3>1. Posted(l, ev.from) \in Int /\ Posted(l, ev.from) <= raised[ev.from] /\ raised[ev.from] \in Nat
      BY <2>1, <2>3, PostedType DEF TypeOK
    <3>2. QED
      BY <2>2, <3>1
  <2>5. next' = [next EXCEPT ![l][ev.from] = ev.no + 1] /\ raised' = raised
    BY <1>2 DEF Handle
  <2> HIDE DEF ev
  <2>6. Broadcast!Hear(l, ev.from)
    BY <2>2, <2>4, <2>5 DEF Broadcast!Hear
  <2>7. QED
    BY <2>3, <2>6 DEF Broadcast!Next
<1>3. CASE \/ \E l \in Listeners : AddListener(l) \/ Destroy(l)
           \/ \E e \in Emitters : CallSlot(e) \/ Post(e)
           \/ CleanBegin \/ Disconnect \/ UNCHANGED vars
  BY <1>3 DEF AddListener, Destroy, CallSlot, Post, CleanBegin, Disconnect, vars
<1>4. QED
  BY <1>1, <1>2, <1>3 DEF Next

\* What the threads do is a broadcast: of each emitter a listener hears an
\* unbroken run of events, in the order they were raised.
THEOREM Order == Spec => InOrder
<1>1. Init => Broadcast!Init
  BY DEF Init, Broadcast!Init
<1>2. QED
  BY <1>1, Invariance, StepRefines, PTL DEF Spec, InOrder, Broadcast!Spec

\* Once the slots are disconnected no call begins: an emission under way finds
\* none of its slots connected.
THEOREM Silence == Spec => NoCallAfterClean
<1>1. ASSUME IInv, [Next]_vars, cleaned, slots = <<>>, NEW e \in Emitters, calling'[e]
      PROVE  calling[e]
  <2>1. connected = {}
    BY <1>1 DEF IInv, SlotsInv, Elements
  <2>2. calling \in [Emitters -> BOOLEAN]
    BY <1>1 DEF IInv, TypeOK
  <2>3. ASSUME NEW x \in Emitters, CallSlot(x) PROVE calling' = calling
    BY <2>1, <2>3 DEF CallSlot
  <2>4. ASSUME NEW x \in Emitters, Post(x) PROVE calling[e]
    BY <1>1, <2>2, <2>4 DEF Post
  <2>5. CASE \/ \E l \in Listeners : AddListener(l) \/ Handle(l) \/ Destroy(l)
             \/ \E x \in Emitters : Raise(x)
             \/ CleanBegin \/ Disconnect \/ UNCHANGED vars
    BY <1>1, <2>5 DEF AddListener, Handle, Destroy, Raise, CleanBegin, Disconnect, vars
  <2>6. QED
    BY <1>1, <2>3, <2>4, <2>5 DEF Next
<1>2. IInv /\ [Next]_vars =>
        [cleaned /\ slots = <<>> => \A e \in Emitters : calling'[e] => calling[e]]_vars
  BY <1>1
<1>3. QED
  BY <1>2, Invariance, PTL DEF Spec, NoCallAfterClean

-----------------------------------------------------------------------------
(* How many events wait for a listener.                                    *)

LEMMA Least ==
  ASSUME NEW S \in SUBSET Nat, S # {}
  PROVE  \E m \in S : \A x \in S : m <= x
<1> DEFINE R == OpToRel(<, Nat)
<1>1. IsWellFoundedOn(R, Nat)
  BY NatLessThanWellFounded
<1>2. \A y, z \in Nat : y < z => <<y, z>> \in R
  BY DEF OpToRel
<1> HIDE DEF R
<1>3. PICK m \in S : \A y \in S : ~ (<<y, m>> \in R)
  BY <1>1, WFMin
<1>4. ASSUME NEW x \in S PROVE m <= x
  <2>1. m \in Nat /\ x \in Nat
    OBVIOUS
  <2>2. ~(x < m)
    BY <1>2, <1>3, <2>1
  <2>3. QED
    BY <2>1, <2>2
<1>5. QED
  BY <1>4

\* The events of e queued for l are numbered from the one it is due, or joined
\* with, to the last one posted: as many as there are numbers.
LEMMA PendingCount ==
  ASSUME IInv, NEW l \in alive, NEW e \in Emitters, Joined(l, e), next[l][e] > 0
  PROVE  next[l][e] + Cardinality(Pending(l, e)) = Posted(l, e) + 1
<1> DEFINE q == queue[l]
           K == Pending(l, e)
           due == next[l][e]
           last == Posted(l, e)
           number == [i \in K |-> q[i].no]
<1>0. TypeOK /\ GapFree(l) /\ CaughtUp(l, e) /\ l \in Listeners
  BY DEF IInv, DeliveryInv, TypeOK
<1>1. due \in Nat /\ due >= 1 /\ last \in Int
  BY <1>0, PostedType DEF TypeOK
<1>2. DOMAIN q = 1..Len(q) /\ Len(q) \in Nat
  BY <1>0, LenProperties DEF TypeOK
<1>3. \A i \in K : i \in DOMAIN q /\ i \in Nat /\ q[i].from = e
  BY <1>2 DEF Pending
<1>4. ASSUME NEW i \in K
      PROVE  /\ q[i].no \in 1..last
             /\ \A j \in K : j < i => q[j].no < q[i].no
             /\ q[i].no = due \/ \E j \in K : j < i /\ q[j].no + 1 = q[i].no
  <2>1. /\ i \in DOMAIN q /\ q[i].from = e
        /\ q[i].no \in 1..last
        /\ InLine(q, next[l], i)
    BY <1>0, <1>3 DEF GapFree
  <2>2. \A j \in 1..i - 1 : q[j].from = e => j \in K /\ j < i
    BY <1>2, <2>1 DEF Pending
  <2>3. \A j \in K : j < i => j \in 1..i - 1 /\ q[j].from = e
    BY <1>2, <1>3, <2>1
  <2>4. due # 0
    BY <1>1
  <2> HIDE DEF q, K
  <2>5. \A j \in 1..i - 1 : q[j].from = e => q[j].no < q[i].no
    BY <2>1 DEF InLine
  <2>6. q[i].no = due \/ \E j \in 1..i - 1 : q[j].from = e /\ q[j].no + 1 = q[i].no
    BY <2>1, <2>4 DEF InLine
  <2>7. QED
    BY <2>1, <2>2, <2>3, <2>5, <2>6
<1>5. \A i \in K : number[i] = q[i].no /\ number[i] \in Nat /\ number[i] <= last /\ i \in Nat
  <2>1. ASSUME NEW i \in K PROVE q[i].no \in Nat /\ q[i].no <= last
    BY <1>1, <1>4
  <2>2. QED
    BY <1>3, <2>1
<1>6. /\ \A i, j \in K : j < i => number[j] < number[i]
      /\ \A i \in K : number[i] = due \/ \E j \in K : j < i /\ number[j] + 1 = number[i]
  BY <1>4, <1>5
<1>7. due = last + 1 \/ \E i \in K : number[i] = last
  <2>1. CASE due = last + 1
    BY <2>1
  <2>2. CASE \E i \in DOMAIN q : q[i].from = e /\ q[i].no = last
    BY <1>5, <2>2 DEF Pending
  <2>3. ~Silent(l, e)
    BY <1>1 DEF Silent
  <2>4. QED
    BY <1>0, <2>1, <2>2, <2>3 DEF CaughtUp
<1> HIDE DEF K, number, q, due, last
\* No number is below the one that is due.
<1>8. \A i \in K : due <= number[i]
  <2> DEFINE low == {i \in K : ~(due <= number[i])}
  <2>1. ASSUME low # {} PROVE FALSE
    <3>1. low \in SUBSET Nat
      BY <1>5
    <3>2. PICK i \in low : \A j \in low : i <= j
      <4> HIDE DEF low
      <4>1. QED
        BY <2>1, <3>1, Least
    <3>3. i \in K /\ i \in Nat /\ number[i] \in Nat /\ ~(due <= number[i])
      BY <1>5
    <3>4. PICK j \in K : j < i /\ number[j] + 1 = number[i]
      <4>1. number[i] # due
        BY <1>1, <3>3
      <4>2. QED
        BY <1>6, <3>3, <4>1
    <3>5. j \in Nat /\ number[j] \in Nat
      BY <1>5
    <3>6. ~(due <= number[j]) /\ ~(i <= j)
      BY <1>1, <3>3, <3>4, <3>5
    <3>7. QED
      BY <3>2, <3>4, <3>6
  <2>2. QED
    BY <2>1
\* None is left out.
<1>9. \A m \in due..last : \E i \in K : number[i] = m
  <2> DEFINE left == {k \in Nat : last - k \in due..last /\ ~ \E i \in K : number[i] = last - k}
  <2>1. ASSUME left # {} PROVE FALSE
    <3>1. PICK k \in left : \A x \in left : k <= x
      <4>1. left \in SUBSET Nat
        OBVIOUS
      <4> HIDE DEF left
      <4>2. QED
        BY <2>1, <4>1, Least
    <3>2. k \in Nat /\ last - k \in due..last /\ ~ \E i \in K : number[i] = last - k
      OBVIOUS
    <3>3. CASE k = 0
      BY <1>1, <1>7, <3>2, <3>3
    <3>4. CASE k # 0
      <4>1. k - 1 \in Nat /\ last - (k - 1) \in due..last /\ ~(k <= k - 1)
        BY <1>1, <3>2, <3>4
      <4>2. k - 1 \notin left
        <5> HIDE DEF left
        <5>1. QED
          BY <3>1, <4>1
      <4>3. PICK i \in K : number[i] = last - (k - 1)
        BY <4>1, <4>2
      <4>4. number[i] # due
        BY <1>1, <3>2, <4>3
      <4>5. PICK j \in K : number[j] + 1 = number[i]
        BY <1>6, <4>4
      <4>6. number[j] \in Nat
        BY <1>5
      <4>7. number[j] = last - k
        BY <1>1, <3>2, <4>3, <4>5, <4>6
      <4>8. QED
        BY <3>2, <4>7
    <3>5. QED
      BY <3>3, <3>4
  <2>2. ASSUME NEW m \in due..last PROVE \E i \in K : number[i] = m
    <3>1. last - m \in Nat /\ last - (last - m) = m
      BY <1>1
    <3>2. last - m \notin left
      <4> HIDE DEF left
      <4>1. QED
        BY <2>1
    <3>3. QED
      BY <3>1, <3>2
  <2>3. QED
    BY <2>2
<1>10. number \in Bijection(K, due..last)
  <2>1. \A i \in K : number[i] \in due..last
    BY <1>1, <1>5, <1>8
  <2>2. number \in [K -> due..last]
    <3>1. number = [i \in K |-> number[i]]
      BY DEF number
    <3>2. QED
      BY <2>1, <3>1
  <2>3. \A i, j \in K : number[i] = number[j] => i = j
    <3>1. ASSUME NEW i \in K, NEW j \in K, number[i] = number[j], i # j PROVE FALSE
      <4>1. i \in Nat /\ j \in Nat /\ number[i] \in Nat /\ number[j] \in Nat
        BY <1>5
      <4>2. i < j \/ j < i
        BY <3>1, <4>1
      <4>3. number[i] < number[j] \/ number[j] < number[i]
        BY <1>6, <4>2
      <4>4. QED
        BY <3>1, <4>1, <4>3
    <3>2. QED
      BY <3>1
  <2>4. number \in Injection(K, due..last)
    BY <2>2, <2>3 DEF Injection, IsInjective
  <2>5. number \in Surjection(K, due..last)
    BY <1>9, <2>2 DEF Surjection
  <2>6. QED
    BY <2>4, <2>5 DEF Bijection
<1>11. IsFiniteSet(K)
  <2>1. IsFiniteSet(DOMAIN q)
    BY <1>2, FS_Interval
  <2>2. K \in SUBSET DOMAIN q
    BY <1>3
  <2>3. QED
    BY <2>1, <2>2, FS_Subset
<1>12. Cardinality(due..last) = Cardinality(K)
  BY <1>10, <1>11, FS_Bijection DEF ExistsBijection
<1>13. Cardinality(due..last) = IF due > last THEN 0 ELSE last - due + 1
  <2>1. due \in Int /\ last \in Int
    BY <1>1
  <2>2. \A a, b \in Int : Cardinality(a..b) = IF a > b THEN 0 ELSE b - a + 1
    BY FS_Interval
  <2>3. QED
    BY <2>1, <2>2
<1>14. due <= last + 1
  <2>1. CASE due = last + 1
    BY <1>1, <2>1
  <2>2. CASE \E i \in K : number[i] = last
    BY <1>1, <1>5, <1>8, <2>2
  <2>3. QED
    BY <1>7, <2>1, <2>2
<1>15. due + Cardinality(K) = last + 1
  BY <1>1, <1>12, <1>13, <1>14
<1>16. QED
  BY <1>15 DEF due, K, last

\* No listener is skipped: one that has joined an emitter's events lags behind by
\* what is queued for it and the event being raised, no more and no less.
THEOREM Skipping == Spec => []NoneSkipped
<1>1. ASSUME IInv, NEW l \in alive, NEW e \in Emitters, next[l][e] > 0, l \in connected
      PROVE  LET late == IF \E i \in DOMAIN todo[e] : todo[e][i] = l THEN 1 ELSE 0
             IN next[l][e] + Cardinality(Pending(l, e)) + late = raised[e] + 1
  <2>1. Joined(l, e)
    BY <1>1 DEF IInv, SlotsInv, Joined
  <2>2. next[l][e] + Cardinality(Pending(l, e)) = Posted(l, e) + 1
    BY <1>1, <2>1, PendingCount
  <2> DEFINE late == IF \E i \in DOMAIN todo[e] : todo[e][i] = l THEN 1 ELSE 0
  <2>3. Posted(l, e) = raised[e] - late /\ late \in Int
    BY <1>1 DEF Posted, Elements, IInv, TypeOK
  <2>4. raised[e] \in Int
    BY <1>1 DEF IInv, TypeOK
  <2> HIDE DEF late
  <2>5. next[l][e] + Cardinality(Pending(l, e)) + late = raised[e] + 1
    BY <2>2, <2>3, <2>4
  <2>6. QED
    BY <2>5 DEF late
<1>2. IInv => NoneSkipped
  BY <1>1 DEF NoneSkipped
<1>3. QED
  BY <1>2, Invariance, PTL

=============================================================================
