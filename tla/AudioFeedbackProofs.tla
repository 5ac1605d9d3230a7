------------------------- MODULE AudioFeedbackProofs -------------------------
(***************************************************************************)
(* The engine plays what is active, for any media, slots and threads.      *)
(*                                                                         *)
(* An id is settled when nobody owes it a request, no request for it is    *)
(* ahead of the update thread, and it has a source exactly when its node   *)
(* is active, but for what lost and unheard excuse.  Between the look at   *)
(* the activity and the source given or taken, what the update thread      *)
(* decided stands for the source.                                          *)
(***************************************************************************)
EXTENDS AudioFeedback, FiniteSetTheorems, WellFoundedInduction, TLAPS

Deciding(m) == update.at \in {"creating", "deleting"} /\ Request = m

\* A request for m from place i of the queue on.
From(m, i) == \E j \in i..Len(pending) : pending[j] = m

NoDue(m) == \A t \in Threads : call[t].due # m

\* The source m has, or the one that it will have, is the one it should have.
SourceRight(m) ==
  /\ HasSource(m) => Audible(m) \/ m \in lost
  /\ Audible(m) => HasSource(m) \/ m \in unheard

DecisionRight(m) ==
  /\ update.at = "creating" => Audible(m) \/ m \in lost
  /\ Audible(m) => update.at = "creating" \/ m \in unheard

Settled(m) ==
  NoDue(m) =>
    IF Deciding(m)
    THEN From(m, update.next + 1) \/ DecisionRight(m)
    ELSE From(m, update.next) \/ SourceRight(m)

AllSettled == \A m \in Ids : Settled(m)

\* A medium that is imported starts silent.
AbsentSilent == \A m \in Ids \ nodes : activity[m] = 0

\* The plugin is told of a node that is there.
HoverPresent == call[gui].op = "hover" => call[gui].todo \subseteq nodes

UpdatePlace ==
  /\ update.at = "asleep" => update.next = 1
  /\ update.at \in {"creating", "deleting"} => update.next \in 1..Len(pending)

\* The inductive invariant.
IInv == TypeOK /\ AbsentSilent /\ HoverPresent /\ UpdatePlace /\ SlotsAgree /\ AllSettled

-----------------------------------------------------------------------------
(* The steps, and calls.                                                   *)

CallSteps(t) == Mute(t) \/ (\E m \in Ids : Click(t, m) \/ Loop(t, m)) \/ Proceed(t)
GuiSteps ==
  \/ \E m \in Ids : HoverOn(m) \/ HoverOutOfView(m) \/ HoverOff(m) \/ HoverEnd(m)
  \/ Clean \/ Disable \/ Destroy \/ Import

LEMMA NextSteps == Next => Update \/ GuiSteps \/ \E t \in Threads : CallSteps(t)
  BY Zenon DEF Next, GuiSteps, CallSteps, ProceedGui, Threads

LEMMA IdsNat ==
  /\ Ids \subseteq Nat /\ NoNode \notin Ids /\ Free \notin Ids /\ Synchro \notin Ids
  /\ Free # Synchro /\ 0 \in Slots /\ Slots \subseteq Nat /\ gui \in Threads
  BY AudioCountsAssumption DEF Ids, NoNode, Free, Synchro, Slots, Threads

LEMMA CallFields ==
  /\ Idle.op = "idle" /\ Idle.todo = {} /\ Idle.due = NoNode
  /\ \A op, ids : Start(op, ids).op = op /\ Start(op, ids).todo = ids
                  /\ Start(op, ids).due = NoNode
  /\ \A op, m : Due(op, m).op = op /\ Due(op, m).todo = {} /\ Due(op, m).due = m
  BY DEF Idle, Start, Due

LEMMA CallTypes ==
  /\ Idle \in Call
  /\ \A op \in {"hover", "mute", "clean", "disable"} : \A ids \in SUBSET Ids :
       Start(op, ids) \in Call
  /\ \A op \in {"click", "hover"} : \A m \in Ids : Due(op, m) \in Call
  BY DEF Idle, Start, Due, Call

LEMMA CallParts ==
  \A c \in Call : c.todo \in SUBSET Ids /\ c.due \in Ids \cup {NoNode}
  BY DEF Call

LEMMA MinIn ==
  ASSUME NEW S \in SUBSET Nat, S # {}
  PROVE  Min(S) \in S
<1>1. \E x \in S : \A y \in S : <<y, x>> \notin OpToRel(<, Nat)
  BY NatLessThanWellFounded, WFMin
<1>2. \A x, y \in Nat : <<y, x>> \notin OpToRel(<, Nat) => x <= y
  BY DEF OpToRel
<1>3. \E x \in S : \A y \in S : x <= y
  BY <1>1, <1>2
<1>4. QED
  BY <1>3 DEF Min

\* What a step does to the calls: thread t goes on with x.
Goes(t, x) == call' = [call EXCEPT ![t] = x]

LEMMA GoesOn ==
  ASSUME TypeOK, NEW t \in Threads, NEW x, Goes(t, x)
  PROVE  /\ call'[t] = x /\ \A u \in Threads : u # t => call'[u] = call[u]
         /\ x \in Call => call' \in [Threads -> Call]
  BY DEF Goes, TypeOK

\* Each step of a call, by what it makes of the call.
LEMMA MuteNextGoes ==
  ASSUME TypeOK, NEW t \in Threads, MuteNext(t)
  PROVE  \E m \in Ids, x \in Call :
           /\ Goes(t, x) /\ x.due = m /\ x.op = call[t].op /\ x.todo \subseteq call[t].todo
           /\ activity' = [activity EXCEPT ![m] = 0]
<1>1. call[t] \in Call /\ call[t].todo \in SUBSET Ids
  BY CallParts DEF TypeOK
<1>2. PICK m \in Ids : m = Min(call[t].todo)
  BY <1>1, MinIn, IdsNat DEF MuteNext
<1>3. PICK ids \in SUBSET Ids : ids = call[t].todo \ {m}
  BY <1>1
<1> DEFINE x == [call[t] EXCEPT !.todo = ids, !.due = m]
<1>4. Goes(t, x) /\ activity' = [activity EXCEPT ![m] = 0]
  BY <1>2, <1>3 DEF MuteNext, Goes
<1>5. x \in Call /\ x.due = m /\ x.op = call[t].op /\ x.todo = ids
  BY <1>1 DEF Call
<1>6. ids \subseteq call[t].todo
  BY <1>3
<1> HIDE DEF x
<1>7. QED
  BY <1>4, <1>5, <1>6

LEMMA QueueGoes ==
  ASSUME TypeOK, NEW t \in Threads, Queue(t)
  PROVE  /\ call[t].due \in Ids
         /\ \E x \in Call :
              /\ Goes(t, x) /\ x.due = NoNode
              /\ x = Idle \/ (x.op = call[t].op /\ x.todo = call[t].todo)
<1> DEFINE x == IF call[t].op = "click" THEN Idle ELSE [call[t] EXCEPT !.due = NoNode]
<1>1. call[t] \in Call
  BY DEF TypeOK
<1>2. call[t].due \in Ids
  BY <1>1, CallParts DEF Queue
<1>3. Goes(t, x)
  BY DEF Queue, Goes
<1>4. x \in Call /\ x.due = NoNode
      /\ (x = Idle \/ (x.op = call[t].op /\ x.todo = call[t].todo))
  <2>1. CASE call[t].op = "click"
    <3>1. x = Idle
      BY <2>1, Zenon
    <3> HIDE DEF x
    <3>2. QED
      BY <3>1 DEF Idle, Call
  <2>2. CASE call[t].op # "click"
    <3>1. x = [call[t] EXCEPT !.due = NoNode]
      BY <2>2, Zenon
    <3> HIDE DEF x
    <3>2. NoNode \in Ids \cup {NoNode}
      OBVIOUS
    <3>3. QED
      BY <1>1, <3>1, <3>2 DEF Call
  <2>3. QED
    BY <2>1, <2>2
<1>5. QED
  BY <1>2, <1>3, <1>4

LEMMA MuteAgainGoes ==
  ASSUME TypeOK, NEW t \in Threads, MuteAgain(t)
  PROVE  \E x \in Call : Goes(t, x) /\ x.due = NoNode /\ x.op \in {"mute", "clean", "disable"}
<1>1. call[t] \in Call /\ nodes \in SUBSET Ids
  BY DEF TypeOK
<1>2. Goes(t, [call[t] EXCEPT !.todo = nodes])
  BY DEF MuteAgain, Goes
<1>3. call[t].due = NoNode /\ call[t].op \in {"mute", "clean", "disable"}
  BY CallFields DEF MuteAgain, Through, Muting
<1>4. QED
  <2>1. PICK x \in Call : x = [call[t] EXCEPT !.todo = nodes]
    BY <1>1 DEF Call
  <2>2. x.due = NoNode /\ x.op \in {"mute", "clean", "disable"}
    BY <1>1, <1>3, <2>1 DEF Call
  <2>3. QED
    BY <1>2, <2>1, <2>2

-----------------------------------------------------------------------------
(* Types.                                                                  *)

UpdateType == [at : {"asleep", "reading", "creating", "deleting"}, next : Nat \ {0}]

LEMMA UpdateFields ==
  /\ Asleep \in UpdateType /\ Asleep.at = "asleep" /\ Asleep.next = 1
  /\ [Asleep EXCEPT !.at = "reading"] \in UpdateType
  /\ [Asleep EXCEPT !.at = "reading"].at = "reading"
  /\ [Asleep EXCEPT !.at = "reading"].next = 1
  /\ \A u \in UpdateType : \A at \in {"creating", "deleting"} :
       /\ [u EXCEPT !.at = at] \in UpdateType
       /\ [u EXCEPT !.at = at].at = at /\ [u EXCEPT !.at = at].next = u.next
  BY DEF Asleep, UpdateType

LEMMA DoneFields ==
  ASSUME TypeOK
  PROVE  /\ Done \in UpdateType /\ Done.at = "reading" /\ Done.next = update.next + 1
         /\ update \in UpdateType /\ update.next \in Nat \ {0}
         /\ update.at \in {"asleep", "reading", "creating", "deleting"}
<1>1. update \in UpdateType
  BY DEF TypeOK, UpdateType
<1>2. /\ update.next \in Nat \ {0}
      /\ update.at \in {"asleep", "reading", "creating", "deleting"}
  BY <1>1 DEF UpdateType
<1>3. update.next + 1 \in Nat \ {0}
  BY <1>2
<1>4. QED
  BY <1>1, <1>2, <1>3 DEF Done, UpdateType

LEMMA TypeParts ==
  ASSUME nodes \subseteq Ids, activity \in [Ids -> 0..2], active \in BOOLEAN,
         call \in [Threads -> Call], pending \in Seq(Ids), update \in UpdateType,
         loop_ids \in [Slots -> Ids \cup {Free, Synchro}], active_loops \in Int,
         lost \subseteq Ids, unheard \subseteq Ids
  PROVE  TypeOK
  BY Zenon DEF TypeOK, UpdateType

LEMMA TypePartsPrime ==
  ASSUME nodes' \subseteq Ids, activity' \in [Ids -> 0..2], active' \in BOOLEAN,
         call' \in [Threads -> Call], pending' \in Seq(Ids), update' \in UpdateType,
         loop_ids' \in [Slots -> Ids \cup {Free, Synchro}], active_loops' \in Int,
         lost' \subseteq Ids, unheard' \subseteq Ids
  PROVE  TypeOK'
  BY Zenon DEF TypeOK, UpdateType

LEMMA InitType == Init => TypeOK
<1> SUFFICES ASSUME Init PROVE TypeOK
  OBVIOUS
<1>1. nodes \subseteq Ids /\ activity \in [Ids -> 0..2] /\ active \in BOOLEAN
      /\ active_loops \in Int /\ lost \subseteq Ids /\ unheard \subseteq Ids
      /\ pending \in Seq(Ids)
  <2>1. activity = [m \in Ids |-> 0] /\ active = FALSE /\ pending = <<>>
        /\ active_loops = 1 /\ lost = {} /\ unheard = {} /\ nodes \subseteq Ids
    BY Zenon DEF Init
  <2>2. activity \in [Ids -> 0..2] /\ pending \in Seq(Ids) /\ active_loops \in Int
        /\ lost \subseteq Ids /\ unheard \subseteq Ids
    BY <2>1
  <2>3. active \in BOOLEAN
    BY <2>1
  <2>4. QED
    BY <2>1, <2>2, <2>3
<1>2. call \in [Threads -> Call]
  BY CallTypes DEF Init
<1>3. update \in UpdateType
  BY UpdateFields DEF Init
<1>4. loop_ids \in [Slots -> Ids \cup {Free, Synchro}]
  <2>1. loop_ids = [s \in Slots |-> IF s = 0 THEN Synchro ELSE Free]
    BY DEF Init
  <2>2. QED
    BY <2>1
<1>5. QED
  BY <1>1, <1>2, <1>3, <1>4, TypeParts

LEMMA CallStepsType ==
  ASSUME TypeOK, NEW t \in Threads, CallSteps(t)
  PROVE  TypeOK'
<1>1. /\ nodes \subseteq Ids /\ activity \in [Ids -> 0..2] /\ pending \in Seq(Ids)
      /\ update \in UpdateType /\ loop_ids \in [Slots -> Ids \cup {Free, Synchro}]
      /\ active_loops \in Int /\ lost \subseteq Ids /\ unheard \subseteq Ids
  BY DEF TypeOK, UpdateType
<1>2. active \in BOOLEAN
  BY DEF TypeOK
<1>3. ASSUME NEW x \in Call, Goes(t, x) PROVE call' \in [Threads -> Call]
  BY <1>3, GoesOn
<1>4. /\ nodes' = nodes /\ active' = active /\ UNCHANGED engineVars
      /\ lost' = lost /\ unheard' \subseteq Ids
      /\ (activity' \in [Ids -> 0..2]) /\ pending' \in Seq(Ids) /\ call' \in [Threads -> Call]
  <2>1. CASE Mute(t)
    <3>1. Start("mute", nodes) \in Call /\ Goes(t, Start("mute", nodes))
      BY <1>1, <2>1, CallTypes DEF Mute, Goes
    <3>2. QED
      BY <1>1, <1>3, <2>1, <3>1 DEF Mute
  <2>2. ASSUME NEW m \in Ids, Click(t, m)
        PROVE  /\ nodes' = nodes /\ active' = active /\ UNCHANGED engineVars
               /\ lost' = lost /\ unheard' \subseteq Ids
               /\ (activity' \in [Ids -> 0..2]) /\ pending' \in Seq(Ids)
               /\ call' \in [Threads -> Call]
    <3>1. Due("click", m) \in Call /\ Goes(t, Due("click", m))
      BY <2>2, CallTypes DEF Click, Goes
    <3>2. activity' \in [Ids -> 0..2]
      BY <1>1, <2>2 DEF Click
    <3>3. QED
      BY <1>1, <1>3, <2>2, <3>1, <3>2 DEF Click
  <2>3. CASE MuteNext(t)
    <3>1. PICK m \in Ids, x \in Call : Goes(t, x) /\ activity' = [activity EXCEPT ![m] = 0]
      BY <2>3, MuteNextGoes
    <3>2. activity' \in [Ids -> 0..2]
      BY <1>1, <3>1
    <3>3. call' \in [Threads -> Call]
      BY <1>3, <3>1
    <3>4. QED
      BY <1>1, <2>3, <3>2, <3>3 DEF MuteNext
  <2>4. CASE Queue(t)
    <3>1. PICK x \in Call : Goes(t, x)
      BY <2>4, QueueGoes
    <3>2. call[t].due \in Ids
      BY <2>4, QueueGoes
    <3>3. pending' \in Seq(Ids)
      BY <1>1, <2>4, <3>2 DEF Queue
    <3>4. QED
      BY <1>1, <1>3, <2>4, <3>1, <3>3 DEF Queue
  <2>5. CASE MuteAgain(t)
    <3>1. PICK x \in Call : Goes(t, x)
      BY <2>5, MuteAgainGoes
    <3>2. QED
      BY <1>1, <1>3, <2>5, <3>1 DEF MuteAgain
  <2>6. CASE MuteEnd(t)
    <3>1. Goes(t, Idle)
      BY <2>6 DEF MuteEnd, Goes
    <3>2. QED
      BY <1>1, <1>3, <2>6, <3>1, CallTypes DEF MuteEnd
  <2>7. ASSUME NEW m \in Ids, Loop(t, m)
        PROVE  /\ nodes' = nodes /\ active' = active /\ UNCHANGED engineVars /\ lost' = lost
               /\ unheard' \subseteq Ids /\ (activity' \in [Ids -> 0..2]) /\ pending' \in Seq(Ids)
               /\ call' \in [Threads -> Call]
    <3>1. activity' \in [Ids -> 0..2] /\ unheard' \subseteq Ids
      BY <1>1, <2>7 DEF Loop, SetByPlugin
    <3>2. call' \in [Threads -> Call]
      BY <2>7 DEF Loop, TypeOK
    <3>3. QED
      BY <1>1, <2>7, <3>1, <3>2 DEF Loop, SetByPlugin
  <2>8. QED
    BY <2>1, <2>2, <2>3, <2>4, <2>5, <2>6, <2>7 DEF CallSteps, Proceed
<1>5. update' = update /\ loop_ids' = loop_ids /\ active_loops' = active_loops
  BY <1>4 DEF engineVars
<1>6. active' \in BOOLEAN
  BY <1>2, <1>4
<1>7. QED
  BY <1>1, <1>4, <1>5, <1>6, TypePartsPrime

\* A remote's call that goes on after the nodes are destroyed, or does not.
LEMMA DestroyCalls ==
  ASSUME TypeOK, Destroy
  PROVE  /\ call' \in [Threads -> Call] /\ call'[gui] = Idle
         /\ \A t \in Threads : call'[t].due \in {call[t].due, NoNode}
<1>1. PICK survivors \in SUBSET Remotes :
        call' = [t \in Threads |-> IF t \in survivors THEN [call[t] EXCEPT !.todo = {}] ELSE Idle]
  BY DEF Destroy
<1>2. ASSUME NEW t \in Threads
      PROVE  call'[t] \in Call /\ call'[t].due \in {call[t].due, NoNode}
  <2>1. CASE t \in survivors
    <3>1. call[t] \in Call /\ call'[t] = [call[t] EXCEPT !.todo = {}]
      BY <1>1, <2>1 DEF TypeOK
    <3>2. QED
      BY <3>1 DEF Call
  <2>2. CASE t \notin survivors
    <3>1. call'[t] = Idle
      BY <1>1, <2>2
    <3>2. QED
      BY <3>1, CallFields, CallTypes
  <2>3. QED
    BY <2>1, <2>2
<1>3. call'[gui] = Idle
  BY <1>1, ThreadsAssumption, IdsNat
<1>4. call' \in [Threads -> Call]
  BY <1>1, <1>2
<1>5. QED
  BY <1>2, <1>3, <1>4

LEMMA GuiStepsType ==
  ASSUME TypeOK, GuiSteps
  PROVE  TypeOK'
<1>1. /\ nodes \subseteq Ids /\ activity \in [Ids -> 0..2] /\ pending \in Seq(Ids)
      /\ update \in UpdateType /\ loop_ids \in [Slots -> Ids \cup {Free, Synchro}]
      /\ active_loops \in Int /\ lost \subseteq Ids /\ unheard \subseteq Ids
  BY DEF TypeOK, UpdateType
<1>2. active \in BOOLEAN
  BY DEF TypeOK
<1>3. ASSUME NEW x \in Call, Goes(gui, x) PROVE call' \in [Threads -> Call]
  BY <1>3, GoesOn, IdsNat
<1> DEFINE Rest == UNCHANGED pending /\ UNCHANGED engineVars
           Typed == /\ nodes' \subseteq Ids /\ activity' \in [Ids -> 0..2]
                    /\ call' \in [Threads -> Call] /\ lost' \subseteq Ids /\ unheard' \subseteq Ids
<1>4. Rest /\ Typed /\ active' \in BOOLEAN
  <2>1. ASSUME NEW m \in Ids, HoverOn(m) PROVE Rest /\ Typed /\ active' \in BOOLEAN
    <3> DEFINE x == IF activity[m] = 0 THEN [Due("hover", m) EXCEPT !.todo = {m}]
                    ELSE Start("hover", {m})
    <3>1. x \in Call
      BY DEF Due, Start, Idle, Call
    <3>2. Goes(gui, x)
      BY <2>1 DEF HoverOn, Goes
    <3>3. activity' \in [Ids -> 0..2]
      BY <1>1, <2>1 DEF HoverOn
    <3>4. Rest /\ nodes' = nodes /\ active' = active /\ lost' = lost /\ unheard' = unheard
      BY <2>1 DEF HoverOn
    <3> HIDE DEF x
    <3>5. QED
      BY <1>1, <1>2, <1>3, <3>1, <3>2, <3>3, <3>4
  <2>2. ASSUME NEW m \in Ids, HoverOff(m) PROVE Rest /\ Typed /\ active' \in BOOLEAN
    <3>1. Goes(gui, Due("click", m)) /\ activity' \in [Ids -> 0..2]
      BY <1>1, <2>2 DEF HoverOff, Goes
    <3>2. Rest /\ nodes' = nodes /\ active' = active /\ lost' = lost /\ unheard' = unheard
      BY <2>2 DEF HoverOff
    <3>3. QED
      BY <1>1, <1>2, <1>3, <3>1, <3>2, CallTypes
  <2>3. ASSUME NEW m \in Ids, HoverEnd(m) PROVE Rest /\ Typed /\ active' \in BOOLEAN
    <3>1. Goes(gui, Idle) /\ activity' \in [Ids -> 0..2] /\ unheard' \subseteq Ids
      BY <1>1, <2>3 DEF HoverEnd, SetByPlugin, Goes
    <3>2. Rest /\ nodes' = nodes /\ active' = active /\ lost' = lost
      BY <2>3 DEF HoverEnd, SetByPlugin
    <3>3. QED
      BY <1>1, <1>2, <1>3, <3>1, <3>2, CallTypes
  <2>4. CASE Clean
    <3>1. /\ Goes(gui, Start("clean", nodes)) /\ Rest
          /\ UNCHANGED <<nodes, activity, active, lost, unheard>>
      BY <2>4 DEF Clean, Goes
    <3>2. Start("clean", nodes) \in Call
      BY <1>1, CallTypes
    <3>3. QED
      BY <1>1, <1>2, <1>3, <3>1, <3>2
  <2>5. CASE Disable
    <3>1. Goes(gui, Start("disable", nodes)) /\ Rest /\ UNCHANGED <<nodes, activity, lost, unheard>>
      BY <2>5 DEF Disable, Goes
    <3>2. Start("disable", nodes) \in Call
      BY <1>1, CallTypes
    <3>3. active' \in BOOLEAN
      BY <2>5 DEF Disable
    <3>4. QED
      BY <1>1, <1>3, <3>1, <3>2, <3>3
  <2>6. CASE Destroy
    <3>1. /\ Rest /\ nodes' \subseteq Ids /\ activity' \in [Ids -> 0..2]
          /\ lost' \subseteq Ids /\ unheard' \subseteq Ids
      BY <1>1, <2>6 DEF Destroy
    <3>2. active' \in BOOLEAN
      BY <1>2, <2>6 DEF Destroy
    <3>3. QED
      BY <2>6, <3>1, <3>2, DestroyCalls
  <2>7. CASE Import
    <3>1. PICK n \in Ids : nodes' = 0..n
      BY <2>7 DEF Import
    <3>2. nodes' \subseteq Ids
      BY <3>1, AudioCountsAssumption DEF Ids
    <3>3. Rest /\ UNCHANGED <<activity, call, lost, unheard>>
      BY <2>7 DEF Import
    <3>4. active' \in BOOLEAN
      BY <2>7 DEF Import
    <3>5. call \in [Threads -> Call]
      BY DEF TypeOK
    <3>6. QED
      BY <1>1, <3>2, <3>3, <3>4, <3>5
  <2>8. ASSUME NEW m \in Ids, HoverOutOfView(m) PROVE Rest /\ Typed /\ active' \in BOOLEAN
    <3>1. Goes(gui, Start("hover", {m})) /\ Start("hover", {m}) \in Call
      BY <2>8, CallTypes DEF HoverOutOfView, Goes
    <3>2. Rest /\ UNCHANGED <<nodes, activity, active, lost, unheard>>
      BY <2>8 DEF HoverOutOfView
    <3>3. QED
      BY <1>1, <1>2, <1>3, <3>1, <3>2
  <2>9. QED
    BY <2>1, <2>2, <2>3, <2>4, <2>5, <2>6, <2>7, <2>8 DEF GuiSteps
<1>5. /\ pending' = pending /\ update' = update /\ loop_ids' = loop_ids
      /\ active_loops' = active_loops
  BY <1>4 DEF engineVars
<1>6. active' \in BOOLEAN
  BY <1>4
<1>7. QED
  BY <1>1, <1>4, <1>5, <1>6, TypePartsPrime

LEMMA UpdateSteps == Update => \/ UpdateStart \/ UpdateRead \/ UpdateEnd \/ CreateRefused
                               \/ CreateAgain \/ CreateSource \/ DeleteRefused \/ DeleteSource
  BY DEF Update

\* The request that is carried out.
LEMMA RequestIn ==
  ASSUME TypeOK, update.next \in 1..Len(pending)
  PROVE  Request \in Ids /\ Request # Free /\ Request # Synchro
  BY IdsNat DEF Request, TypeOK

\* The slot that is given, or taken.
LEMMA SlotGiven ==
  ASSUME TypeOK, SlotsAgree, CreateSource
  PROVE  \E s \in FreeSlots : loop_ids' = [loop_ids EXCEPT ![s] = Request]
<1>1. FreeSlots \subseteq Slots /\ FreeSlots \in SUBSET Nat
  BY IdsNat DEF FreeSlots, SlotsOf
<1>2. IsFiniteSet(Slots) /\ Cardinality(Slots) = SlotCount
  <2>1. 0 \in Int /\ SlotCount - 1 \in Int /\ ~(0 > SlotCount - 1) /\ SlotCount - 1 - 0 + 1 = SlotCount
    BY AudioCountsAssumption
  <2>2. QED
    BY <2>1, FS_Interval DEF Slots
<1>3. FreeSlots # {}
  <2>1. ASSUME FreeSlots = {} PROVE FALSE
    <3>1. Slots \ FreeSlots = Slots
      BY <2>1
    <3>2. active_loops = SlotCount
      BY <1>2, <3>1 DEF SlotsAgree
    <3>3. active_loops < SlotCount
      BY DEF CreateSource
    <3>4. QED
      BY <3>2, <3>3, AudioCountsAssumption
  <2>2. QED
    BY <2>1
<1>4. Min(FreeSlots) \in FreeSlots
  BY <1>1, <1>3, MinIn
<1>5. QED
  BY <1>4 DEF CreateSource

LEMMA SlotTaken ==
  ASSUME TypeOK, UpdatePlace, SlotsAgree, DeleteSource, HasSource(Request)
  PROVE  \E s \in Slots : /\ SlotsOf(Request) = {s}
                          /\ loop_ids' = [loop_ids EXCEPT ![s] = Free]
<1>1. PICK s \in Slots : loop_ids[s] = Request
  BY DEF HasSource, SlotsOf
<1>2. Request # Free
  BY RequestIn DEF UpdatePlace, DeleteSource
<1>3. SlotsOf(Request) = {s}
  BY <1>1, <1>2 DEF SlotsAgree, SlotsOf
<1>4. Max({s}) = s
  BY IdsNat DEF Max
<1>5. QED
  BY <1>3, <1>4 DEF DeleteSource

LEMMA UpdateStepsType ==
  ASSUME TypeOK, UpdatePlace, SlotsAgree, Update
  PROVE  TypeOK'
<1>1. /\ nodes \subseteq Ids /\ activity \in [Ids -> 0..2] /\ pending \in Seq(Ids)
      /\ update \in UpdateType /\ loop_ids \in [Slots -> Ids \cup {Free, Synchro}]
      /\ active_loops \in Int /\ lost \subseteq Ids /\ unheard \subseteq Ids
      /\ call \in [Threads -> Call]
  BY DEF TypeOK, UpdateType
<1>2. active \in BOOLEAN
  BY DEF TypeOK
<1> DEFINE Same == UNCHANGED <<nodes, activity, active, call>>
           Typed == /\ pending' \in Seq(Ids) /\ update' \in UpdateType
                    /\ loop_ids' \in [Slots -> Ids \cup {Free, Synchro}]
                    /\ active_loops' \in Int /\ lost' \subseteq Ids /\ unheard' \subseteq Ids
<1>3. Same /\ Typed
  <2>1. CASE UpdateStart
    BY <1>1, <2>1, UpdateFields DEF UpdateStart
  <2>2. CASE UpdateRead
    <3>1. update' \in UpdateType
      <4>1. PICK at \in {"creating", "deleting"} : update' = [update EXCEPT !.at = at]
        BY <2>2 DEF UpdateRead
      <4>2. QED
        BY <1>1, <4>1, UpdateFields
    <3>2. QED
      BY <1>1, <2>2, <3>1 DEF UpdateRead
  <2>3. CASE UpdateEnd
    BY <1>1, <2>3, UpdateFields DEF UpdateEnd
  <2>4. CASE CreateRefused \/ DeleteRefused
    <3>1. Request \in Ids
      BY <2>4, RequestIn DEF CreateRefused, DeleteRefused, UpdatePlace
    <3>2. QED
      BY <1>1, <2>4, <3>1, DoneFields DEF CreateRefused, DeleteRefused
  <2>5. CASE CreateAgain
    BY <1>1, <2>5, DoneFields DEF CreateAgain
  <2>6. CASE CreateSource
    <3>1. Request \in Ids
      BY <2>6, RequestIn DEF CreateSource, UpdatePlace
    <3>2. loop_ids' \in [Slots -> Ids \cup {Free, Synchro}]
      BY <1>1, <2>6, <3>1, SlotGiven
    <3>3. active_loops' \in Int
      BY <1>1, <2>6 DEF CreateSource
    <3>4. QED
      BY <1>1, <2>6, <3>2, <3>3, DoneFields DEF CreateSource
  <2>7. CASE DeleteSource
    <3>1. active_loops' \in Int
      BY <1>1, <2>7 DEF DeleteSource
    <3>2. loop_ids' \in [Slots -> Ids \cup {Free, Synchro}]
      <4>1. CASE HasSource(Request)
        <5>1. PICK s \in Slots : loop_ids' = [loop_ids EXCEPT ![s] = Free]
          BY <2>7, <4>1, SlotTaken, RequestIn
        <5>2. QED
          BY <1>1, <5>1
      <4>2. CASE ~HasSource(Request)
        BY <1>1, <2>7, <4>2 DEF DeleteSource
      <4>3. QED
        BY <4>1, <4>2
    <3>3. QED
      BY <1>1, <2>7, <3>1, <3>2, DoneFields DEF DeleteSource
  <2>8. QED
    BY <2>1, <2>2, <2>3, <2>4, <2>5, <2>6, <2>7, UpdateSteps
<1>4. active' \in BOOLEAN
  BY <1>2, <1>3
<1>5. QED
  BY <1>1, <1>3, <1>4, TypePartsPrime

-----------------------------------------------------------------------------
(* Places in the queue, and slots.                                         *)

LEMMA PlaceStep == IInv /\ [Next]_vars => UpdatePlace'
<1> SUFFICES ASSUME IInv, [Next]_vars PROVE UpdatePlace'
  OBVIOUS
<1>0. TypeOK /\ UpdatePlace
  BY DEF IInv
<1>1. CASE update' = update /\ (pending' = pending \/ update.at = "asleep")
  BY <1>0, <1>1 DEF UpdatePlace
<1>2. ASSUME NEW t \in Threads, CallSteps(t) PROVE UpdatePlace'
  <2>1. update' = update /\ (pending' = pending \/ update.at = "asleep")
    BY <1>2 DEF CallSteps, Mute, Click, Loop, Proceed, MuteNext, Queue, MuteAgain, MuteEnd,
       engineVars
  <2>2. QED
    BY <1>1, <2>1
<1>3. CASE GuiSteps
  <2>1. update' = update /\ pending' = pending
    BY <1>3 DEF GuiSteps, HoverOn, HoverOutOfView, HoverOff, HoverEnd, Clean, Disable, Destroy,
       Import, engineVars
  <2>2. QED
    BY <1>1, <2>1
<1>4. CASE UpdateStart \/ UpdateEnd
  BY <1>4, UpdateFields DEF UpdateStart, UpdateEnd, UpdatePlace
<1>5. CASE UpdateRead
  <2>1. PICK at \in {"creating", "deleting"} : update' = [update EXCEPT !.at = at]
    BY <1>5 DEF UpdateRead
  <2>2. update'.at = at /\ update'.next = update.next
    BY <1>0, <2>1, DoneFields, UpdateFields
  <2>3. update.next \in 1..Len(pending) /\ pending' = pending
    BY <1>0, <1>5, DoneFields DEF UpdateRead, TypeOK
  <2>4. QED
    BY <2>2, <2>3 DEF UpdatePlace
<1>6. CASE CreateRefused \/ CreateAgain \/ CreateSource \/ DeleteRefused \/ DeleteSource
  <2>1. update' = Done
    BY <1>6 DEF CreateRefused, CreateAgain, CreateSource, DeleteRefused, DeleteSource
  <2>2. QED
    BY <1>0, <2>1, DoneFields DEF UpdatePlace
<1>7. CASE UNCHANGED vars
  BY <1>1, <1>7 DEF vars, engineVars
<1>8. QED
  BY <1>2, <1>3, <1>4, <1>5, <1>6, <1>7, NextSteps, UpdateSteps

LEMMA SlotsStep == IInv /\ [Next]_vars => SlotsAgree'
<1> SUFFICES ASSUME IInv, [Next]_vars PROVE SlotsAgree'
  OBVIOUS
<1>0. TypeOK /\ UpdatePlace /\ SlotsAgree /\ loop_ids \in [Slots -> Ids \cup {Free, Synchro}]
  BY DEF IInv, TypeOK
<1>1. CASE loop_ids' = loop_ids /\ active_loops' = active_loops
  BY <1>0, <1>1 DEF SlotsAgree, FreeSlots, SlotsOf
<1>2. ASSUME NEW t \in Threads, CallSteps(t) PROVE SlotsAgree'
  <2>1. loop_ids' = loop_ids /\ active_loops' = active_loops
    BY <1>2 DEF CallSteps, Mute, Click, Loop, Proceed, MuteNext, Queue, MuteAgain, MuteEnd,
       engineVars
  <2>2. QED
    BY <1>1, <2>1
<1>3. CASE GuiSteps
  <2>1. loop_ids' = loop_ids /\ active_loops' = active_loops
    BY <1>3 DEF GuiSteps, HoverOn, HoverOutOfView, HoverOff, HoverEnd, Clean, Disable, Destroy,
       Import, engineVars
  <2>2. QED
    BY <1>1, <2>1
<1>4. CASE UpdateStart \/ UpdateRead \/ UpdateEnd \/ CreateRefused \/ CreateAgain
           \/ DeleteRefused
  BY <1>1, <1>4 DEF UpdateStart, UpdateRead, UpdateEnd, CreateRefused, CreateAgain, DeleteRefused
<1>9. IsFiniteSet(Slots \ FreeSlots)
  <2>1. IsFiniteSet(Slots)
    BY AudioCountsAssumption, FS_Interval DEF Slots
  <2>2. QED
    BY <2>1, FS_Subset
<1>5. CASE CreateSource
  <2>1. PICK s \in FreeSlots : loop_ids' = [loop_ids EXCEPT ![s] = Request]
    BY <1>0, <1>5, SlotGiven
  <2>2. /\ Request \in Ids /\ Request # Free /\ Request # Synchro
        /\ \A r \in Slots : loop_ids[r] # Request
    BY <1>0, <1>5, RequestIn DEF CreateSource, UpdatePlace, HasSource, SlotsOf
  <2>3. s \in Slots /\ loop_ids[s] = Free
    BY DEF FreeSlots, SlotsOf
  <2>4. \A r \in Slots : loop_ids'[r] = IF r = s THEN Request ELSE loop_ids[r]
    BY <1>0, <2>1, <2>3
  <2>5. Slots \ FreeSlots' = (Slots \ FreeSlots) \cup {s} /\ s \notin Slots \ FreeSlots
    BY <2>2, <2>3, <2>4 DEF FreeSlots, SlotsOf
  <2>6. active_loops' = Cardinality(Slots \ FreeSlots')
    <3>1. Cardinality(Slots \ FreeSlots') = Cardinality(Slots \ FreeSlots) + 1
      BY <1>9, <2>5, FS_AddElement
    <3>2. QED
      BY <1>0, <1>5, <3>1 DEF SlotsAgree, CreateSource
  <2>7. loop_ids'[0] = Synchro
    BY <1>0, <2>3, <2>4, IdsNat DEF SlotsAgree
  <2>8. \A r, q \in Slots : loop_ids'[r] = loop_ids'[q] /\ loop_ids'[r] # Free => r = q
    BY <1>0, <2>2, <2>4 DEF SlotsAgree
  <2>9. QED
    BY <2>6, <2>7, <2>8 DEF SlotsAgree, FreeSlots, SlotsOf
<1>6. CASE DeleteSource
  <2>1. CASE ~HasSource(Request)
    BY <1>1, <1>6, <2>1 DEF DeleteSource
  <2>2. CASE HasSource(Request)
    <3>1. PICK s \in Slots : SlotsOf(Request) = {s} /\ loop_ids' = [loop_ids EXCEPT ![s] = Free]
      BY <1>0, <1>6, <2>2, SlotTaken
    <3>2. Request # Free /\ Request # Synchro
      BY <1>0, <1>6, RequestIn DEF DeleteSource, UpdatePlace
    <3>3. loop_ids[s] = Request /\ s \in Slots \ FreeSlots
      BY <3>1, <3>2 DEF SlotsOf, FreeSlots
    <3>4. \A r \in Slots : loop_ids'[r] = IF r = s THEN Free ELSE loop_ids[r]
      BY <1>0, <3>1
    <3>5. Slots \ FreeSlots' = (Slots \ FreeSlots) \ {s}
      BY <3>3, <3>4 DEF FreeSlots, SlotsOf
    <3>6. active_loops' = Cardinality(Slots \ FreeSlots')
      <4>1. Cardinality(Slots \ FreeSlots') = Cardinality(Slots \ FreeSlots) - 1
        BY <1>9, <3>3, <3>5, FS_RemoveElement
      <4>2. QED
        BY <1>0, <1>6, <2>2, <4>1 DEF SlotsAgree, DeleteSource
    <3>7. loop_ids'[0] = Synchro
      BY <1>0, <3>2, <3>3, <3>4, IdsNat DEF SlotsAgree
    <3>8. \A r, q \in Slots : loop_ids'[r] = loop_ids'[q] /\ loop_ids'[r] # Free => r = q
      BY <1>0, <3>4 DEF SlotsAgree
    <3>9. QED
      BY <3>6, <3>7, <3>8 DEF SlotsAgree, FreeSlots, SlotsOf
  <2>3. QED
    BY <2>1, <2>2
<1>7. CASE UNCHANGED vars
  BY <1>1, <1>7 DEF vars, engineVars
<1>8. QED
  BY <1>2, <1>3, <1>4, <1>5, <1>6, <1>7, NextSteps, UpdateSteps

-----------------------------------------------------------------------------
(* Nodes.                                                                  *)

LEMMA HoverStep == IInv /\ [Next]_vars => HoverPresent'
<1> SUFFICES ASSUME IInv, [Next]_vars PROVE HoverPresent'
  OBVIOUS
<1>0. TypeOK /\ HoverPresent
  BY DEF IInv
<1>1. CASE call' = call /\ nodes \subseteq nodes'
  BY <1>0, <1>1 DEF HoverPresent
<1>2. ASSUME NEW x, Goes(gui, x), x.op = "hover" => x.todo \subseteq nodes, nodes' = nodes
      PROVE  HoverPresent'
  BY <1>0, <1>2, GoesOn, IdsNat DEF HoverPresent
<1>3. ASSUME NEW t \in Threads, NEW x, Goes(t, x), nodes' = nodes,
             x.op = "hover" => call[t].op = "hover" /\ x.todo \subseteq call[t].todo
      PROVE  HoverPresent'
  <2>1. call'[t] = x /\ \A u \in Threads : u # t => call'[u] = call[u]
    BY <1>0, <1>3, GoesOn
  <2>2. CASE t = gui
    BY <1>0, <1>3, <2>1, <2>2 DEF HoverPresent
  <2>3. CASE t # gui
    BY <1>0, <1>3, <2>1, <2>3, IdsNat DEF HoverPresent
  <2>4. QED
    BY <2>2, <2>3
<1>4. ASSUME NEW t \in Threads, CallSteps(t) PROVE HoverPresent'
  <2>1. CASE Mute(t)
    <3>1. Goes(t, Start("mute", nodes)) /\ nodes' = nodes
      BY <2>1 DEF Mute, Goes
    <3>2. QED
      BY <1>3, <3>1, CallFields
  <2>2. ASSUME NEW m \in Ids, Click(t, m) PROVE HoverPresent'
    <3>1. Goes(t, Due("click", m)) /\ nodes' = nodes
      BY <2>2 DEF Click, Goes
    <3>2. QED
      BY <1>3, <3>1, CallFields
  <2>3. CASE MuteNext(t)
    <3>1. PICK x \in Call : Goes(t, x) /\ x.op = call[t].op /\ x.todo \subseteq call[t].todo
      BY <1>0, <2>3, MuteNextGoes
    <3>2. QED
      BY <1>3, <2>3, <3>1 DEF MuteNext
  <2>4. CASE Queue(t)
    <3>1. PICK x \in Call : Goes(t, x) /\ (x = Idle \/ (x.op = call[t].op /\ x.todo = call[t].todo))
      BY <1>0, <2>4, QueueGoes
    <3>2. nodes' = nodes
      BY <2>4 DEF Queue
    <3>3. x.op = "hover" => call[t].op = "hover" /\ x.todo \subseteq call[t].todo
      BY <3>1, CallFields
    <3>4. QED
      BY <1>3, <3>1, <3>2, <3>3
  <2>5. CASE MuteAgain(t)
    <3>1. PICK x \in Call : Goes(t, x) /\ x.op \in {"mute", "clean", "disable"}
      BY <1>0, <2>5, MuteAgainGoes
    <3>2. QED
      BY <1>3, <2>5, <3>1 DEF MuteAgain
  <2>6. CASE MuteEnd(t)
    BY <1>3, <2>6, CallFields DEF MuteEnd, Goes
  <2>7. ASSUME NEW m \in Ids, Loop(t, m) PROVE HoverPresent'
    BY <1>1, <2>7 DEF Loop
  <2>8. QED
    BY <1>4, <2>1, <2>2, <2>3, <2>4, <2>5, <2>6, <2>7 DEF CallSteps, Proceed
<1>5. CASE GuiSteps
  <2>1. ASSUME NEW m \in Ids, HoverOn(m) PROVE HoverPresent'
    <3> DEFINE x == IF activity[m] = 0 THEN [Due("hover", m) EXCEPT !.todo = {m}]
                    ELSE Start("hover", {m})
    <3>1. x.todo = {m}
      BY DEF Due, Start, Idle
    <3>2. Goes(gui, x) /\ m \in nodes /\ nodes' = nodes
      BY <2>1 DEF HoverOn, Goes
    <3> HIDE DEF x
    <3>3. QED
      BY <1>2, <3>1, <3>2
  <2>2. ASSUME NEW m \in Ids, HoverOff(m) \/ HoverEnd(m) PROVE HoverPresent'
    BY <1>2, <2>2, CallFields DEF HoverOff, HoverEnd, Goes
  <2>3. CASE Clean \/ Disable
    BY <1>2, <2>3, CallFields DEF Clean, Disable, Goes
  <2>4. CASE Destroy
    BY <1>0, <2>4, DestroyCalls, CallFields DEF HoverPresent
  <2>5. CASE Import
    BY <1>1, <2>5 DEF Import
  <2>6. ASSUME NEW m \in Ids, HoverOutOfView(m) PROVE HoverPresent'
    <3>1. Goes(gui, Start("hover", {m})) /\ m \in nodes /\ nodes' = nodes
      BY <2>6 DEF HoverOutOfView, Goes
    <3>2. QED
      BY <1>2, <3>1, CallFields
  <2>7. QED
    BY <1>5, <2>1, <2>2, <2>3, <2>4, <2>5, <2>6 DEF GuiSteps
<1>6. CASE Update
  BY <1>1, <1>6 DEF Update, UpdateStart, UpdateRead, UpdateEnd, CreateRefused, CreateAgain,
     CreateSource, DeleteRefused, DeleteSource
<1>7. CASE UNCHANGED vars
  BY <1>1, <1>7 DEF vars
<1>8. QED
  BY <1>4, <1>5, <1>6, <1>7, NextSteps

LEMMA SilentStep == IInv /\ [Next]_vars => AbsentSilent'
<1> SUFFICES ASSUME IInv, [Next]_vars PROVE AbsentSilent'
  OBVIOUS
<1>0. TypeOK /\ AbsentSilent /\ HoverPresent /\ activity \in [Ids -> 0..2]
  BY DEF IInv, TypeOK
<1>1. CASE activity' = activity /\ nodes \subseteq nodes'
  BY <1>0, <1>1 DEF AbsentSilent
<1>2. ASSUME NEW m \in nodes, NEW a, activity' = [activity EXCEPT ![m] = a], nodes' = nodes
      PROVE  AbsentSilent'
  BY <1>0, <1>2 DEF AbsentSilent
<1>3. ASSUME NEW t \in Threads, CallSteps(t) PROVE AbsentSilent'
  <2>1. ASSUME NEW m \in Ids, Click(t, m) PROVE AbsentSilent'
    BY <1>2, <2>1 DEF Click
  <2>2. CASE MuteNext(t)
    <3>1. PICK m \in Ids : activity' = [activity EXCEPT ![m] = 0]
      BY <1>0, <2>2, MuteNextGoes
    <3>2. \A k \in Ids : activity'[k] \in {activity[k], 0}
      BY <1>0, <3>1
    <3>3. QED
      BY <1>0, <2>2, <3>2 DEF MuteNext, AbsentSilent
  <2>3. CASE Mute(t) \/ Queue(t) \/ MuteAgain(t) \/ MuteEnd(t)
    BY <1>1, <2>3 DEF Mute, Queue, MuteAgain, MuteEnd
  <2>4. ASSUME NEW m \in Ids, Loop(t, m) PROVE AbsentSilent'
    BY <1>2, <2>4 DEF Loop, SetByPlugin
  <2>5. QED
    BY <1>3, <2>1, <2>2, <2>3, <2>4 DEF CallSteps, Proceed
<1>4. CASE GuiSteps
  <2>1. ASSUME NEW m \in Ids, HoverOn(m) \/ HoverOff(m) PROVE AbsentSilent'
    BY <1>2, <2>1 DEF HoverOn, HoverOff
  <2>2. ASSUME NEW m \in Ids, HoverEnd(m) PROVE AbsentSilent'
    <3>1. m \in nodes
      BY <1>0, <2>2, CallFields DEF HoverEnd, HoverPresent
    <3>2. CASE SetByPlugin(m)
      BY <1>2, <2>2, <3>1, <3>2 DEF HoverEnd, SetByPlugin
    <3>3. CASE UNCHANGED activity
      BY <1>1, <2>2, <3>3 DEF HoverEnd
    <3>4. QED
      BY <2>2, <3>2, <3>3 DEF HoverEnd
  <2>3. CASE Clean \/ Disable \/ Import
    BY <1>1, <2>3 DEF Clean, Disable, Import
  <2>4. CASE Destroy
    BY <2>4 DEF Destroy, AbsentSilent
  <2>5. ASSUME NEW m \in Ids, HoverOutOfView(m) PROVE AbsentSilent'
    BY <1>1, <2>5 DEF HoverOutOfView
  <2>6. QED
    BY <1>4, <2>1, <2>2, <2>3, <2>4, <2>5 DEF GuiSteps
<1>5. CASE Update
  BY <1>1, <1>5 DEF Update, UpdateStart, UpdateRead, UpdateEnd, CreateRefused, CreateAgain,
     CreateSource, DeleteRefused, DeleteSource
<1>6. CASE UNCHANGED vars
  BY <1>1, <1>6 DEF vars
<1>7. QED
  BY <1>3, <1>4, <1>5, <1>6, NextSteps

-----------------------------------------------------------------------------
(* Sources and activity.                                                   *)

\* An id of which a step changes nothing but, perhaps, that a thread owes it a
\* request, or that it is excused.
LEMMA SameSettled ==
  ASSUME NEW m \in Ids, Settled(m), UNCHANGED <<update, pending, loop_ids>>,
         NoDue(m)' => NoDue(m), Audible(m)' <=> Audible(m),
         m \in lost => m \in lost', m \in unheard => m \in unheard'
  PROVE  Settled(m)'
<1>1. (Deciding(m)' <=> Deciding(m)) /\ (HasSource(m)' <=> HasSource(m))
  BY DEF Deciding, Request, HasSource, SlotsOf
<1>2. /\ From(m, update.next)' <=> From(m, update.next)
      /\ From(m, update.next + 1)' <=> From(m, update.next + 1)
  BY DEF From
<1>3. SourceRight(m) => SourceRight(m)'
  BY <1>1 DEF SourceRight
<1>4. DecisionRight(m) => DecisionRight(m)'
  BY DEF DecisionRight
<1>5. update' = update
  OBVIOUS
<1>6. QED
  BY <1>1, <1>2, <1>3, <1>4, <1>5, Zenon DEF Settled

\* One that a thread owes a request.
LEMMA DueSettled ==
  ASSUME NEW m \in Ids, NEW t \in Threads, call'[t].due = m
  PROVE  Settled(m)'
  BY DEF Settled, NoDue

\* A call that owes no more than before.
LEMMA SameDue ==
  ASSUME TypeOK, NEW t \in Threads, NEW x, Goes(t, x), NEW m \in Ids,
         call[t].due = m => x.due = m
  PROVE  NoDue(m)' => NoDue(m)
<1>1. call'[t] = x /\ \A u \in Threads : u # t => call'[u] = call[u]
  BY GoesOn
<1>2. QED
  BY <1>1 DEF NoDue

LEMMA SameAudible ==
  ASSUME NEW m \in Ids, nodes' = nodes, activity'[m] = activity[m]
  PROVE  Audible(m)' <=> Audible(m)
  BY DEF Audible

\* A call that changes the activity of a node, and owes it a request.
LEMMA ActsSettled ==
  ASSUME TypeOK, AllSettled, NEW t \in Threads, NEW x, Goes(t, x), NEW d \in Ids, NEW a,
         call[t].due = NoNode, x.due = d, activity' = [activity EXCEPT ![d] = a],
         nodes' = nodes, UNCHANGED <<lost, unheard, update, pending, loop_ids>>
  PROVE  AllSettled'
<1> SUFFICES ASSUME NEW m \in Ids PROVE Settled(m)'
  BY DEF AllSettled
<1>1. CASE m = d
  BY <1>1, GoesOn, DueSettled
<1>2. CASE m # d
  <2>1. activity \in [Ids -> 0..2]
    BY DEF TypeOK
  <2>2. activity'[m] = activity[m]
    BY <1>2, <2>1
  <2>3. Audible(m)' <=> Audible(m)
    BY <2>2, SameAudible
  <2>4. NoDue(m)' => NoDue(m)
    BY SameDue, IdsNat
  <2>5. QED
    BY <2>3, <2>4, SameSettled DEF AllSettled
<1>3. QED
  BY <1>1, <1>2

\* A call that changes neither activities nor the queue.
LEMMA RestSettled ==
  ASSUME TypeOK, AllSettled, NEW t \in Threads, NEW x, Goes(t, x), call[t].due = NoNode,
         UNCHANGED <<nodes, activity, lost, unheard, update, pending, loop_ids>>
  PROVE  AllSettled'
<1> SUFFICES ASSUME NEW m \in Ids PROVE Settled(m)'
  BY DEF AllSettled
<1>1. Audible(m)' <=> Audible(m)
  BY SameAudible
<1>2. NoDue(m)' => NoDue(m)
  BY SameDue, IdsNat
<1>3. QED
  BY <1>1, <1>2, SameSettled DEF AllSettled

\* Queuing, for which the update thread is asleep.
LEMMA QueueSettled ==
  ASSUME IInv, NEW t \in Threads, Queue(t)
  PROVE  AllSettled'
<1> SUFFICES ASSUME NEW m \in Ids PROVE Settled(m)'
  BY DEF AllSettled
<1>0. TypeOK /\ UpdatePlace /\ Settled(m)
  BY DEF IInv, AllSettled
<1>1. /\ update.at = "asleep" /\ update.next = 1 /\ update' = update
      /\ pending' = Append(pending, call[t].due)
      /\ UNCHANGED <<nodes, activity, loop_ids, lost, unheard>>
  BY <1>0 DEF Queue, UpdatePlace, engineVars
<1>2. PICK d \in Ids, x \in Call : d = call[t].due /\ Goes(t, x)
  BY <1>0, QueueGoes
<1>3. /\ pending \in Seq(Ids) /\ Len(pending') = Len(pending) + 1 /\ Len(pending) \in Nat
      /\ pending'[Len(pending) + 1] = d
      /\ \A i \in 1..Len(pending) : pending'[i] = pending[i]
  <2>1. pending \in Seq(Ids)
    BY <1>0 DEF TypeOK
  <2>2. QED
    BY <1>1, <1>2, <2>1
<1>4. ~Deciding(m) /\ ~Deciding(m)'
  BY <1>1 DEF Deciding
<1>5. (HasSource(m)' <=> HasSource(m)) /\ (Audible(m)' <=> Audible(m))
  BY <1>1 DEF HasSource, SlotsOf, Audible
<1>6. CASE m = d
  <2>1. From(m, update.next)'
    BY <1>1, <1>3, <1>6 DEF From
  <2>2. QED
    BY <1>4, <2>1 DEF Settled
<1>7. CASE m # d
  <2>1. NoDue(m)' => NoDue(m)
    BY <1>0, <1>2, <1>7, SameDue
  <2>2. From(m, update.next) => From(m, update.next)'
    BY <1>1, <1>3 DEF From
  <2>3. SourceRight(m) => SourceRight(m)'
    BY <1>1, <1>5 DEF SourceRight
  <2>4. QED
    BY <1>0, <1>4, <2>1, <2>2, <2>3, Zenon DEF Settled
<1>8. QED
  BY <1>6, <1>7

\* The plugin sets an activity and queues nothing.
LEMMA PluginSettled ==
  ASSUME TypeOK, AllSettled, NEW d \in Ids, SetByPlugin(d),
         UNCHANGED <<nodes, update, pending, loop_ids>>,
         \A m \in Ids : NoDue(m)' => NoDue(m)
  PROVE  AllSettled'
<1> SUFFICES ASSUME NEW m \in Ids PROVE Settled(m)'
  BY DEF AllSettled
<1>1. /\ activity \in [Ids -> 0..2] /\ Settled(m) /\ lost' = lost
      /\ activity' = [activity EXCEPT ![d] = IF activity[d] = 1 THEN 1 ELSE 2]
      /\ unheard' = IF activity[d] = 0 THEN unheard \cup {d} ELSE unheard
  BY DEF TypeOK, AllSettled, SetByPlugin
<1>2. CASE m = d /\ activity[d] = 0
  <2>1. m \in unheard' /\ ~Audible(m)
    BY <1>1, <1>2 DEF Audible
  <2>2. (Deciding(m)' <=> Deciding(m)) /\ (HasSource(m)' <=> HasSource(m))
    BY DEF Deciding, Request, HasSource, SlotsOf
  <2>3. /\ From(m, update.next)' <=> From(m, update.next)
        /\ From(m, update.next + 1)' <=> From(m, update.next + 1)
    BY DEF From
  <2>4. SourceRight(m) => SourceRight(m)'
    BY <1>1, <2>1, <2>2 DEF SourceRight
  <2>5. DecisionRight(m) => DecisionRight(m)'
    BY <1>1, <2>1 DEF DecisionRight
  <2>6. QED
    BY <1>1, <2>2, <2>3, <2>4, <2>5, Zenon DEF Settled
<1>3. CASE ~(m = d /\ activity[d] = 0)
  <2>1. activity'[m] > 0 <=> activity[m] > 0
    BY <1>1, <1>3
  <2>2. Audible(m)' <=> Audible(m)
    BY <2>1 DEF Audible
  <2>3. m \in unheard => m \in unheard'
    BY <1>1
  <2>4. QED
    BY <1>1, <2>2, <2>3, SameSettled
<1>4. QED
  BY <1>2, <1>3

LEMMA CallsSettled ==
  ASSUME IInv, NEW t \in Threads, CallSteps(t)
  PROVE  AllSettled'
<1>0. TypeOK /\ AllSettled
  BY DEF IInv
<1>1. CASE Mute(t)
  <2>1. /\ Goes(t, Start("mute", nodes)) /\ call[t].due = NoNode
        /\ UNCHANGED <<nodes, activity, lost, unheard, update, pending, loop_ids>>
    BY <1>1, CallFields DEF Mute, Goes, engineVars
  <2>2. QED
    BY <1>0, <2>1, RestSettled
<1>2. ASSUME NEW m \in Ids, Click(t, m) PROVE AllSettled'
  <2>1. /\ Goes(t, Due("click", m)) /\ call[t].due = NoNode
        /\ Due("click", m).due = m
        /\ activity' = [activity EXCEPT ![m] = IF activity[m] = 0 THEN 1 ELSE 0]
        /\ nodes' = nodes /\ UNCHANGED <<lost, unheard, update, pending, loop_ids>>
    BY <1>2, CallFields DEF Click, Goes, engineVars
  <2>2. PICK a : a = IF activity[m] = 0 THEN 1 ELSE 0
    OBVIOUS
  <2>3. QED
    BY <1>0, <2>1, <2>2, ActsSettled
<1>3. CASE MuteNext(t)
  <2>1. PICK m \in Ids, x \in Call :
          Goes(t, x) /\ x.due = m /\ activity' = [activity EXCEPT ![m] = 0]
    BY <1>0, <1>3, MuteNextGoes
  <2>2. /\ call[t].due = NoNode /\ nodes' = nodes
        /\ UNCHANGED <<lost, unheard, update, pending, loop_ids>>
    BY <1>3 DEF MuteNext, engineVars
  <2>3. QED
    BY <1>0, <2>1, <2>2, ActsSettled
<1>4. CASE Queue(t)
  BY <1>4, QueueSettled
<1>5. CASE MuteAgain(t)
  <2>1. PICK x \in Call : Goes(t, x)
    BY <1>0, <1>5, MuteAgainGoes
  <2>2. /\ call[t].due = NoNode
        /\ UNCHANGED <<nodes, activity, lost, unheard, update, pending, loop_ids>>
    BY <1>5, CallFields DEF MuteAgain, Through, engineVars
  <2>3. QED
    BY <1>0, <2>1, <2>2, RestSettled
<1>6. CASE MuteEnd(t)
  <2>1. /\ Goes(t, Idle) /\ call[t].due = NoNode
        /\ UNCHANGED <<nodes, activity, lost, unheard, update, pending, loop_ids>>
    BY <1>6, CallFields DEF MuteEnd, Goes, Through, engineVars
  <2>2. QED
    BY <1>0, <2>1, RestSettled
<1>7. ASSUME NEW m \in Ids, Loop(t, m) PROVE AllSettled'
  <2>1. SetByPlugin(m) /\ UNCHANGED <<nodes, call, update, pending, loop_ids>>
    BY <1>7 DEF Loop, engineVars
  <2>2. \A k \in Ids : NoDue(k)' => NoDue(k)
    BY <2>1 DEF NoDue
  <2>3. QED
    BY <1>0, <2>1, <2>2, PluginSettled
<1>8. QED
  BY <1>1, <1>2, <1>3, <1>4, <1>5, <1>6, <1>7 DEF CallSteps, Proceed

LEMMA GuiSettled ==
  ASSUME IInv, GuiSteps
  PROVE  AllSettled'
<1>0. TypeOK /\ AllSettled /\ AbsentSilent /\ activity \in [Ids -> 0..2] /\ gui \in Threads
  BY IdsNat DEF IInv, TypeOK
<1>1. ASSUME NEW m \in Ids, HoverOn(m) PROVE AllSettled'
  <2> DEFINE x == IF activity[m] = 0 THEN [Due("hover", m) EXCEPT !.todo = {m}]
                  ELSE Start("hover", {m})
  <2>1. /\ Goes(gui, x) /\ call[gui].due = NoNode /\ nodes' = nodes
        /\ UNCHANGED <<lost, unheard, update, pending, loop_ids>>
        /\ activity' = [activity EXCEPT ![m] = IF activity[m] = 0 THEN 2 ELSE activity[m]]
    BY <1>1, CallFields DEF HoverOn, Goes, engineVars
  <2>2. CASE activity[m] = 0
    <3>1. x.due = m
      BY <2>2 DEF Due, Idle
    <3>2. activity' = [activity EXCEPT ![m] = 2]
      BY <2>1, <2>2
    <3> HIDE DEF x
    <3>3. QED
      <4>1. /\ Goes(gui, x) /\ call[gui].due = NoNode /\ nodes' = nodes
            /\ UNCHANGED <<lost, unheard, update, pending, loop_ids>>
        BY <2>1
      <4>2. QED
        BY <1>0, <3>1, <3>2, <4>1, ActsSettled
  <2>3. CASE activity[m] # 0
    <3>1. activity' = activity
      BY <1>0, <2>1, <2>3
    <3> HIDE DEF x
    <3>2. QED
      BY <1>0, <2>1, <3>1, RestSettled
  <2>4. QED
    BY <2>2, <2>3
<1>2. ASSUME NEW m \in Ids, HoverOff(m) PROVE AllSettled'
  <2>1. /\ Goes(gui, Due("click", m)) /\ call[gui].due = NoNode /\ Due("click", m).due = m
        /\ nodes' = nodes /\ UNCHANGED <<lost, unheard, update, pending, loop_ids>>
        /\ activity' = [activity EXCEPT ![m] = 0]
    BY <1>2, CallFields DEF HoverOff, Goes, engineVars
  <2>2. QED
    BY <1>0, <2>1, ActsSettled
<1>3. ASSUME NEW d \in Ids, HoverEnd(d) PROVE AllSettled'
  <2>1. /\ Goes(gui, Idle) /\ call[gui].due = NoNode
        /\ UNCHANGED <<nodes, update, pending, loop_ids>>
    BY <1>3, CallFields DEF HoverEnd, Goes, engineVars
  <2>2. ASSUME NEW m \in Ids PROVE NoDue(m)' => NoDue(m)
    BY <1>0, <2>1, SameDue, IdsNat
  <2>3. CASE SetByPlugin(d)
    BY <1>0, <2>1, <2>2, <2>3, PluginSettled
  <2>4. CASE UNCHANGED <<activity, lost, unheard>>
    BY <1>0, <2>1, <2>4, RestSettled
  <2>5. QED
    BY <1>3, <2>3, <2>4 DEF HoverEnd
<1>4. CASE Clean
  <2>1. /\ Goes(gui, Start("clean", nodes)) /\ call[gui].due = NoNode
        /\ UNCHANGED <<nodes, activity, lost, unheard, update, pending, loop_ids>>
    BY <1>4, CallFields DEF Clean, Goes, engineVars
  <2>2. QED
    BY <1>0, <2>1, RestSettled
<1>5. CASE Disable
  <2>1. /\ Goes(gui, Start("disable", nodes)) /\ call[gui].due = NoNode
        /\ UNCHANGED <<nodes, activity, lost, unheard, update, pending, loop_ids>>
    BY <1>5, CallFields DEF Disable, Goes, Through, engineVars
  <2>2. QED
    BY <1>0, <2>1, RestSettled
<1>6. CASE Destroy
  <2>1. /\ nodes' = {} /\ UNCHANGED <<update, pending, loop_ids>>
        /\ lost' = lost \cup {m \in Ids : HasSource(m) \/ BeingCreated(m)}
    BY <1>6 DEF Destroy, engineVars
  <2>2. ASSUME NEW m \in Ids PROVE Settled(m)'
    <3>1. /\ HasSource(m)' => m \in lost'
          /\ Deciding(m)' /\ update'.at = "creating" => m \in lost'
      BY <2>1 DEF HasSource, SlotsOf, BeingCreated, Deciding, Request
    <3>2. ~Audible(m)'
      BY <2>1 DEF Audible
    <3>3. SourceRight(m)' /\ (Deciding(m)' => DecisionRight(m)')
      BY <3>1, <3>2 DEF SourceRight, DecisionRight
    <3>4. QED
      BY <3>3 DEF Settled
  <2>3. QED
    BY <2>2 DEF AllSettled
<1>7. CASE Import
  <2>1. nodes = {} /\ UNCHANGED <<activity, call, lost, unheard, update, pending, loop_ids>>
    BY <1>7 DEF Import, engineVars
  <2>2. ASSUME NEW m \in Ids PROVE Settled(m)'
    <3>1. ~Audible(m)
      BY <2>1 DEF Audible
    <3>2. ~Audible(m)'
      <4>1. activity[m] = 0
        BY <1>0, <2>1 DEF AbsentSilent
      <4>2. activity'[m] = 0
        BY <2>1, <4>1
      <4>3. QED
        BY <4>2 DEF Audible
    <3>3. NoDue(m)' => NoDue(m)
      BY <2>1 DEF NoDue
    <3>4. QED
      BY <1>0, <2>1, <2>2, <3>1, <3>2, <3>3, SameSettled DEF AllSettled
  <2>3. QED
    BY <2>1, <2>2 DEF AllSettled
<1>8. ASSUME NEW m \in Ids, HoverOutOfView(m) PROVE AllSettled'
  <2>1. /\ Goes(gui, Start("hover", {m})) /\ call[gui].due = NoNode
        /\ UNCHANGED <<nodes, activity, lost, unheard, update, pending, loop_ids>>
    BY <1>8, CallFields DEF HoverOutOfView, Goes, engineVars
  <2>2. QED
    BY <1>0, <2>1, RestSettled
<1>9. QED
  BY <1>1, <1>2, <1>3, <1>4, <1>5, <1>6, <1>7, <1>8 DEF GuiSteps

\* The request of Request is carried out: it has the source that was decided, or
\* is excused.
LEMMA DoneSettled ==
  ASSUME TypeOK, AllSettled, update' = Done, NEW m \in Ids,
         update.at \in {"creating", "deleting"}, UpdatePlace,
         UNCHANGED <<nodes, activity, call, pending>>,
         m = Request /\ DecisionRight(m) => SourceRight(m)',
         m # Request /\ SourceRight(m) => SourceRight(m)'
  PROVE  Settled(m)'
<1>1. Settled(m) /\ update.next \in Nat /\ update.next + 1 \in Nat
  BY DoneFields DEF AllSettled
<1>2. update'.next = update.next + 1 /\ ~Deciding(m)'
  BY DoneFields DEF Deciding
<1>3. NoDue(m)' <=> NoDue(m)
  BY DEF NoDue
<1>4. From(m, update.next)' <=> From(m, update.next + 1)
  BY <1>2 DEF From
<1>5. CASE m = Request
  <2>1. Deciding(m)
    BY <1>5 DEF Deciding
  <2>2. QED
    BY <1>1, <1>2, <1>3, <1>4, <1>5, <2>1, Zenon DEF Settled
<1>6. CASE m # Request
  <2>1. ~Deciding(m)
    BY <1>6 DEF Deciding
  <2>2. From(m, update.next) => From(m, update.next + 1)
    <3>1. ASSUME NEW j \in update.next..Len(pending), pending[j] = m
          PROVE  j \in update.next + 1..Len(pending)
      <4>1. j # update.next
        BY <1>6, <3>1 DEF Request
      <4>2. Len(pending) \in Nat
        BY DEF TypeOK
      <4>3. QED
        BY <1>1, <4>1, <4>2
    <3>2. QED
      BY <3>1 DEF From
  <2>3. QED
    BY <1>1, <1>2, <1>3, <1>4, <1>6, <2>1, <2>2, Zenon DEF Settled
<1>7. QED
  BY <1>5, <1>6

LEMMA UpdateSettled ==
  ASSUME IInv, Update
  PROVE  AllSettled'
<1>0. TypeOK /\ UpdatePlace /\ SlotsAgree /\ AllSettled
  BY DEF IInv
<1>1. loop_ids \in [Slots -> Ids \cup {Free, Synchro}]
  BY <1>0 DEF TypeOK
<1>2. CASE UpdateStart
  <2>1. /\ update.at = "asleep" /\ update.next = 1 /\ update'.at = "reading" /\ update'.next = 1
        /\ UNCHANGED <<nodes, activity, call, pending, loop_ids, lost, unheard>>
    BY <1>0, <1>2, UpdateFields DEF UpdateStart, UpdatePlace
  <2>2. ASSUME NEW m \in Ids PROVE Settled(m)'
    <3>1. ~Deciding(m) /\ ~Deciding(m)'
      BY <2>1 DEF Deciding
    <3>2. /\ From(m, update.next)' <=> From(m, update.next)
          /\ NoDue(m)' <=> NoDue(m)
          /\ SourceRight(m)' <=> SourceRight(m)
      BY <2>1 DEF From, NoDue, SourceRight, HasSource, SlotsOf, Audible
    <3>3. Settled(m)
      BY <1>0 DEF AllSettled
    <3>4. QED
      BY <3>1, <3>2, <3>3, Zenon DEF Settled
  <2>3. QED
    BY <2>1, <2>2 DEF AllSettled
<1>3. CASE UpdateRead
  <2>1. PICK at \in {"creating", "deleting"} :
          /\ update' = [update EXCEPT !.at = at]
          /\ at = "creating" <=> Request \in nodes /\ activity[Request] > 0
    BY <1>3 DEF UpdateRead
  <2>2. update'.at = at /\ update'.next = update.next /\ update.at = "reading"
    BY <1>0, <1>3, <2>1, DoneFields, UpdateFields DEF UpdateRead
  <2>3. /\ UNCHANGED <<nodes, activity, call, pending, loop_ids>> /\ Request' = Request
        /\ lost' = lost \ {Request} /\ unheard' = unheard \ {Request}
    BY <1>3, <2>2 DEF UpdateRead, Request
  <2>4. ASSUME NEW m \in Ids PROVE Settled(m)'
    <3>1. CASE m = Request
      <4>1. Deciding(m)'
        BY <2>2, <2>3, <3>1 DEF Deciding
      <4>2. Audible(m)' <=> update'.at = "creating"
        BY <2>1, <2>2, <2>3, <3>1 DEF Audible
      <4>3. DecisionRight(m)'
        BY <4>2 DEF DecisionRight
      <4>4. QED
        BY <4>1, <4>3 DEF Settled
    <3>2. CASE m # Request
      <4>1. ~Deciding(m) /\ ~Deciding(m)'
        BY <2>2, <2>3, <3>2 DEF Deciding
      <4>2. /\ From(m, update.next)' <=> From(m, update.next)
            /\ NoDue(m)' <=> NoDue(m)
            /\ SourceRight(m)' <=> SourceRight(m)
        BY <2>2, <2>3, <3>2 DEF From, NoDue, SourceRight, HasSource, SlotsOf, Audible
      <4>3. Settled(m)
        BY <1>0 DEF AllSettled
      <4>4. QED
        BY <4>1, <4>2, <4>3, Zenon DEF Settled
    <3>3. QED
      BY <3>1, <3>2
  <2>5. QED
    BY <2>4 DEF AllSettled
<1>4. CASE UpdateEnd
  <2>1. /\ update.at = "reading" /\ update.next > Len(pending) /\ update'.at = "asleep"
        /\ pending' = <<>> /\ UNCHANGED <<nodes, activity, call, loop_ids, lost, unheard>>
    BY <1>4, UpdateFields DEF UpdateEnd
  <2>2. ASSUME NEW m \in Ids PROVE Settled(m)'
    <3>1. ~Deciding(m) /\ ~Deciding(m)'
      BY <2>1 DEF Deciding
    <3>2. ~From(m, update.next)
      <4>1. update.next \in Nat /\ Len(pending) \in Nat
        BY <1>0, DoneFields DEF TypeOK
      <4>2. QED
        BY <2>1, <4>1 DEF From
    <3>3. /\ NoDue(m)' <=> NoDue(m)
          /\ SourceRight(m)' <=> SourceRight(m)
      BY <2>1 DEF NoDue, SourceRight, HasSource, SlotsOf, Audible
    <3>4. Settled(m)
      BY <1>0 DEF AllSettled
    <3>5. QED
      BY <3>1, <3>2, <3>3, <3>4, Zenon DEF Settled
  <2>3. QED
    BY <2>1, <2>2 DEF AllSettled
<1>5. CASE CreateRefused
  <2>1. /\ update' = Done /\ update.at = "creating" /\ ~HasSource(Request)
        /\ lost' = lost /\ unheard' = unheard \cup {Request}
        /\ UNCHANGED <<nodes, activity, call, pending, loop_ids>>
    BY <1>5 DEF CreateRefused
  <2>2. ASSUME NEW m \in Ids PROVE Settled(m)'
    <3>1. (HasSource(m)' <=> HasSource(m)) /\ (Audible(m)' <=> Audible(m))
      BY <2>1 DEF HasSource, SlotsOf, Audible
    <3>2. m = Request => SourceRight(m)'
      BY <2>1, <3>1 DEF SourceRight
    <3>3. SourceRight(m) => SourceRight(m)'
      BY <2>1, <3>1 DEF SourceRight
    <3>4. QED
      BY <1>0, <2>1, <3>2, <3>3, DoneSettled
  <2>3. QED
    BY <2>2 DEF AllSettled
<1>6. CASE DeleteRefused
  <2>1. /\ update' = Done /\ update.at = "deleting"
        /\ unheard' = unheard /\ lost' = lost \cup {Request}
        /\ UNCHANGED <<nodes, activity, call, pending, loop_ids>>
    BY <1>6 DEF DeleteRefused
  <2>2. ASSUME NEW m \in Ids PROVE Settled(m)'
    <3>1. (HasSource(m)' <=> HasSource(m)) /\ (Audible(m)' <=> Audible(m))
      BY <2>1 DEF HasSource, SlotsOf, Audible
    <3>2. m = Request /\ DecisionRight(m) => SourceRight(m)'
      BY <2>1, <3>1 DEF SourceRight, DecisionRight
    <3>3. SourceRight(m) => SourceRight(m)'
      BY <2>1, <3>1 DEF SourceRight
    <3>4. QED
      BY <1>0, <2>1, <3>2, <3>3, DoneSettled
  <2>3. QED
    BY <2>2 DEF AllSettled
<1>7. CASE CreateAgain \/ CreateSource \/ DeleteSource
  <2>1. /\ update' = Done /\ update.at \in {"creating", "deleting"}
        /\ UNCHANGED <<nodes, activity, call, pending, lost, unheard>>
    BY <1>7 DEF CreateAgain, CreateSource, DeleteSource
  <2>2. Request \in Ids /\ Request # Free
    BY <1>0, <2>1, RequestIn DEF UpdatePlace
  <2>3. ASSUME NEW m \in Ids
        PROVE  IF m = Request THEN HasSource(m)' <=> update.at = "creating"
                              ELSE HasSource(m)' <=> HasSource(m)
    <3>1. CASE CreateAgain
      BY <3>1 DEF CreateAgain, HasSource, SlotsOf
    <3>2. CASE CreateSource
      <4>1. PICK s \in FreeSlots : loop_ids' = [loop_ids EXCEPT ![s] = Request]
        BY <1>0, <3>2, SlotGiven
      <4>2. s \in Slots /\ loop_ids[s] = Free /\ m # Free
        BY IdsNat DEF FreeSlots, SlotsOf
      <4>3. \A r \in Slots : loop_ids'[r] = IF r = s THEN Request ELSE loop_ids[r]
        BY <1>1, <4>1, <4>2
      <4>4. update.at = "creating"
        BY <3>2 DEF CreateSource
      <4>5. QED
        BY <4>2, <4>3, <4>4 DEF HasSource, SlotsOf
    <3>3. CASE DeleteSource /\ HasSource(Request)
      <4>1. PICK s \in Slots : SlotsOf(Request) = {s} /\ loop_ids' = [loop_ids EXCEPT ![s] = Free]
        BY <1>0, <3>3, SlotTaken
      <4>2. \A r \in Slots : loop_ids'[r] = IF r = s THEN Free ELSE loop_ids[r]
        BY <1>1, <4>1
      <4>3. m # Free /\ update.at = "deleting" /\ \A r \in Slots : loop_ids[r] = Request <=> r = s
        BY <3>3, <4>1, IdsNat DEF DeleteSource, SlotsOf
      <4>4. QED
        BY <4>2, <4>3 DEF HasSource, SlotsOf
    <3>4. CASE DeleteSource /\ ~HasSource(Request)
      BY <3>4 DEF DeleteSource, HasSource, SlotsOf
    <3>5. QED
      BY <1>7, <3>1, <3>2, <3>3, <3>4
  <2>4. ASSUME NEW m \in Ids PROVE Settled(m)'
    <3>1. Audible(m)' <=> Audible(m)
      BY <2>1 DEF Audible
    <3>2. m = Request /\ DecisionRight(m) => SourceRight(m)'
      BY <2>1, <2>3, <3>1 DEF SourceRight, DecisionRight
    <3>3. m # Request /\ SourceRight(m) => SourceRight(m)'
      BY <2>1, <2>3, <3>1 DEF SourceRight
    <3>4. QED
      BY <1>0, <2>1, <3>2, <3>3, DoneSettled
  <2>5. QED
    BY <2>4 DEF AllSettled
<1>8. QED
  BY <1>2, <1>3, <1>4, <1>5, <1>6, <1>7, UpdateSteps

LEMMA SettledStep == IInv /\ [Next]_vars => AllSettled'
<1> SUFFICES ASSUME IInv, [Next]_vars PROVE AllSettled'
  OBVIOUS
<1>1. CASE UNCHANGED vars
  BY <1>1 DEF IInv, vars, engineVars, AllSettled, Settled, NoDue, Deciding, Request, From,
     SourceRight, DecisionRight, Audible, HasSource, SlotsOf
<1>2. QED
  BY <1>1, CallsSettled, GuiSettled, UpdateSettled, NextSteps

-----------------------------------------------------------------------------
(* Theorems.                                                               *)

LEMMA TypeStep == IInv /\ [Next]_vars => TypeOK'
<1>1. IInv /\ UNCHANGED vars => TypeOK'
  BY DEF IInv, TypeOK, vars, engineVars
<1>2. QED
  BY <1>1, CallStepsType, GuiStepsType, UpdateStepsType, NextSteps DEF IInv

LEMMA InitInv == Init => IInv
<1> SUFFICES ASSUME Init PROVE IInv
  OBVIOUS
<1>1. TypeOK
  BY InitType
<1>2. AbsentSilent
  BY DEF Init, AbsentSilent
<1>3. HoverPresent
  BY CallFields, IdsNat DEF Init, HoverPresent
<1>4. UpdatePlace
  BY UpdateFields DEF Init, UpdatePlace
<1>5. \A s \in Slots : loop_ids[s] = IF s = 0 THEN Synchro ELSE Free
  <2>1. loop_ids = [s \in Slots |-> IF s = 0 THEN Synchro ELSE Free]
    BY DEF Init
  <2>2. QED
    BY <2>1
<1>6. SlotsAgree
  <2>1. Slots \ FreeSlots = {0}
    BY <1>5, IdsNat DEF FreeSlots, SlotsOf
  <2>2. active_loops = 1 /\ Cardinality({0}) = 1
    BY FS_Singleton DEF Init
  <2>3. \A r, s \in Slots : loop_ids[r] = loop_ids[s] /\ loop_ids[r] # Free => r = s
    BY <1>5, IdsNat
  <2>4. loop_ids[0] = Synchro
    BY <1>5, IdsNat
  <2>5. QED
    BY <2>1, <2>2, <2>3, <2>4 DEF SlotsAgree
<1>7. AllSettled
  <2>1. ASSUME NEW m \in Ids PROVE Settled(m)
    <3>1. ~Deciding(m)
      BY UpdateFields DEF Init, Deciding
    <3>2. ~HasSource(m)
      BY <1>5, IdsNat DEF HasSource, SlotsOf
    <3>3. activity[m] = 0
      BY DEF Init
    <3>4. QED
      BY <3>1, <3>2, <3>3 DEF Settled, SourceRight, Audible
  <2>2. QED
    BY <2>1 DEF AllSettled
<1>8. QED
  BY <1>1, <1>2, <1>3, <1>4, <1>6, <1>7 DEF IInv

LEMMA Invariance == Spec => []IInv
<1>1. IInv /\ [Next]_vars => IInv'
  BY TypeStep, PlaceStep, SlotsStep, HoverStep, SilentStep, SettledStep DEF IInv
<1>2. QED
  BY InitInv, <1>1, PTL DEF Spec

\* The variables of the browser's nodes, the calls and the engine keep a value of
\* their declaration, also when the nodes are destroyed under a call.
THEOREM Typing == Spec => []TypeOK
<1>1. IInv => TypeOK
  BY DEF IInv
<1>2. QED
  BY Invariance, <1>1, PTL

\* active_loops is the number of slots in use, no medium is in two, and slot 0 is the
\* tempo's: createSourceWithPosition finds the free slot it counts on.
THEOREM Slotting == Spec => []SlotsAgree
<1>1. IInv => SlotsAgree
  BY DEF IInv
<1>2. QED
  BY Invariance, <1>1, PTL

\* Once no request is due or queued, what sounds is active but for a source that
\* the engine gave up on taking or whose node was destroyed, and what is active
\* sounds but for a source that the engine gave up on giving or an activity that
\* the plugin set: whatever the GUI and any number of remotes do to the same nodes
\* in between, also when they hover out of the view or send "loop".
THEOREM Synchronization == Spec => []InSync
<1>1. ASSUME IInv, NEW m \in Ids, ~Waiting(m)
      PROVE  SourceRight(m)
  <2>1. Settled(m) /\ NoDue(m)
    BY <1>1 DEF IInv, AllSettled, Waiting, NoDue
  <2>2. \A i \in 1..Len(pending) : pending[i] # m
    BY <1>1 DEF Waiting, Range
  <2>3. update.next \in Nat \ {0} /\ Len(pending) \in Nat
    BY <1>1, DoneFields DEF IInv, TypeOK
  <2>4. ~From(m, update.next)
    BY <2>2, <2>3 DEF From
  <2>5. ~Deciding(m)
    BY <1>1, <2>2 DEF IInv, UpdatePlace, Deciding, Request
  <2>6. QED
    BY <2>1, <2>4, <2>5, Zenon DEF Settled
<1>2. IInv => InSync
  BY <1>1 DEF InSync, SourceRight
<1>3. QED
  BY Invariance, <1>2, PTL
=============================================================================
