---------------------------- MODULE AudioFeedback ----------------------------
(***************************************************************************)
(* What is heard: how clicks, pointers and the mute button make media      *)
(* active or not (core/ACMediaBrowser.cpp, core/MediaCycle.cpp), and how   *)
(* the threads of the OpenAL engine turn that into sources                 *)
(* (media/audio-engine/ACAudioFeedback.cpp and its plugin).                *)
(*                                                                         *)
(* A node's activity is 0, 1 (clicked) or 2 (hovered).  Whoever changes it *)
(* then queues the medium's id, under activity_update_mutex.  The update   *)
(* thread takes that mutex, goes through the queue, gives a source to each *)
(* medium that is active and takes it from the others, empties the queue   *)
(* and releases the mutex.  There are few sources, and slot 0 is taken by  *)
(* a silent one that gives the tempo.                                      *)
(*                                                                         *)
(* The GUI runs one call at a time; OSC messages make the same calls from  *)
(* a thread of their own.  A call is cut where it changes an activity and  *)
(* where it queues.  Which nodes a pointer hovers is left open.            *)
(***************************************************************************)
EXTENDS Integers, FiniteSetsExt, SequencesExt

CONSTANTS
  gui,         \* the thread of the GUI
  Remotes,     \* threads that receive OSC messages
  MaxMedia,    \* bound on the media in the library
  SlotCount,   \* OPENAL_NUM_BUFFERS
  MaxPending   \* bound on the ids queued

ASSUME ThreadsAssumption == gui \notin Remotes
ASSUME AudioCountsAssumption ==
  MaxMedia \in Nat \ {0} /\ SlotCount \in Nat \ {0} /\ MaxPending \in Nat \ {0}

Threads == {gui} \cup Remotes
Ids == 0 .. MaxMedia - 1
Slots == 0 .. SlotCount - 1
NoNode == -1    \* no id due
Free == -1      \* in loop_ids
Synchro == -2   \* in loop_ids

VARIABLES
  nodes,          \* the ids in mMediaNodes and in the library
  activity,       \* of each node
  active,         \* of the plugin: between enable() and disable()
  call,           \* what each thread is doing
  pending,        \* mNeedsActivityUpdateMedia
  update,         \* where the update thread is: it holds the mutex unless asleep
  loop_ids,
  active_loops,
  lost,           \* ids that may keep a source without being active, and
  unheard         \* ids that may be active without a source: until they are
                  \* next looked at.  Only InSync reads these two.

engineVars == <<update, loop_ids, active_loops>>
vars == <<nodes, activity, active, call, pending, engineVars, lost, unheard>>

Idle == [op |-> "idle", todo |-> {}, due |-> NoNode]
Start(op, ids) == [Idle EXCEPT !.op = op, !.todo = ids]
Due(op, m) == [Idle EXCEPT !.op = op, !.due = m]

Asleep == [at |-> "asleep", next |-> 1]

\* After createAudioEngine: nothing queued, and the library empty or, when the
\* plugin was added later, not.
Init ==
  /\ \E n \in 0..MaxMedia : nodes = {m \in Ids : m < n}
  /\ activity = [m \in Ids |-> 0]
  /\ active = FALSE
  /\ call = [t \in Threads |-> Idle]
  /\ pending = <<>>
  /\ update = Asleep
  /\ loop_ids = [s \in Slots |-> IF s = 0 THEN Synchro ELSE Free]
  /\ active_loops = 1
  /\ lost = {} /\ unheard = {}

SlotsOf(m) == {s \in Slots : loop_ids[s] = m}
HasSource(m) == SlotsOf(m) # {}
FreeSlots == SlotsOf(Free)

\* The update thread has seen m active, and has not given it a source yet.
BeingCreated(m) == update.at = "creating" /\ pending[update.next] = m

-----------------------------------------------------------------------------
(* The calls.  An id is due from the change of its activity to its queuing. *)

\* toggleSourceActivity(id): a click, or an OSC message about the node closest
\* to a pointer.
Click(t, m) ==
  /\ call[t] = Idle
  /\ m \in nodes
  /\ activity' = [activity EXCEPT ![m] = IF @ = 0 THEN 1 ELSE 0]
  /\ call' = [call EXCEPT ![t] = Due("click", m)]
  /\ UNCHANGED <<nodes, active, pending, engineVars, lost, unheard>>

\* setClosestNode, in its loop: a hovered node that no pointer is near stops.
HoverOff(m) ==
  /\ call[gui] = Idle
  /\ m \in nodes
  /\ activity[m] = 2
  /\ activity' = [activity EXCEPT ![m] = 0]
  /\ call' = [call EXCEPT ![gui] = Due("click", m)]
  /\ UNCHANGED <<nodes, active, pending, engineVars, lost, unheard>>

\* In the same loop: the closest node, in view, starts to play, unless it does
\* already.
HoverOn(m) ==
  /\ call[gui] = Idle
  /\ m \in nodes
  /\ activity' = [activity EXCEPT ![m] = IF @ = 0 THEN 2 ELSE @]
  /\ call' = [call EXCEPT ![gui] =
       IF activity[m] = 0 THEN [Due("hover", m) EXCEPT !.todo = {m}] ELSE Start("hover", {m})]
  /\ UNCHANGED <<nodes, active, pending, engineVars, lost, unheard>>

\* The closest node is one that is displayed, and may be of a level below the
\* browser's: setClosestNode returns before its loop, and the plugin hears "hover
\* closest node" all the same.
HoverOutOfView(m) ==
  /\ call[gui] = Idle
  /\ m \in nodes
  /\ call' = [call EXCEPT ![gui] = Start("hover", {m})]
  /\ UNCHANGED <<nodes, activity, active, pending, engineVars, lost, unheard>>

\* The plugin makes a medium play, unless it was clicked, and does not queue it.
\* What was not active before is not looked at on that account.
SetByPlugin(m) ==
  /\ activity' = [activity EXCEPT ![m] = IF @ = 1 THEN 1 ELSE 2]
  /\ unheard' = IF activity[m] = 0 THEN unheard \cup {m} ELSE unheard
  /\ UNCHANGED lost

\* The plugin hears "hover closest node": of a node that HoverOn has just made
\* active, and that another thread may have stopped since, or of one that nothing
\* was done to.  It does nothing if an OSC message has switched auto play off.
HoverEnd(m) ==
  /\ call[gui] = Start("hover", {m})
  /\ SetByPlugin(m) \/ UNCHANGED <<activity, lost, unheard>>
  /\ call' = [call EXCEPT ![gui] = Idle]
  /\ UNCHANGED <<nodes, active, pending, engineVars>>

\* The plugin's action "loop", which OSC messages can name.
Loop(t, m) ==
  /\ call[t] = Idle
  /\ m \in nodes
  /\ SetByPlugin(m)
  /\ UNCHANGED <<nodes, active, call, pending, engineVars>>

\* muteAllSources, from the GUI or from the OSC message /muteall.
Mute(t) ==
  /\ call[t] = Idle
  /\ call' = [call EXCEPT ![t] = Start("mute", nodes)]
  /\ UNCHANGED <<nodes, activity, active, pending, engineVars, lost, unheard>>

\* ACMultiMediaCycleQt::clean starts by muting, then cleans.
Clean ==
  /\ call[gui] = Idle
  /\ call' = [call EXCEPT ![gui] = Start("clean", nodes)]
  /\ UNCHANGED <<nodes, activity, active, pending, engineVars, lost, unheard>>

Muting(t) == call[t].op \in {"mute", "clean", "disable"}

\* One turn of the loop of muteAllSources, in the order of the map.
MuteNext(t) ==
  LET m == Min(call[t].todo)
  IN /\ Muting(t)
     /\ call[t].todo # {}
     /\ call[t].due = NoNode
     /\ activity' = [activity EXCEPT ![m] = 0]
     /\ call' = [call EXCEPT ![t].todo = @ \ {m}, ![t].due = m]
     /\ UNCHANGED <<nodes, active, pending, engineVars, lost, unheard>>

\* setNeedsActivityUpdateAddMedia under the mutex.
Queue(t) ==
  /\ call[t].due # NoNode
  /\ update.at = "asleep"
  /\ Len(pending) < MaxPending
  /\ pending' = Append(pending, call[t].due)
  /\ call' = [call EXCEPT ![t] = IF @.op = "click" THEN Idle ELSE [@ EXCEPT !.due = NoNode]]
  /\ UNCHANGED <<nodes, activity, active, engineVars, lost, unheard>>

Through(t, op) == call[t] = Start(op, {})

\* muteAllSources ends with the action "mute all", at which an active plugin
\* calls muteAllSources.
MutesAgain == nodes # {} /\ active

MuteAgain(t) ==
  /\ Muting(t) /\ Through(t, call[t].op)
  /\ MutesAgain
  /\ call' = [call EXCEPT ![t].todo = nodes]
  /\ UNCHANGED <<nodes, activity, active, pending, engineVars, lost, unheard>>

MuteEnd(t) ==
  /\ Through(t, "mute")
  /\ ~MutesAgain
  /\ call' = [call EXCEPT ![t] = Idle]
  /\ UNCHANGED <<nodes, activity, active, pending, engineVars, lost, unheard>>

\* cleanLibrary disables the plugin, which mutes once more.
Disable ==
  /\ Through(gui, "clean")
  /\ ~MutesAgain
  /\ active' = FALSE
  /\ call' = [call EXCEPT ![gui] = Start("disable", nodes)]
  /\ UNCHANGED <<nodes, activity, pending, engineVars, lost, unheard>>

\* The end of cleanLibrary, and cleanBrowser: the queue stays.  A remote's call
\* that still uses the nodes goes on with the id it has read, or is not heard
\* of again.
Destroy ==
  /\ Through(gui, "disable")
  /\ ~MutesAgain
  /\ nodes' = {}
  /\ activity' = [m \in Ids |-> 0]
  /\ \E survivors \in SUBSET Remotes :
       call' = [t \in Threads |-> IF t \in survivors THEN [call[t] EXCEPT !.todo = {}]
                                  ELSE Idle]
  /\ lost' = lost \cup {m \in Ids : HasSource(m) \/ BeingCreated(m)}
  /\ unheard' = {}
  /\ UNCHANGED <<active, pending, engineVars>>

\* Mutant of Import: a node too many.
ImportOneMore ==
  /\ nodes = {}
  /\ \E n \in Ids : nodes' = 0..n+1
  /\ active' = TRUE
  /\ UNCHANGED <<activity, call, pending, engineVars, lost, unheard>>

\* An import in an empty library, which ImportPipeline details; its end enables
\* the plugin.
Import ==
  /\ nodes = {}
  /\ \E n \in Ids : nodes' = 0..n
  /\ active' = TRUE
  /\ UNCHANGED <<activity, call, pending, engineVars, lost, unheard>>

-----------------------------------------------------------------------------
(* The update thread: threadAudioUpdate and processAudioUpdate.            *)

Request == pending[update.next]
Done == [at |-> "reading", next |-> update.next + 1]

\* With nothing queued the thread takes the mutex and gives it back.
UpdateStart ==
  /\ update.at = "asleep"
  /\ pending # <<>>
  /\ update' = [Asleep EXCEPT !.at = "reading"]
  /\ UNCHANGED <<nodes, activity, active, call, pending, loop_ids, active_loops,
                 lost, unheard>>

\* Mutant of UpdateRead: a medium the engine knows already is not looked at again.
UpdateReadNewOnly ==
  /\ update.at = "reading"
  /\ update.next <= Len(pending)
  /\ update' = [update EXCEPT !.at =
       IF HasSource(Request) \/ (Request \in nodes /\ activity[Request] > 0)
       THEN "creating" ELSE "deleting"]
  /\ lost' = lost \ {Request} /\ unheard' = unheard \ {Request}
  /\ UNCHANGED <<nodes, activity, active, call, pending, loop_ids, active_loops>>

UpdateRead ==
  /\ update.at = "reading"
  /\ update.next <= Len(pending)
  /\ update' = [update EXCEPT !.at =
       IF Request \in nodes /\ activity[Request] > 0 THEN "creating" ELSE "deleting"]
  /\ lost' = lost \ {Request} /\ unheard' = unheard \ {Request}
  /\ UNCHANGED <<nodes, activity, active, call, pending, loop_ids, active_loops>>

\* createSourceWithPosition without a source in the end: none left, the medium
\* gone, or its file not readable.
CreateRefused ==
  /\ update.at = "creating"
  /\ ~HasSource(Request)
  /\ unheard' = unheard \cup {Request}
  /\ update' = Done
  /\ UNCHANGED <<nodes, activity, active, call, pending, loop_ids, active_loops, lost>>

CreateAgain ==
  /\ update.at = "creating"
  /\ HasSource(Request)
  /\ update' = Done
  /\ UNCHANGED <<nodes, activity, active, call, pending, loop_ids, active_loops, lost, unheard>>

CreateSource ==
  /\ update.at = "creating"
  /\ active_loops < SlotCount
  /\ ~HasSource(Request)
  /\ Request \in nodes
  /\ loop_ids' = [loop_ids EXCEPT ![Min(FreeSlots)] = Request]
  /\ active_loops' = active_loops + 1
  /\ update' = Done
  /\ UNCHANGED <<nodes, activity, active, call, pending, lost, unheard>>

\* Mutant of DeleteSource: the slot is freed and not counted.
DeleteSourceUncounted ==
  /\ update.at = "deleting"
  /\ loop_ids' = IF HasSource(Request) THEN [loop_ids EXCEPT ![Max(SlotsOf(Request))] = Free]
                 ELSE loop_ids
  /\ update' = Done
  /\ UNCHANGED <<nodes, activity, active, call, pending, active_loops, lost, unheard>>

\* deleteSource, which gives up on an error of OpenAL.
DeleteRefused ==
  /\ update.at = "deleting"
  /\ HasSource(Request)
  /\ lost' = lost \cup {Request}
  /\ update' = Done
  /\ UNCHANGED <<nodes, activity, active, call, pending, loop_ids, active_loops, unheard>>

DeleteSource ==
  /\ update.at = "deleting"
  /\ loop_ids' = IF HasSource(Request) THEN [loop_ids EXCEPT ![Max(SlotsOf(Request))] = Free]
                 ELSE loop_ids
  /\ active_loops' = IF HasSource(Request) THEN active_loops - 1 ELSE active_loops
  /\ update' = Done
  /\ UNCHANGED <<nodes, activity, active, call, pending, lost, unheard>>

\* Mutant of UpdateEnd: the queue is not emptied.
UpdateEndKeeping ==
  /\ update.at = "reading"
  /\ update.next > Len(pending)
  /\ update' = Asleep
  /\ UNCHANGED <<nodes, activity, active, call, pending, loop_ids, active_loops, lost, unheard>>

\* setNeedsActivityUpdateRemoveMedia, and the mutex is released.
UpdateEnd ==
  /\ update.at = "reading"
  /\ update.next > Len(pending)
  /\ pending' = <<>>
  /\ update' = Asleep
  /\ UNCHANGED <<nodes, activity, active, call, loop_ids, active_loops, lost, unheard>>

Update ==
  \/ UpdateStart \/ UpdateRead \/ UpdateEnd
  \/ CreateRefused \/ CreateAgain \/ CreateSource
  \/ DeleteRefused \/ DeleteSource

-----------------------------------------------------------------------------
(* Specifications.                                                         *)

\* The steps of a call under way.
Proceed(t) == MuteNext(t) \/ Queue(t) \/ MuteAgain(t) \/ MuteEnd(t)

ProceedGui == Proceed(gui) \/ (\E m \in Ids : HoverEnd(m)) \/ Disable \/ Destroy

Next ==
  \/ \E t \in Threads : Mute(t) \/ \E m \in Ids : Click(t, m)
  \/ \E m \in Ids : HoverOn(m) \/ HoverOutOfView(m) \/ HoverOff(m)
  \/ \E t \in Remotes, m \in Ids : Loop(t, m)
  \/ Clean
  \/ Import
  \/ ProceedGui
  \/ \E t \in Remotes : Proceed(t)
  \/ Update

Spec == Init /\ [][Next]_vars

\* The threads go on, and one that waits for the mutex gets it although the
\* update thread takes it again and again.
Fairness ==
  /\ \A t \in Threads : SF_vars(Queue(t))
  /\ WF_vars(ProceedGui)
  /\ \A t \in Remotes : WF_vars(Proceed(t))
  /\ WF_vars(Update)

FairSpec == Spec /\ Fairness

-----------------------------------------------------------------------------
(* Properties.                                                             *)

Call == [op : {"idle", "click", "hover", "mute", "clean", "disable"},
         todo : SUBSET Ids, due : Ids \cup {NoNode}]

\* Every variable holds a value its C++ declaration allows.
TypeOK ==
  /\ nodes \subseteq Ids
  /\ activity \in [Ids -> 0..2]
  /\ active \in BOOLEAN
  /\ call \in [Threads -> Call]
  /\ pending \in Seq(Ids)
  /\ update \in [at : {"asleep", "reading", "creating", "deleting"}, next : Nat \ {0}]
  /\ loop_ids \in [Slots -> Ids \cup {Free, Synchro}]
  /\ active_loops \in Int
  /\ lost \subseteq Ids
  /\ unheard \subseteq Ids

\* active_loops counts the slots in use, no medium has two, and slot 0 stays
\* the tempo's.  createSourceWithPosition relies on it: it looks for a free
\* slot because active_loops says there is one, and writes at -1 otherwise.
SlotsAgree ==
  /\ active_loops = Cardinality(Slots \ FreeSlots)
  /\ \A r, s \in Slots : loop_ids[r] = loop_ids[s] /\ loop_ids[r] # Free => r = s
  /\ loop_ids[0] = Synchro

\* An id whose request has still to be carried out.
Waiting(m) == m \in Range(pending) \/ \E t \in Threads : call[t].due = m

Audible(m) == m \in nodes /\ activity[m] > 0

\* processAudioUpdate "creates or delete sources according to actions made in
\* other modules": once its requests are carried out a medium has a source
\* exactly when its node is active.  The two ways to fail have different causes.
\* A medium sounds that is not active only if the engine gave up on taking its
\* source, or its node was destroyed while it had or got one: no order of clicks,
\* hovers, mutes and remotes does that.  One that is active is silent only if the
\* engine gave up on giving it a source, or the plugin set its activity, which
\* queues nothing, while it was 0.
InSync == \A m \in Ids : Waiting(m) \/
  /\ HasSource(m) => Audible(m) \/ m \in lost
  /\ Audible(m) => HasSource(m) \/ m \in unheard

\* What is queued is taken from the queue, whatever the calls that queue more.
RequestsServed == \A m \in Ids : (m \in Range(pending)) ~> (m \notin Range(pending))

\* Muting, before leaving or cleaning, comes to an end.
MuteReturns == (call[gui].op = "mute") ~> (call[gui] = Idle)
=============================================================================
