# MediaCycle in TLA+

MediaCycle (`core/`, `libs/`, `media/`, `plugins/`, `apps/`) organises a
collection of media files: it imports them with the features that plugins
extract, clusters them, lays them out and lets the user browse and play them.
The repository has no automated tests and its README is a stub; these modules
are written from the code. They say what the parts promise each other when
import threads, the GUI thread and the listeners' threads run at the same time,
and where the code does not keep what its comments say.

## The system

| Component | State | Operations | Talks to |
|---|---|---|---|
| `ACMediaLibrary` | map id → medium, newest id, last normalised id, progress counters | import a file with its segments, normalise, clean, save and load XML, ACL and MCSL libraries, delete | called by `MediaCycle`, read by browser and renderers; no lock |
| `MediaCycle` | importing flag, size at the last full normalisation, the arguments of the next import thread | import directories (in a thread), load, clean, forward to the other parts | all; raises the signals |
| `ACEventManager`, `ACEventListener` | slots; per listener an io_service and a thread | add a listener, raise, post, handle, clean, destroy | `boost::signals2`, `boost::asio` |
| `ACMediaBrowser` | nodes with level, cluster and flag; mode, reference node, navigation history, last click; activity, pointers | initialise nodes, cluster, zoom, go back and forward, open and close neighbours, switch mode, change activity | library, neighbours manager, the plugins for clusters, neighbours and positions; called by the GUI and by OSC messages |
| `ACNeighborsManager`, `mc::Tree` | a tree of media ids, linked three times over | root, append, remove a branch, walk | the browser |
| `ACOsgBrowserRenderer`, main window, composite view | renderers under a mutex; progress bar; mouse | handlers of the signals; draw | listeners of `MediaCycle`; GUI thread |
| `ACPluginManager`, `ACPluginLibrary` | libraries, available and active plugins by media type | load, activate, remove | `MediaCycle`, browser, library |
| `ACNetworkSocket` | the server's thread, its sockets, a reply buffer | accept, receive, call back, reply, shut down | started and stopped by `MediaCycle`; clients over TCP; the callback of `apps/server-cli` uses the library |
| default configurations | plugins to load and activate | load, switch | plugin manager |
| audio engine (`ACAudioFeedback` and its plugin) | OpenAL sources, slots with their medium's id, how many are in use | an update thread creates and deletes sources, a mixing thread fills them | reads the activity of the browser's nodes through a queue of ids under a mutex |

What is hard is between them. An import runs in a thread of its own, calls the
library and the browser, and raises a signal for each new medium; the signal
posts an event on each listener's queue, and each listener handles it in yet
another thread, by when the medium may be gone. The user can clean, save, load
or start another import in the meantime. Files fail, an XML library can be
damaged half-way, segments appear in the middle of an import, and an import is
announced as finished before its thread ends. Clicks, pointers and OSC messages change
the activity of nodes first and queue their ids afterwards, under a mutex that the
audio engine's thread takes a hundred times a second. Clients of the TCP server pause,
reset or stay silent, and its thread is cancelled wherever it is.

What makes each part correct: the library keeps the ids contiguous, its segments with their
parents and its normalisation without holes; the pipeline keeps library, browser and
renderer equal once things settle, tells everybody when it is over and returns its mutex;
event delivery keeps each thread's order and skips nobody; the tree keeps its three link
structures equal; the browser keeps levels, flags and tree, which together decide what is
drawn, in agreement, and its history in order; the audio engine plays what is active, and
counts its slots right; the TCP server keeps requests and answers of different clients
apart, whole, and gives each client its turn.

## The modules

| Module | Models | Proved / checked by |
|---|---|---|
| `MediaLibrary` | `core/ACMediaLibrary` | `MediaLibraryProofs`; runs `MediaLibrary`, `MediaLibraryApi` |
| `EventBroadcast` | what event delivery promises (abstract) | refined by `EventDelivery` |
| `EventDelivery` | `core/ACEventManager`, `core/ACEventListener` | `EventDeliveryProofs`; run `EventDelivery` |
| `ImportPipeline` | importing, loading and cleaning in `core/MediaCycle.cpp`, the browser's nodes, the renderer, window and view as listeners; instantiates `MediaLibrary` | `ImportPipelineProofs`; runs `ImportPipeline*` |
| `RootedTree` | a tree as its users see it (abstract) | refined by `NeighborTree` |
| `NeighborTree` | `core/Tree`, the walk of `core/ACNeighborsManager` | `NeighborTreeProofs`; run `NeighborTree` |
| `MediaBrowser` | navigation in `core/ACMediaBrowser`, with the plugins it calls; uses `RootedTree` for the tree | `MediaBrowserProofs`; run `MediaBrowser` |
| `AudioFeedback` | the activity of nodes in `core/ACMediaBrowser`, the update thread and the slots of `media/audio-engine/ACAudioFeedback`, the audio renderer plugin | `AudioFeedbackProofs`; runs `AudioFeedback`, `AudioFeedbackMute` |
| `TcpServer` | `core/ACNetworkSocket`, starting and stopping in `core/MediaCycle`, the reply buffer of `apps/server-cli` | `TcpServerProofs`; run `TcpServer` |

`MC...` modules and the `.cfg` files give the constants their values.

**MediaLibrary.** Each public operation is one action, because the class has no lock and
gives no smaller unit to reason about; who calls which operation, and when, is
ImportPipeline's subject. A medium is its file name, its parent id, the number of segments
in its own list and whether its pre-processed features are unset, computed with statistics
that are no longer the library's ("stale") or with those it has ("current").
`media_at_import` is a pointer: an id, the null pointer, a medium that is in no map, or
dangling. Two specifications differ in who calls: `Spec` is the core, `ApiSpec` adds
operations that have no caller in the core, deletions and the normalisation of a library of
which nothing is normalised. A saved XML library leaves out media that the user has
discarded, but not the segments of one that is not; which media are discarded is open. Two
conditions of the code are not in the model because no state of the program meets them:
`isEmpty` also asks whether the first medium has features, and media are only imported or
read with features; `addMedia` refuses a medium of another type than the library's, and the
import has checked the file's type before, `readXMLConfig` the library's. Not modelled:
`deleteAllSegments`, the reader and writer plugins, and ACL and MCSL libraries. Of the
latter the writer and the reader do not agree: `ACMedia::saveACL` (`ACMedia.cpp:221-230`)
has the id of the medium commented out, and `loadACL` (398-402) reads an id first, so that
the id becomes the saved parent id and the parent id the number of segments.
`MediaCycle::importMCSLLibrary` (`MediaCycle.cpp:695-701`) then adds each medium to the
segments of the medium with that parent id, which it does not check to exist. What a load
leaves is thus decided by the numbers in the file, or is a crash; a model would have to copy
the bytes, and no property could be claimed.

**EventDelivery.** An emission copies the slots, then looks whether each one is
still connected, calls it, and the slot posts: these are separate steps, so that
cleaning the manager and other emissions come between. One signal is modelled,
with numbered events. `EventBroadcast` says what a listener may rely on: of each
emitter an unbroken run of events, in order; nothing across emitters.

**ImportPipeline.** Import threads go through `importDirectories`: scan, import a
file, normalise, make a node, raise the event, and so on, then announce the end,
clear the flag once more and return. The GUI thread starts imports, cleans (signal,
library, browser, each a step), saves, and loads XML libraries (open, element after
element, normalise, nodes and event, end). Each listener has a queue; a signal
reaches all queues in one step, which EventDelivery refines. `User` says what
the user waits for:

- `"waits"`: the import thread has ended and all events are handled;
- `"serial"`: the import has been announced as finished (the window then looks
  idle), although its thread has not returned and events may be queued;
- `"hasty"`: nothing.

Nothing in the program enforces any of these: the menus stay enabled during an
import. A property is checked for the least patient user it holds of, and where
the code says it should hold of another one there is a violation run. With a
hasty user the library is used by two threads at once, a data race on `std::map`
that has no meaningful model, so safety of the data is only checked for the others.

**NeighborTree.** Nodes are linked by lists of children, by sibling links and by
the map from values to nodes, and the code uses different ones to take values off
the map (`cleanupChildren`, along the siblings) and to free nodes (`~Node`, along
the children). The model keeps all three and follows the same ones as the code.

**MediaBrowser.** The browser's fields keep their names; of the nodes the model
keeps navigation level, cluster id and the displayed flag, and of
`mNeighborsManager` the tree that `NeighborTree` is shown to implement. An action
is a call with everything it leads to: a zoom stores the state, raises the levels,
changes the reference node and updates the display; a switch to the neighbours
mode updates it twice, as the code does. The plugins are the ones the default
configurations set, and only what they do to the browser is modelled: K-means gives each
node in view any cluster, the Euclidean neighbours are any nodes in view (with
the first one skipped, which is usually but not always the clicked one), the
node-link layout shows the nodes of the tree. Feature weights only decide which
clusters and neighbours these are. Every action is possible at any time,
because OSC messages (`/recluster`, `/back`, `/forward`, `/gointocluster`,
`/changerefNode`) call the browser without the mouse, so that a click may
be left over from long ago. Calls are single steps: the race between an import
thread that adds nodes and the GUI thread is one on `std::map`, with no bounded set of
outcomes. Where the program crashes (the neighbours of a node are asked for with an empty
view, the neighbours plugin is changed with an empty library) the action has no outcome.
Left out: selection, filtering, labels and pointers; activity is AudioFeedback's subject.

**AudioFeedback.** Whoever changes a node's activity does so without a lock and then queues
the id under `activity_update_mutex`; a call is cut at exactly these points, so that the
update thread and OSC messages come between. The update thread holds the mutex while it goes
through the queue: it reads the activity, then creates or deletes a source, each a step, and
empties the queue. A hover is what `MediaCycle::setClosestNode` does: the browser toggles
and queues (`HoverOn`, `HoverOff`), or returns at once if the closest node is out of its
level (`HoverOutOfView`: the renderer picks it among what is displayed), and the plugin then
hears "hover closest node" in both cases (`HoverEnd`) and sets the activity without queueing
the node, if auto play is still on. The plugin's action "loop", which OSC can name (`Loop`),
does the same. So a medium gets out of step with the engine, until the update thread looks
at it again, in two directions, which two sets record. `unheard`, active without a source:
the engine refused one (no slot, unreadable), or the plugin set an activity that was 0 (of a
node out of view, by "loop", or that another thread has just stopped). `lost`, a source
without being active: OpenAL failed while taking it, or `clean` destroyed the nodes.
`InSync` says that neither direction has another cause. Only audio media are considered. An
import is one step, which nodes a pointer hovers is open, a toggle is atomic, and the thread
that mixes into the buffers is left out: it changes neither slots nor activities.

**TcpServer.** A request is a sequence of pieces; it ends when nothing comes for a
millisecond, which may be while its client still sends: such clients are in `cut`, and so are those
that reset, since an error in `server_receive` loses what that call had. Sockets are
shut down and never closed, so that `fds` only grows. The destructor shuts down the
port number instead of the listening socket: after a stop the old socket still
holds the port, the next server cannot bind, `startTcpServer` returns 0 all the same, and clients
queue unserved. `OneCallback`, that no two callbacks overlap although the cancelled
thread is not joined, holds only because of that. A command without an answer gets the
reply of the one before (`Callback`), through a pointer that dangles. A `send` on a
connection that was reset raises SIGPIPE (`ReplyKills`). Memory is modelled as intact after
the server is deleted; a second stop, which deletes it twice, has no outcome. What
the callback does to the library is left out, and so is the growing of `bigbuffer`.

## Runs

| Run | Question | Bounds |
|---|---|---|
| `MediaLibrary` | Do ids, parents and normalisation stay right under all the core's calls? | 3 files, one unsupported; 4 ids, of which 1 and 2 may be discarded; 1 segment; counters to 2; symmetric in the supported files |
| `MediaLibraryApi` | Is an id in use ever handed out, or a medium changed, with deletions? | 3 ids, all may be discarded; no segments, counters to 1 |
| `EventDelivery` | Does each listener hear an unbroken, ordered run, and all that is posted? | GUI and one importer, 2 listeners, 2 events each |
| `ImportPipeline` | Flag, progress bar and mutex for a user who waits | 1 thread, selections of up to 2 files, 3 ids, all may be discarded, 1 segment, renderer and window |
| `ImportPipelineSerial` | Do library, nodes and renderers agree when imports overlap? | 2 threads, 3 ids, of which 1 may be discarded, renderer, up to 2 events queued when the user acts |
| `ImportPipelineLive` | Do the mouse and media actions come back? | 2 threads, hasty user, damaged XML, 1 file |
| `NeighborTree` | Do the pointers implement a tree? | 5 values |
| `MediaBrowser` | Over any sequence of zooms, steps, clicks and switches, is what is shown what the mode promises? | 5 media, symmetric but for the first; 2 neighbours, 2 clusters, level 2; nodes and remembered states together 5 |
| `AudioFeedback` | Is what plays what is active, are slots counted right, are requests served? | GUI and one OSC thread, 2 media, 1 slot beside the tempo's, 2 ids queued |
| `TcpServer` | Are requests and answers kept apart and whole, and does everybody get a turn? | 2 clients, requests of 1 or 3 pieces, buffer of 2, 2 servers, 2 in the backlog, 4 sockets |
| `AudioFeedbackMute` | Does muting end? (no) | GUI only, 2 media, 2 slots |
| `ImportPipelineHover` | Are media actions blocked during imports of a serial user? (no) | as `ImportPipelineSerial`, up to 1 event queued when the user acts |

Why the bounds are enough: a second medium and a second segment are what tells an
id from a count and a segment's parent from the previous medium; two events per
thread are what can be swapped; two threads are what can share an argument; five
values give every shape with two levels of siblings below a branch that is cut.
For the browser, five media are a root with two siblings that each can have a branch, and
level 2 is a zoom within a zoom, stepped back from and entered again another way.
Fewer sources than media is what makes the engine refuse; two ids queued are what can be
about one medium or two. A request of three pieces is one more than the buffer holds, of
which two and one are left to the last call; two clients are what can be mixed up,
and four sockets are two listening ones and a connection each.
`MaxSize` caps nodes and states together, so that many nodes are seen with few states
and many states with few nodes; `MaxLevel` caps the zooms.
`Discardable` names the ids that may be discarded: those of a file or of a segment are enough
for a saved count that differs from what is saved, and for a library saved in part.
`MaxCount`, `MaxCounter` and `MaxPending` only cap the progress counters (which a
failed import leaves behind, so that they grow for ever) and the queues.
`CHECK_DEADLOCK FALSE` is said where the system really stops: after the
destruction of the listeners, and where the renderer's mutex is lost.

Violations, each a disagreement between the code and its own comments:

- `ImportPipelineHover`: the end of one import unblocks media actions during the
  next one ("Block media actions while importing").
- `AudioFeedbackMute`: with media imported, `muteAllSources` never returns, because the audio
  plugin answers the action "mute all" with `muteAllSources`. The same plugin for the
  STK engine has that call commented out. While an import is under way media actions are
  blocked, and muting ends.

Other disagreements the models show, without a run of their own: a node hovered out of view,
or looped by OSC, is drawn as active and silent (`HoverOutOfView`, `Loop`); a zoom raises
the levels of nodes out of view that have the cluster id of an earlier clustering, so that a
step back shows more than the state had (`ZoomIntoCluster`); a damaged XML library leaves
media without nodes and renderers (`Damaged = TRUE` and `RenderersMatch`).

`ProgressBarGone` is claimed of a library that is not empty: an import that leaves it empty
announces its end as `(0,0,-1)`, which shows the progress bar instead of hiding it.
`ZoomNarrows` is claimed of a zoom by a node in view, and `SwitchExpands` when no click is
left over: with one, the switch may close the branch it has just opened, or open another.
`MutexReturned` holds of a user who waits. It does not hold of a serial user:
`mediasImported` returns with the mutex held when a medium of the event is gone by the time
it is handled.

## Fairness

`EventDelivery`: an emission that has begun goes through its slots (the raising
thread does nothing else meanwhile) and a listener's thread, which sits in
`service.run` with a `work` object, handles what is posted: weak fairness of
`CallSlot`, `Post` and `Handle`. Raising, cleaning and destroying need not happen.
`ImportPipeline`: weak fairness of each import thread, of an operation the GUI
thread has begun, and of each listener. The user's actions have none.
`AudioFeedback`: weak fairness of calls under way and of the update thread, which
loops for ever; strong fairness of `Queue`, which waits for a mutex that is free
again and again between two rounds of the update thread, which sleeps in between.
`TcpServer`: weak fairness of each server's thread: the callback returns, and every call
it makes returns or times out. Clients need not do anything.

## Proofs

Every safety property that a passing run checks, invariant, action property or refinement,
is stated by a theorem; the runs show it on a small instance, the theorem for every
value of the constants that the modules' assumptions allow. `PROJECT.json` lists the
theorems. The inductive invariants, or what of them TLC can evaluate, were model-checked
before they were proved.

`MediaLibraryProofs` proves four theorems of `MediaLibrary`'s `Spec`, for every
set of files and every bound: `Typing`, `Contiguity`, `Parenthood` and
`Normalization`. None of the four is inductive alone, so the invariant is their
conjunction `IInv == TypeOK /\ IdsContiguous /\ ParentLinks /\ NormalizedPrefix`:

- with the domain of the map `0..n`, its maximum is `n`, so `setNextMediaID`
  yields `mediaID + 1` and `addMedia` extends the interval by one, also for a
  file followed by its segments or a whole library;
- the new ids are then disjoint from the old ones, so that nothing is overwritten:
  the parents and the normalised prefix of the media already there stay as they
  are, and a new segment's parent is the file imported just before it;
- `NormalizedPrefix` needs the guard in `Next` that an incremental pass is
  never the first: `LibraryUse`, proved in `ImportPipelineProofs`, says that
  the import loop respects it.

Of `ApiSpec`, where media are deleted, these do not hold, and `Preservation` (`NoOverwrite`:
a medium that stays keeps its file, parent, segments and pre-processed features) rests on
another invariant, `ApiInv`: the ids are bounded, so that the map has a highest one, and
what is on disk to be read has numbers of media that can be counted. The next id is above
the highest, and all that is added in one call is at or above it.

`EventDeliveryProofs` proves of `EventDelivery`'s `Spec`, for any import threads,
listeners and number of events, `Typing`, `Order` (it implements
`EventBroadcast`), `Silence` (`NoCallAfterClean`) and `Skipping` (`NoneSkipped`). The
invariant has, besides the types:

- `SlotsInv`: the slots are distinct and are exactly the connected ones, and so
  are the copies that emissions go through (distinct);
- `NewcomerInv`: before cleaning, a listener without a slot has nothing queued,
  has handled nothing, and no emission is on its way to it;
- `DeliveryInv`: the events of an emitter queued for a listener run without a gap
  from the one it handles next (`GapFree`) to the last one posted to it
  (`CaughtUp`), where `Posted` accounts for the emission that has yet to reach it.

`GapFree` alone is not inductive: that a posted event follows the last queued one
needs `CaughtUp`, which a listener that joins satisfies because of `NewcomerInv`,
and which holds after the post because `SlotsInv` rules out a second post of the
same event. `Skipping` counts: the events of an emitter in a queue have consecutive
numbers, so that mapping each place to its event's number is a bijection onto an interval,
whose cardinality is what the listener lags behind (`PendingCount`).

`ImportPipelineProofs` proves of `ImportPipeline`'s `Spec`, for any threads, files,
selections, listeners and bounds, what the runs check of a user who is not hasty. That is the
theorems' hypothesis `Patient`, which the runs have as well: with a hasty user two threads
use the maps at once and nothing is claimed. The invariant has these layers, each inductive given
those before it:

- `ThreadInv` says who can be where at the same time: at most one thread imports, and none
  while the GUI thread cleans or loads (`Turns`); what a thread has to announce is in the
  library, and the medium it announces next has its node (`ThreadsInv`); an incremental normalisation
  finds something normalised (`NormalisedInv`). It contains the invariant of
  `MediaLibraryProofs`, whose lemmas are used step by step through an instance. From it follow
  `LibraryUsedWell` (`LibraryUse`: every step is one that `MediaLibrary` allows) and
  `LibraryHolds`;
- `BrowserInv` is `EventsMatchNodes` with what it needs: what is queued is well formed
  (`EventsInv`), `libraryCleaned` is the last event while the GUI thread cleans
  (`CleanedLast`), and nodes and media differ by what is about to be announced
  (`NodesInv`). Theorem `EventsMatch`;
- `RenderersInv` says of the renderer's queue what will be drawn once it is handled: `Due` is a
  prophecy, computed from what is drawn and what is queued, and it equals the nodes but for
  the one that is about to be announced. Handling an event does not change what is due, and raising one adds just
  its media. With an empty queue it is what is drawn: `Settled` (`RenderersMatch`), for a
  renderer among the listeners and XML libraries that are not damaged, since a damaged one
  leaves media without a node;
- `WindowInv` says the same of the progress bar (`Shown`): between two imports it is due only of
  an empty library. Theorem `BarGone` (`ProgressBarGone`);
- `WaitsInv` is about the user who waits, without whom it claims nothing: what is queued
  is still in the library or about to be cleaned everywhere, so that the renderer finds
  every medium and returns its mutex (`MutexSafe`), and the flag is up while a thread
  imports (`HoverStaysBlocked`, the property that `ImportPipelineHover` refutes for a serial user).

`NeighborTreeProofs` proves of `NeighborTree`'s `Spec`, for any set of values, finite or
not, `MapIsTheTree` (`MapIsTree`), `LinksAlwaysAgree` (`LinksAgree`), `DepthsAlwaysRight`
(`DepthsRight`), `TreeImplements` (`IsRootedTree`) and `WalkIsComplete` (`WalkComplete`).
The invariant `TreeInv` speaks of neighbouring nodes only, without recursion: the root has
no parent and depth 0 (`RootInv`); every other node is among its parent's children, one
deeper (`ParentInv`); a list of children has each child once, with parent and sibling links
in the list's order (`ChildInv`); the maximum depth is one that occurs and none is above it
(`DepthInv`). Depths rule out cycles, which is why a list of pointers that agree locally is
a tree.

The properties, and the code, follow pointers as far as they lead. `Reach`, the least set
that holds a node and is closed under the pointers, is what each of these recursions is
compared with. That the recursive definition has it for a solution and no other is shown by
a least counterexample: among the nodes where the two differ one has the greatest depth (or
the least, or the foremost place among siblings), and there the equation fails. The solution
exists, level by level, because a least level at which it does not is impossible. Then:

- the links between siblings reach the same nodes as the lists of children, so that what
  `cleanupChildren` takes off the map is what `~Node` frees;
- the branch in the abstract tree, which is found by climbing, is what is reached by
  descending, so that removing one is `Cut`;
- the walk, at each node, has yet to visit `Rest`: its branch and those of the later
  siblings of the nodes it has come down through. Each of its steps takes exactly one node off that set, so
  that it ends, visits all and none twice.

`MediaBrowserProofs` proves of `MediaBrowser`'s `Spec`, for any media, numbers of neighbours
and clusters and bounds, `Typing`, `Order` (`HistoryOrdered`), `Navigation` (going back and
forward changes none of the states), `Display` (`DisplayMatches`), `Strays` (`NoNewStrays`),
`Zooming` (`ZoomNarrows`), `Switching` (`SwitchExpands`) and `Branching` (`OneBranchOpen`).
The invariant is `NodesInv /\ HistoryInv /\ ViewInv`:

- `NodesInv`: types, and that the nodes are finitely many and the one with the id 0
  among them once there are any, so that the reference node that a switch or a change of the
  neighbours plugin clicks exists;
- `HistoryInv`: both lists and the current state hold navigation states of nodes that
  exist; with this a step back or forward only moves one state between the ends of the
  path `States`, and storing one cuts that path and extends it at a level that is
  not lower;
- `ViewInv`: `DisplayMatches`, and that in the clusters mode a node in view has a
  cluster there is now. Without the latter a zoom by a node in view could find its
  cluster gone and raise nothing; with it, and since storing a state leaves the nodes in
  view at exactly the browser's level and the others below, one increment separates
  the cluster.

`Branching` needs an invariant of its own, `Chained(parent)`: there is a depth that counts the
steps from a single root, and on each level above another one exactly one node is open. A
branch is then the node and, if it is open, all that is deeper (`BranchRank`), whatever path a
recursion climbs, and closing the siblings of a node closes all that is deeper
(`ClosingRank`), also below a sibling's children. So what stays open is one chain down to the node
that was clicked.

`TcpServerProofs` proves of `TcpServer`'s `Spec`, for any clients, lengths of requests,
buffer and limits and any number of servers, `Typing`, `Ownership` (`RequestsOwn`),
`Wholeness` (`RequestsWhole`), `Answers` (`AnswersOwn`) and `Callbacks` (`OneCallback`).
The invariant has, besides the types and `AnswersOwn`:

- `KernelInv`: at most one server listens, since the socket that does is never closed
  and keeps the port, and only its thread ever has a client. This is what a second
  server cannot disturb, and `OneCallback` follows from it;
- `ClientsInv` and `BacklogInv`: a connection waits once, no thread has had its client,
  and all it has sent is under way; a client has heard something only when its
  connection is over;
- `RequestInv`: of the client that a thread has, what it got, what is in its buffer and
  what is under way are, one after the other and without a gap, all the client has sent
  (unless it reset). Whether `got` is whole can only be told from the three together:
  when nothing is under way and the buffer is empty, `got` is what was sent, which is
  the request or puts the client in `cut`. That a full buffer ends nothing, and that
  `read` starts empty, is what keeps the pieces together.

`AudioFeedbackProofs` proves of `AudioFeedback`'s `Spec`, for any media, slots, length of
the queue and remotes, `Typing`, `Slotting` (`SlotsAgree`) and `Synchronization` (`InSync`).
`InSync` speaks of ids without a request only, and says nothing while the update thread is
at work. `AllSettled` does: for an id that nobody owes a request and that does not come
again further on in the queue, the source is right (`SourceRight`: it agrees with the
activity in both directions, but for what `lost` and `unheard` excuse) or, while the update
thread is between looking at the activity and acting on it, what it decided is
(`DecisionRight`). What the plugin sets without queueing disturbs only the direction that
`unheard` excuses (`PluginSettled`). A call that changes an activity owes the id from then
on, so that a decision overtaken by it is looked at again. Besides, `SlotsAgree` shows that
the slot given is free and the one taken is the medium's only one; `AbsentSilent` (an id
that is not a node's has no activity) that an import makes nothing audible; `HoverPresent`
that the plugin is told of a node that exists; `UpdatePlace` that the update thread, which
alone empties the queue, carries out a request that is in it.

The assumptions are those on the constants in the modules, and the hypotheses on the user
and on damaged libraries named above, which the runs' configurations satisfy. What is only
model-checked is liveness (`Handled`, `MouseReturns`, `ImportEnds`, `RequestsServed`,
`TurnComes`), which is out of the proof system's reach. Induction with a predicate as
parameter is too; the inductions here are over sets, by a least counterexample.

## Not modelled

`PROJECT.json` lists every component. Left out, and why:

- data: features, distances, positions, segmentation, thumbnails, audio samples and
  the numeric plugins and libraries under them are matrices and floating-point code
  without state between calls; file formats and drawing are input and output;
- the plugin manager and default configurations: adding and looking up plugins is
  straight-line code over lists of names; removing them is undefined behaviour on nearly every
  path (a library leaves the pointer to itself behind, a plugin is erased and the one after
  it destroyed), so that a model would have no outcome to check;
- data races on the library's and the browser's maps, which have no bounded set of
  outcomes: calls are single steps, and the readers' order is what is checked;
- use after destruction: `~ACEventListener` and the server's destructor do not join
  their threads, and `~MediaCycle` deletes the library before it stops the server;
- the other engines, applications and demos over the core, which repeat the
  patterns above, and third-party code.
