--------------------------- MODULE ImportPipeline ---------------------------
(***************************************************************************)
(* The import of media as MediaCycle runs it (core/MediaCycle.cpp): the    *)
(* import threads, the GUI thread that starts them, cleans the library and *)
(* saves and loads XML libraries, the media library they share (an         *)
(* instance of MediaLibrary), the nodes of the browser, and the listeners  *)
(* that hear of all this through one queue each: the browser's renderer,   *)
(* the main window and the composite view.                                 *)
(*                                                                         *)
(* A signal reaches all the queues in one step: EventDelivery is where it  *)
(* goes from slot to slot, and shows that each queue gets each thread's    *)
(* events in order.  libraryContentChanged, which places the clusters on   *)
(* the screen, is left out, and so are the files' contents: an import may  *)
(* fail whenever it is tried.  The Qt signals through which the window's   *)
(* listener has the GUI thread show its progress bar count as immediate.   *)
(***************************************************************************)
EXTENDS Integers, FiniteSets, FiniteSetsExt, Sequences

CONSTANTS
  Files, Unsupported, MaxMedia, MaxSegments, MaxCount,
  Discardable, \* these as in MediaLibrary
  Threads,     \* the import threads that may run at the same time
  Selections,  \* what scanning the chosen directories may return
  Listeners,   \* which of "renderer", "window" and "view" the program has
  User,        \* "hasty": acts at any time; "serial": lets the import be
               \* announced as finished first; "waits": also lets its thread
               \* end and the listeners catch up
  Damaged,     \* an XML library may hold a damaged element
  MaxCounter,  \* bound: the progress counters when an import starts; MaxCount
               \* leaves them room for what the threads then add
  MaxPending   \* bound: events queued when the user acts

ASSUME SelectionsAssumption == Selections \subseteq Seq(Files)
ASSUME ListenersAssumption == Listeners \subseteq {"renderer", "window", "view"}
ASSUME UserAssumption == User \in {"hasty", "serial", "waits"} /\ Damaged \in BOOLEAN
ASSUME LibraryAssumption ==
  Unsupported \subseteq Files /\ MaxMedia \in Nat /\ MaxSegments \in Nat /\ MaxCount \in Nat

VARIABLES
  media, mediaID, index_last_normalized, files_to_import, files_processed,
  media_at_import, xml, toRead,  \* the library
  nodes,               \* ids with a node in the browser
  importing,           \* MediaCycle::importing
  prevLibrarySize,
  import_directories,  \* argument of the next import thread
  pc,                  \* pc[t]: where import thread t is
  files,               \* files[t]: those it has yet to import
  total,               \* total[t]: n, how many its scan found (the locals of
                       \* a function are reset after their last use)
  ids,                 \* ids[t]: new media it has yet to give a node
  needs,               \* needs[t]: needsNormalizeAndCluster
  gui,                 \* where the GUI thread is
  begin,               \* beginIndex of readXMLConfigFileCore
  queue,               \* queue[l]: events l has yet to handle
  renderers,           \* ids with a renderer
  locked,              \* the renderer's mutex was not given back
  loading,             \* the window shows the progress bar
  mouse_disabled       \* of the view

libraryVars == <<media, mediaID, index_last_normalized, files_to_import,
                 files_processed, media_at_import, xml, toRead>>
threadVars == <<import_directories, pc, files, total, ids, needs>>
guiVars == <<gui, begin>>
listenerVars == <<renderers, locked, loading, mouse_disabled>>
vars == <<libraryVars, nodes, importing, prevLibrarySize, threadVars, guiVars,
          queue, listenerVars>>

Library == INSTANCE MediaLibrary
Ids == DOMAIN media

Init ==
  /\ Library!Init
  /\ nodes = {}
  /\ importing = FALSE
  /\ prevLibrarySize = 0
  /\ import_directories = <<>>
  /\ pc = [t \in Threads |-> "idle"]
  /\ files = [t \in Threads |-> <<>>]
  /\ total = [t \in Threads |-> 0]
  /\ ids = [t \in Threads |-> {}]
  /\ needs = [t \in Threads |-> FALSE]
  /\ gui = "idle"
  /\ begin = -1
  /\ queue = [l \in Listeners |-> <<>>]
  /\ renderers = {}
  /\ locked = FALSE
  /\ loading = FALSE
  /\ mouse_disabled = FALSE

\* An event: sig_mediaImported (one id or -1), sig_mediasImported or
\* sig_libraryCleaned.
Imported(n, nTot, id) == [kind |-> "imported", n |-> n, nTot |-> nTot, ids |-> {id}]
AllImported(n, nTot, new) == [kind |-> "all imported", n |-> n, nTot |-> nTot, ids |-> new]
Cleaned == [kind |-> "cleaned", n |-> 0, nTot |-> 0, ids |-> {}]

Emit(ev) == queue' = [l \in Listeners |-> Append(queue[l], ev)]

\* Mutant of EmitFinished: the progress counters instead of the size.
EmitFinishedCounters == Emit(Imported(files_processed, files_to_import, -1))

\* The last event of an import: n is the size of the library, the id is -1.
EmitFinished == Emit(Imported(Cardinality(Ids), Cardinality(Ids), -1))

-----------------------------------------------------------------------------
(* The import threads: importDirectories.                                  *)

Scan(t) ==
  LET found == import_directories
  IN /\ pc[t] = "scan"
     /\ importing' = TRUE
     /\ files' = [files EXCEPT ![t] = found]
     /\ total' = [total EXCEPT ![t] = Len(found)]
     /\ Library!AddNumberOfFilesToImport(Len(found))
     /\ Emit(Imported(0, Len(found), -1))
     /\ pc' = [pc EXCEPT ![t] = "file"]
     /\ UNCHANGED <<nodes, prevLibrarySize, import_directories, ids, needs,
                    guiVars, listenerVars>>

\* Mutant of ImportNext: the loop is left when nothing was imported.
ImportNextOrGiveUp(t) ==
  LET rest == Tail(files[t])
      new == Ids' \ Ids
      size == Cardinality(Ids')
  IN /\ pc[t] = "file" /\ files[t] # <<>>
     /\ Library!ImportFile(Head(files[t]))
     /\ files' = [files EXCEPT ![t] = rest]
     /\ ids' = [ids EXCEPT ![t] = new]
     /\ needs' = [needs EXCEPT ![t] = TRUE]
     /\ prevLibrarySize' = size
     /\ pc' = [pc EXCEPT ![t] = IF new = {} THEN "idle" ELSE "normalise"]
     /\ UNCHANGED <<nodes, importing, import_directories, total, guiVars,
                    queue, listenerVars>>

\* One turn of the loop up to the choice between a full normalisation (the
\* library has doubled, or this was the last file) and that of the new media.
ImportNext(t) ==
  LET rest == Tail(files[t])
      new == Ids' \ Ids
      size == Cardinality(Ids')
      full == size >= 2 * prevLibrarySize \/ rest = <<>>
  IN /\ pc[t] = "file" /\ files[t] # <<>>
     /\ Library!ImportFile(Head(files[t]))
     /\ files' = [files EXCEPT ![t] = rest]
     /\ ids' = [ids EXCEPT ![t] = new]
     /\ IF new = {}
          THEN UNCHANGED <<needs, prevLibrarySize, pc>>
          ELSE /\ needs' = [needs EXCEPT ![t] = full]
               /\ prevLibrarySize' = IF full THEN size ELSE prevLibrarySize
               /\ pc' = [pc EXCEPT ![t] = "normalise"]
     /\ UNCHANGED <<nodes, importing, import_directories, total, guiVars,
                    queue, listenerVars>>

Normalise(needsNormalize) ==
  IF Ids = {} THEN UNCHANGED libraryVars
              ELSE Library!NormalizeFeatures(needsNormalize)

\* Mutant of NormaliseNew: the first medium is announced without its node.
NormaliseThenAnnounce(t) ==
  /\ pc[t] = "normalise"
  /\ Normalise(needs[t])
  /\ pc' = [pc EXCEPT ![t] = "event"]
  /\ UNCHANGED <<nodes, importing, prevLibrarySize, import_directories, files,
                 total, ids, needs, guiVars, queue, listenerVars>>

NormaliseNew(t) ==
  /\ pc[t] = "normalise"
  /\ Normalise(needs[t])
  /\ pc' = [pc EXCEPT ![t] = "node"]
  /\ UNCHANGED <<nodes, importing, prevLibrarySize, import_directories, files,
                 total, ids, needs, guiVars, queue, listenerVars>>

\* initializeNode: no node for an id that is no longer in the library.
InitializeNode(t) ==
  /\ pc[t] = "node"
  /\ nodes' = nodes \cup ({Min(ids[t])} \cap Ids)
  /\ pc' = [pc EXCEPT ![t] = "event"]
  /\ UNCHANGED <<libraryVars, importing, prevLibrarySize, import_directories,
                 files, total, ids, needs, guiVars, queue, listenerVars>>

RaiseImported(t) ==
  LET id == Min(ids[t])
  IN /\ pc[t] = "event"
     /\ Emit(Imported(total[t] - Len(files[t]), total[t], id))
     /\ ids' = [ids EXCEPT ![t] = @ \ {id}]
     /\ IF ids'[t] = {}
          THEN /\ needs' = [needs EXCEPT ![t] = FALSE]
               /\ pc' = [pc EXCEPT ![t] = "file"]
          ELSE /\ pc' = [pc EXCEPT ![t] = "node"]
               /\ UNCHANGED needs
     /\ UNCHANGED <<libraryVars, nodes, importing, prevLibrarySize,
                    import_directories, files, total, guiVars, listenerVars>>

\* Mutant of Finish: the end is announced when the library holds something.
FinishIfAny(t) ==
  /\ pc[t] = "file" /\ files[t] = <<>>
  /\ importing' = FALSE
  /\ IF Ids = {} THEN UNCHANGED queue ELSE EmitFinished
  /\ pc' = [pc EXCEPT ![t] = "ending"]
  /\ UNCHANGED <<libraryVars, nodes, prevLibrarySize, import_directories, files,
                 total, ids, needs, guiVars, listenerVars>>

\* mediaImported(n, n, -1): the flag, then the signal.
Finish(t) ==
  /\ pc[t] = "file" /\ files[t] = <<>>
  /\ importing' = FALSE
  /\ EmitFinished
  /\ total' = [total EXCEPT ![t] = 0]
  /\ pc' = [pc EXCEPT ![t] = "ending"]
  /\ UNCHANGED <<libraryVars, nodes, prevLibrarySize, import_directories, files,
                 ids, needs, guiVars, listenerVars>>

\* importing = false, once more, and the thread returns.
End(t) ==
  /\ pc[t] = "ending"
  /\ importing' = FALSE
  /\ pc' = [pc EXCEPT ![t] = "idle"]
  /\ UNCHANGED <<libraryVars, nodes, prevLibrarySize, import_directories, files,
                 total, ids, needs, guiVars, queue, listenerVars>>

-----------------------------------------------------------------------------
(* The GUI thread.                                                         *)

\* The GUI thread takes the renderer's mutex to draw every frame, so that it
\* hangs once the mutex is lost.
UserMayAct ==
  /\ gui = "idle" /\ ~locked
  /\ \A l \in Listeners : Len(queue[l]) <= MaxPending
  /\ User = "serial" => \A t \in Threads : pc[t] \in {"idle", "ending"}
  /\ User = "waits" => /\ \A t \in Threads : pc[t] = "idle"
                       /\ \A l \in Listeners : queue[l] = <<>>

\* Mutant of StartImport: the flag is left to the thread.
StartUnflagged(t, selection) ==
  /\ UserMayAct /\ pc[t] = "idle"
  /\ import_directories' = selection
  /\ pc' = [pc EXCEPT ![t] = "scan"]
  /\ UNCHANGED <<libraryVars, nodes, importing, prevLibrarySize, files, total,
                 ids, needs, guiVars, queue, listenerVars>>

WithinBounds == files_to_import <= MaxCounter /\ files_processed <= MaxCounter

\* importDirectoriesThreaded: the argument is left in a field of MediaCycle.
StartImport(t, selection) ==
  /\ UserMayAct /\ pc[t] = "idle"
  /\ WithinBounds
  /\ importing' = TRUE
  /\ import_directories' = selection
  /\ pc' = [pc EXCEPT ![t] = "scan"]
  /\ UNCHANGED <<libraryVars, nodes, prevLibrarySize, files, total, ids, needs,
                 guiVars, queue, listenerVars>>

\* Mutant of Clean: prevLibrarySize is not reset.
CleanKeepingSize ==
  /\ UserMayAct
  /\ Emit(Cleaned)
  /\ gui' = "clean library"
  /\ UNCHANGED <<libraryVars, nodes, importing, prevLibrarySize, threadVars,
                 begin, listenerVars>>

\* ACMultiMediaCycleQt::clean: MediaCycle::cleanLibrary raises the signal
\* before it cleans the library, and the browser comes last.
Clean ==
  /\ UserMayAct
  /\ prevLibrarySize' = 0
  /\ Emit(Cleaned)
  /\ gui' = "clean library"
  /\ UNCHANGED <<libraryVars, nodes, importing, threadVars, begin, listenerVars>>

CleanTheLibrary ==
  /\ gui = "clean library"
  /\ Library!CleanLibrary
  /\ gui' = "clean browser"
  /\ UNCHANGED <<nodes, importing, prevLibrarySize, threadVars, begin, queue, listenerVars>>

\* cleanBrowser, after which the window hides its progress bar.
CleanBrowser ==
  /\ gui = "clean browser"
  /\ nodes' = {}
  /\ loading' = FALSE
  /\ gui' = "idle"
  /\ UNCHANGED <<libraryVars, importing, prevLibrarySize, threadVars, begin,
                 queue, renderers, locked, mouse_disabled>>

SaveXML ==
  /\ UserMayAct
  /\ Library!SaveXMLLibrary
  /\ UNCHANGED <<nodes, importing, prevLibrarySize, threadVars, guiVars, queue, listenerVars>>

\* Bound: the elements of the file and the segments in them.  (The count in the
\* file is lower when a segment was discarded.)
SavedMedia == MapThenSumSet(LAMBDA p : 1 + xml.element[p].segments, DOMAIN xml.element)

\* readXMLConfigFileCore, from the opening to the loop.  What the window does
\* around it to the browser's mode and navigation are actions of MediaBrowser, and
\* its media type cannot change: it only opens a file of the type it has.
LoadXML ==
  /\ UserMayAct
  /\ WithinBounds
  /\ Library!NextMediaID + SavedMedia <= MaxMedia
  /\ Library!OpenCoreXMLLibrary
  /\ Emit(Imported(0, xml.count, -1))
  /\ begin' = mediaID
  /\ gui' = "load"
  /\ UNCHANGED <<nodes, importing, prevLibrarySize, threadVars, listenerVars>>

LoadNext ==
  /\ gui = "load"
  /\ Library!OpenNextMedia
  /\ UNCHANGED <<nodes, importing, prevLibrarySize, threadVars, guiVars, queue, listenerVars>>

\* A damaged element: the end is announced and the exception thrown on.
LoadFails ==
  /\ Damaged
  /\ gui = "load"
  /\ Library!OpenNextMediaThrows
  /\ EmitFinished
  /\ begin' = -1
  /\ gui' = "idle"
  /\ UNCHANGED <<nodes, importing, prevLibrarySize, threadVars, listenerVars>>

LoadNormalises ==
  /\ gui = "load" /\ DOMAIN toRead = {}
  /\ Normalise(TRUE)
  /\ gui' = "load nodes"
  /\ UNCHANGED <<nodes, importing, prevLibrarySize, threadVars, begin, queue, listenerVars>>

\* Mutants of LoadNodes: the ids begin or end one off.
LoadNodesFromBegin ==
  LET new == begin..mediaID
  IN /\ gui = "load nodes"
     /\ nodes' = nodes \cup (new \cap Ids)
     /\ Emit(AllImported(files_processed, files_to_import, new))
     /\ begin' = -1
     /\ gui' = "load finish"
     /\ UNCHANGED <<libraryVars, importing, prevLibrarySize, threadVars, listenerVars>>

LoadNodesButLast ==
  LET new == begin + 1..mediaID - 1
  IN /\ gui = "load nodes"
     /\ nodes' = nodes \cup (new \cap Ids)
     /\ Emit(AllImported(files_processed, files_to_import, new))
     /\ begin' = -1
     /\ gui' = "load finish"
     /\ UNCHANGED <<libraryVars, importing, prevLibrarySize, threadVars, listenerVars>>

\* initializeNode for every new id, then sig_mediasImported with all of them.
LoadNodes ==
  LET new == begin + 1..mediaID
  IN /\ gui = "load nodes"
     /\ nodes' = nodes \cup (new \cap Ids)
     /\ Emit(AllImported(files_processed, files_to_import, new))
     /\ begin' = -1
     /\ gui' = "load finish"
     /\ UNCHANGED <<libraryVars, importing, prevLibrarySize, threadVars, listenerVars>>

LoadFinish ==
  /\ gui = "load finish"
  /\ importing' = FALSE
  /\ EmitFinished
  /\ gui' = "idle"
  /\ UNCHANGED <<libraryVars, nodes, prevLibrarySize, threadVars, begin, listenerVars>>

-----------------------------------------------------------------------------
(* The listeners' threads.                                                 *)

Pop(l) ==
  /\ queue[l] # <<>>
  /\ queue' = [queue EXCEPT ![l] = Tail(@)]
  /\ UNCHANGED <<libraryVars, nodes, importing, prevLibrarySize, threadVars, guiVars>>

Oldest(l) == Head(queue[l])

\* ACOsgBrowserRenderer::mediaImported.  A medium that is gone is let be before
\* the mutex is taken; one without a node gets no renderer.
RendererImported ==
  LET ev == Oldest("renderer")
      added == IF ev.n = 0 THEN {} ELSE ev.ids \cap Ids
  IN /\ Pop("renderer")
     /\ ev.kind = "imported"
     /\ added # {} => ~locked
     /\ renderers' = renderers \cup (added \cap nodes)
     /\ UNCHANGED <<locked, loading, mouse_disabled>>

\* mediasImported: the first medium that is gone ends the loop, and the
\* function, without giving the mutex back.
RendererAllImported ==
  LET ev == Oldest("renderer")
      gone == ev.ids \ Ids
      added == {i \in ev.ids : \A j \in gone : i < j}
  IN /\ Pop("renderer")
     /\ ev.kind = "all imported"
     /\ ~locked
     /\ renderers' = renderers \cup (added \cap nodes)
     /\ locked' = (gone # {})
     /\ UNCHANGED <<loading, mouse_disabled>>

RendererCleaned ==
  /\ Pop("renderer")
  /\ Oldest("renderer").kind = "cleaned"
  /\ ~locked
  /\ renderers' = {}
  /\ UNCHANGED <<locked, loading, mouse_disabled>>

IsFinish(ev) == ev.kind = "imported" /\ ev.n = ev.nTot /\ ev.ids = {-1}

\* ACMultiMediaCycleQt::mediaImported.
WindowHandles ==
  LET ev == Oldest("window")
  IN /\ Pop("window")
     /\ loading' = IF ev.kind = "imported" /\ ev.n = 0 THEN TRUE
                   ELSE IF IsFinish(ev) THEN FALSE
                   ELSE loading
     /\ UNCHANGED <<renderers, locked, mouse_disabled>>

\* ACOsgCompositeViewQt::mediaImported.
ViewHandles ==
  LET ev == Oldest("view")
  IN /\ Pop("view")
     /\ mouse_disabled' = IF ev.kind = "imported" /\ ev.n < ev.nTot THEN TRUE
                          ELSE IF IsFinish(ev) THEN FALSE
                          ELSE mouse_disabled
     /\ UNCHANGED <<renderers, locked, loading>>

-----------------------------------------------------------------------------

ImportThread(t) ==
  \/ Scan(t)
  \/ ImportNext(t)
  \/ NormaliseNew(t)
  \/ InitializeNode(t)
  \/ RaiseImported(t)
  \/ Finish(t)
  \/ End(t)

UserActs ==
  \/ \E t \in Threads, selection \in Selections : StartImport(t, selection)
  \/ Clean
  \/ SaveXML
  \/ LoadXML

GuiGoesOn ==
  \/ CleanTheLibrary
  \/ CleanBrowser
  \/ LoadNext
  \/ LoadFails
  \/ LoadNormalises
  \/ LoadNodes
  \/ LoadFinish

RendererHandles ==
  /\ "renderer" \in Listeners
  /\ RendererImported \/ RendererAllImported \/ RendererCleaned

ListenersHandle ==
  \/ RendererHandles
  \/ "window" \in Listeners /\ WindowHandles
  \/ "view" \in Listeners /\ ViewHandles

Next ==
  \/ \E t \in Threads : ImportThread(t)
  \/ UserActs
  \/ GuiGoesOn
  \/ ListenersHandle

Spec == Init /\ [][Next]_vars

\* Threads run, and each listener's thread handles what is queued for it; the
\* user need not do anything.
Fairness ==
  /\ \A t \in Threads : WF_vars(ImportThread(t))
  /\ WF_vars(GuiGoesOn)
  /\ WF_vars(RendererHandles)
  /\ WF_vars("window" \in Listeners /\ WindowHandles)
  /\ WF_vars("view" \in Listeners /\ ViewHandles)

FairSpec == Spec /\ Fairness

-----------------------------------------------------------------------------
(* Properties.                                                             *)

\* The threads use the library as MediaLibrary's specification lets them: its
\* theorems hold of it, and the incremental normalisation is never the first.
LibraryUse == Library!Spec

Quiet ==
  /\ gui = "idle"
  /\ \A t \in Threads : pc[t] = "idle"
  /\ \A l \in Listeners : queue[l] = <<>>

\* When everything has settled each medium of the library has its node and its
\* renderer, and nothing else has.
RenderersMatch == Quiet => renderers = Ids /\ nodes = Ids

\* An event is about media that have a node, or is followed by libraryCleaned:
\* "1) the library creates a media 2) the browser creates a node 3) mediacycle
\* propagates the event to external listeners".
EventsMatchNodes ==
  \A l \in Listeners : \A i \in DOMAIN queue[l] :
    \/ queue[l][i].ids \subseteq nodes \cup {-1}
    \/ \E j \in i..Len(queue[l]) : queue[l][j].kind = "cleaned"

\* The renderer's mutex is given back: drawing and cleaning can go on.
MutexReturned == ~locked

\* "Block media actions while importing": the flag is up as long as a thread
\* still has files to import or media to announce.
HoverBlocked ==
  \A t \in Threads : pc[t] \in {"scan", "file", "normalise", "node", "event"} => importing

\* Once everything has settled the window shows no progress bar, unless the
\* library is empty: the final event is then (0,0,-1), which the window takes for
\* the beginning of an import.
ProgressBarGone == Quiet /\ loading => Ids = {}

\* Once the media are imported the mouse works again in the view.
MouseReturns == mouse_disabled ~> ~mouse_disabled

\* Media actions are not blocked for ever.
ImportEnds == importing ~> ~importing
=============================================================================
