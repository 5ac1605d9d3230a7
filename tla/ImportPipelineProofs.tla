------------------------ MODULE ImportPipelineProofs ------------------------
(***************************************************************************)
(* Proofs about ImportPipeline, for a user who at least lets an import be  *)
(* announced as finished before acting: that the program uses its library  *)
(* as MediaLibrary lets it, that the queued events match the browser's     *)
(* nodes, that library, browser and renderer agree once all has settled,   *)
(* and what the window, the flag and the renderer's mutex do.              *)
(*                                                                         *)
(* The invariant is in two layers.  ThreadInv says where the threads and   *)
(* the GUI thread can be at the same time and what they hold; it contains  *)
(* the invariant of the library, whose proofs are those of                 *)
(* MediaLibraryProofs, and is inductive by itself.  The others look into   *)
(* the queues, as a prophecy of what the listeners will have done once     *)
(* they have caught up (Due, Shown); each is inductive given ThreadInv and *)
(* the ones before it.                                                     *)
(***************************************************************************)
EXTENDS ImportPipeline, SequenceTheorems, FiniteSetTheorems,
  WellFoundedInduction, TLAPS

LibraryProofs == INSTANCE MediaLibraryProofs

LibraryInv == LibraryProofs!IInv

\* A set of natural numbers that is not empty has a least element, which Min is.
LEMMA MinimumOfNaturals ==
  ASSUME NEW S, S \subseteq Nat, S # {}
  PROVE  Min(S) \in S /\ \A x \in S : Min(S) <= x
<1>1. \E m \in S : \A x \in S : m <= x
  <2> DEFINE R == OpToRel(<, Nat)
  <2>1. IsWellFoundedOn(R, Nat)
    BY NatLessThanWellFounded
  <2>2. \A y, z \in Nat : y < z => <<y, z>> \in R
    BY DEF OpToRel
  <2> HIDE DEF R
  <2>3. PICK m \in S : \A y \in S : ~ (<<y, m>> \in R)
    BY <2>1, WFMin
  <2>4. ASSUME NEW x \in S PROVE m <= x
    <3>1. m \in Nat /\ x \in Nat
      OBVIOUS
    <3>2. ~(x < m)
      BY <2>2, <2>3, <3>1
    <3>3. QED
      BY <3>1, <3>2
  <2>5. QED
    BY <2>4
<1>2. QED
  BY <1>1 DEF Min

-----------------------------------------------------------------------------
(* The library.                                                            *)

LEMMA SameExtrema ==
  ASSUME NEW S
  PROVE  /\ LibraryProofs!Max(S) = Library!Max(S) /\ Library!Max(S) = Max(S)
         /\ LibraryProofs!Min(S) = Library!Min(S) /\ Library!Min(S) = Min(S)
         /\ LibraryProofs!Cardinality(S) = Library!Cardinality(S)
         /\ Library!Cardinality(S) = Cardinality(S)
BY DEF LibraryProofs!Cardinality, Library!Cardinality, Cardinality, LibraryProofs!Max, Library!Max,
   Max, LibraryProofs!Min, Library!Min, Min

LEMMA SameLibraryHelpers ==
  /\ LibraryProofs!Ids = Ids /\ Library!Ids = Ids
  /\ LibraryProofs!Empty = Library!Empty
  /\ LibraryProofs!NoMedia = Library!NoMedia
  /\ LibraryProofs!Unregistered = Library!Unregistered
  /\ LibraryProofs!Deleted = Library!Deleted
  /\ LibraryProofs!Segmentations = Library!Segmentations
  /\ LibraryProofs!NextMediaID = Library!NextMediaID
<1>1. /\ LibraryProofs!Ids = Ids /\ Library!Ids = Ids
      /\ LibraryProofs!Empty = Library!Empty
      /\ LibraryProofs!NoMedia = Library!NoMedia
      /\ LibraryProofs!Unregistered = Library!Unregistered
      /\ LibraryProofs!Deleted = Library!Deleted
      /\ LibraryProofs!Segmentations = Library!Segmentations
  BY DEF Ids, LibraryProofs!Ids, Library!Ids, LibraryProofs!Empty, Library!Empty,
     LibraryProofs!NoMedia, Library!NoMedia, LibraryProofs!Unregistered, Library!Unregistered,
     LibraryProofs!Deleted, Library!Deleted, LibraryProofs!Segmentations, Library!Segmentations
<1>2. LibraryProofs!NextMediaID = Library!NextMediaID
  BY <1>1, SameExtrema DEF LibraryProofs!NextMediaID, Library!NextMediaID
<1>3. QED
  BY <1>1, <1>2

LEMMA SameWithMedia ==
  ASSUME NEW f, NEW k
  PROVE  LibraryProofs!WithMedia(f, k) = Library!WithMedia(f, k)
BY SameLibraryHelpers
   DEF LibraryProofs!WithMedia, Library!WithMedia, LibraryProofs!WholeFile, Library!WholeFile,
       LibraryProofs!SegmentOf, Library!SegmentOf

LEMMA SameSettleCounters ==
  ASSUME NEW p, NEW w, NEW at
  PROVE  LibraryProofs!SettleCounters(p, w, at) <=> Library!SettleCounters(p, w, at)
BY SameLibraryHelpers DEF LibraryProofs!SettleCounters, Library!SettleCounters

LEMMA SameImportFile ==
  ASSUME NEW f
  PROVE  LibraryProofs!ImportFile(f) <=> Library!ImportFile(f)
<1>0. LibraryProofs!IsPresent(f) <=> Library!IsPresent(f)
  BY SameLibraryHelpers DEF LibraryProofs!IsPresent, Library!IsPresent
<1>1. LibraryProofs!ImportSkipped(f) <=> Library!ImportSkipped(f)
  BY <1>0, SameLibraryHelpers 
     DEF LibraryProofs!ImportSkipped, Library!ImportSkipped, LibraryProofs!diskVars, Library!diskVars
<1>2. LibraryProofs!ImportFailed(f) <=> Library!ImportFailed(f)
  BY <1>0, SameLibraryHelpers, SameSettleCounters 
     DEF LibraryProofs!ImportFailed, Library!ImportFailed, LibraryProofs!diskVars, Library!diskVars
<1>3. ASSUME NEW segs
      PROVE  LibraryProofs!ImportSucceeded(f, segs) <=> Library!ImportSucceeded(f, segs)
  BY <1>0, SameLibraryHelpers, SameSettleCounters, SameWithMedia, SameExtrema
     DEF LibraryProofs!ImportSucceeded, Library!ImportSucceeded, LibraryProofs!diskVars, Library!diskVars
<1>4. QED
  BY <1>1, <1>2, <1>3, SameLibraryHelpers DEF LibraryProofs!ImportFile, Library!ImportFile

LEMMA SameOperations ==
  /\ LibraryProofs!CleanLibrary <=> Library!CleanLibrary
  /\ LibraryProofs!SaveXMLLibrary <=> Library!SaveXMLLibrary
  /\ LibraryProofs!OpenCoreXMLLibrary <=> Library!OpenCoreXMLLibrary
  /\ LibraryProofs!OpenNextMedia <=> Library!OpenNextMedia
  /\ LibraryProofs!OpenNextMediaThrows <=> Library!OpenNextMediaThrows
<1>1. LibraryProofs!CleanLibrary <=> Library!CleanLibrary
  BY SameLibraryHelpers 
     DEF LibraryProofs!CleanLibrary, Library!CleanLibrary, LibraryProofs!diskVars, Library!diskVars
<1>2. LibraryProofs!SaveXMLLibrary <=> Library!SaveXMLLibrary
  <2>1. \A discarded \in SUBSET (Ids \cap Discardable) :
          LibraryProofs!Cardinality(Ids \ discarded) = Library!Cardinality(Ids \ discarded)
    BY SameExtrema
  <2>2. QED
    BY <2>1 DEF LibraryProofs!SaveXMLLibrary, Library!SaveXMLLibrary, Ids,
       LibraryProofs!Ids, Library!Ids, LibraryProofs!NoMedia, Library!NoMedia,
       LibraryProofs!countVars, Library!countVars
<1>3. LibraryProofs!OpenCoreXMLLibrary <=> Library!OpenCoreXMLLibrary
  BY DEF LibraryProofs!OpenCoreXMLLibrary, Library!OpenCoreXMLLibrary
<1>4. LibraryProofs!OpenNextMedia <=> Library!OpenNextMedia
  BY SameLibraryHelpers, SameWithMedia, SameExtrema
     DEF LibraryProofs!OpenNextMedia, Library!OpenNextMedia
<1>5. LibraryProofs!OpenNextMediaThrows <=> Library!OpenNextMediaThrows
  BY SameLibraryHelpers DEF LibraryProofs!OpenNextMediaThrows, Library!OpenNextMediaThrows
<1>6. QED
  BY <1>1, <1>2, <1>3, <1>4, <1>5

LEMMA SameNormalize ==
  ASSUME NEW b
  PROVE  LibraryProofs!NormalizeFeatures(b) <=> Library!NormalizeFeatures(b)
BY SameLibraryHelpers, SameExtrema DEF LibraryProofs!NormalizeFeatures, Library!NormalizeFeatures,
     LibraryProofs!countVars, Library!countVars,
     LibraryProofs!diskVars, Library!diskVars

LEMMA SameAdd ==
  ASSUME NEW n
  PROVE  LibraryProofs!AddNumberOfFilesToImport(n) <=> Library!AddNumberOfFilesToImport(n)
BY DEF LibraryProofs!AddNumberOfFilesToImport, Library!AddNumberOfFilesToImport,
     LibraryProofs!diskVars, Library!diskVars

LEMMA SameNext ==
  [LibraryProofs!Next]_LibraryProofs!libraryVars <=> [Library!Next]_Library!libraryVars
<1>1. LibraryProofs!Next <=> Library!Next
  BY SameImportFile, SameOperations, SameNormalize, SameAdd
     DEF LibraryProofs!Next, Library!Next
<1>2. QED
  BY <1>1 DEF LibraryProofs!libraryVars, Library!libraryVars

\* What the invariant of the library says of its ids.
LEMMA LibraryFacts ==
  ASSUME LibraryInv
  PROVE  /\ mediaID \in Nat \cup {-1}
         /\ Ids = 0..mediaID
         /\ Ids \subseteq Nat
         /\ IsFiniteSet(Ids)
         /\ Cardinality(Ids) = mediaID + 1 /\ Cardinality(Ids) \in Nat
         /\ mediaID \in Int
         /\ index_last_normalized \in Nat \cup {-1}
         /\ files_to_import \in Nat /\ files_processed \in Nat
         /\ xml.count \in Nat
<1>1. LibraryProofs!TypeOK /\ LibraryProofs!IdsContiguous
  BY DEF LibraryInv, LibraryProofs!IInv
<1>2. mediaID \in Nat \cup {-1} /\ Ids = 0..mediaID
  BY <1>1, SameLibraryHelpers DEF LibraryProofs!TypeOK, LibraryProofs!IdsContiguous
<1>3. IsFiniteSet(Ids) /\ Cardinality(Ids) = mediaID + 1
  <2>1. mediaID \in Int
    BY <1>2
  <2>2. /\ IsFiniteSet(0..mediaID)
        /\ Cardinality(0..mediaID) = IF 0 > mediaID THEN 0 ELSE mediaID - 0 + 1
    BY <2>1, FS_Interval
  <2>3. QED
    BY <1>2, <2>2
<1>4. mediaID \in Int /\ mediaID + 1 \in Nat
  BY <1>2
<1>5. QED
  BY <1>1, <1>2, <1>3, <1>4 DEF LibraryProofs!TypeOK

LEMMA LibraryStep == LibraryInv /\ [Library!Next]_Library!libraryVars => LibraryInv'
BY LibraryProofs!StepInv, SameNext, LibraryAssumption DEF LibraryInv

LEMMA LibraryInit == Library!Init => LibraryInv
<1>1. LibraryProofs!Init <=> Library!Init
  BY SameLibraryHelpers DEF LibraryProofs!Init, Library!Init
<1>2. QED
  BY <1>1, LibraryProofs!InitInv, LibraryAssumption DEF LibraryInv

LEMMA NextIdIsNewest ==
  ASSUME LibraryInv
  PROVE  Library!NextMediaID = mediaID + 1
BY LibraryProofs!NextIsNewest, LibraryAssumption, SameLibraryHelpers DEF LibraryInv, LibraryProofs!IInv

\* The calls that the pipeline makes are steps of the library.
LEMMA Calls ==
  /\ \A n \in Nat : Library!AddNumberOfFilesToImport(n) /\ LibraryInv => [Library!Next]_Library!libraryVars
  /\ \A f \in Files : Library!ImportFile(f) => Library!Next
  /\ Library!NormalizeFeatures(TRUE) => Library!Next
  /\ index_last_normalized >= 0 /\ Library!NormalizeFeatures(FALSE) => Library!Next
  /\ Library!CleanLibrary => Library!Next
  /\ Library!SaveXMLLibrary => Library!Next
  /\ Library!OpenCoreXMLLibrary => Library!Next
  /\ Library!OpenNextMedia => Library!Next
  /\ Library!OpenNextMediaThrows => Library!Next
<1>1. ASSUME NEW n \in Nat, Library!AddNumberOfFilesToImport(n), LibraryInv
      PROVE  [Library!Next]_Library!libraryVars
  <2>1. files_to_import \in Nat
    BY <1>1, LibraryFacts
  <2>2. CASE n = 0
    <3>1. UNCHANGED Library!libraryVars
      BY <1>1, <2>1, <2>2 DEF Library!AddNumberOfFilesToImport, Library!libraryVars, Library!diskVars
    <3>2. QED
      BY <3>1
  <2>3. CASE n # 0
    <3>1. n \in 1..MaxCount
      BY <1>1, <2>1, <2>3, LibraryAssumption DEF Library!AddNumberOfFilesToImport
    <3>2. QED
      BY <1>1, <3>1 DEF Library!Next
  <2>4. QED
    BY <2>2, <2>3
<1>2. /\ \A f \in Files : Library!ImportFile(f) => Library!Next
      /\ Library!NormalizeFeatures(TRUE) => Library!Next
      /\ index_last_normalized >= 0 /\ Library!NormalizeFeatures(FALSE) => Library!Next
      /\ Library!CleanLibrary => Library!Next
      /\ Library!SaveXMLLibrary => Library!Next
      /\ Library!OpenCoreXMLLibrary => Library!Next
      /\ Library!OpenNextMedia => Library!Next
      /\ Library!OpenNextMediaThrows => Library!Next
  BY DEF Library!Next
<1>3. QED
  BY <1>1, <1>2

\* Importing a file never takes an id away.
LEMMA ImportFileGrows ==
  ASSUME LibraryInv, NEW f \in Files, Library!ImportFile(f)
  PROVE  /\ LibraryInv'
         /\ mediaID' \in Int /\ mediaID' >= mediaID
         /\ Ids \subseteq Ids'
         /\ UNCHANGED index_last_normalized
<1>1. LibraryInv'
  BY Calls, LibraryStep
<1>2. mediaID \in Int /\ mediaID' \in Int /\ Ids = 0..mediaID /\ Ids' = 0..mediaID'
  <2>1. mediaID \in Nat \cup {-1} /\ Ids = 0..mediaID
    BY LibraryFacts
  <2>2. (mediaID \in Nat \cup {-1} /\ Ids = 0..mediaID)'
    BY <1>1, LibraryFacts, PTL
  <2>3. QED
    BY <2>1, <2>2
<1>3. mediaID' >= mediaID /\ UNCHANGED index_last_normalized
  <2>1. CASE Library!ImportSkipped(f)
    BY <1>2, <2>1 DEF Library!ImportSkipped
  <2>2. CASE Library!ImportFailed(f)
    BY <1>2, <2>2 DEF Library!ImportFailed
  <2>3. ASSUME NEW segs \in Library!Segmentations, Library!ImportSucceeded(f, segs)
        PROVE  mediaID' >= mediaID /\ UNCHANGED index_last_normalized
    <3>1. PICK n \in Nat : segs \in [1..n -> BOOLEAN]
      BY LibraryAssumption DEF Library!Segmentations
    <3>2. Library!Cardinality({i \in DOMAIN segs : segs[i]}) \in Nat
      <4> DEFINE kept == {i \in DOMAIN segs : segs[i]}
      <4>1. IsFiniteSet(1..n) /\ kept \in SUBSET (1..n)
        BY <3>1, FS_Interval
      <4>2. IsFiniteSet(kept)
        BY <4>1, FS_Subset
      <4>3. QED
        BY <4>2, FS_CardinalityType, SameExtrema
    <3>3. mediaID' = mediaID + 1 + Library!Cardinality({i \in DOMAIN segs : segs[i]})
      BY <2>3, NextIdIsNewest DEF Library!ImportSucceeded
    <3>4. QED
      BY <1>2, <2>3, <3>2, <3>3 DEF Library!ImportSucceeded
  <2>4. QED
    BY <2>1, <2>2, <2>3 DEF Library!ImportFile
<1>4. QED
  BY <1>1, <1>2, <1>3

\* So does reading an element of an XML library.
LEMMA OpenNextGrows ==
  ASSUME LibraryInv, Library!OpenNextMedia
  PROVE  /\ LibraryInv'
         /\ mediaID' \in Int /\ mediaID' >= mediaID
         /\ Ids \subseteq Ids'
         /\ UNCHANGED index_last_normalized
<1>1. LibraryInv'
  BY Calls, LibraryStep
<1>2. mediaID \in Int /\ mediaID' \in Int /\ Ids = 0..mediaID /\ Ids' = 0..mediaID'
  <2>1. mediaID \in Nat \cup {-1} /\ Ids = 0..mediaID
    BY LibraryFacts
  <2>2. (mediaID \in Nat \cup {-1} /\ Ids = 0..mediaID)'
    BY <1>1, LibraryFacts, PTL
  <2>3. QED
    BY <2>1, <2>2
<1> DEFINE e == toRead[Library!Min(DOMAIN toRead)]
<1>3. e.segments \in Nat
  <2>1. DOMAIN toRead \subseteq Nat /\ toRead \in [DOMAIN toRead -> LibraryProofs!Element]
    BY DEF LibraryInv, LibraryProofs!IInv, LibraryProofs!TypeOK
  <2>2. Min(DOMAIN toRead) \in DOMAIN toRead
    BY <2>1, MinimumOfNaturals DEF Library!OpenNextMedia
  <2>3. QED
    BY <2>1, <2>2, SameExtrema DEF LibraryProofs!Element
<1>4. mediaID' = mediaID + 1 + e.segments
  BY NextIdIsNewest DEF Library!OpenNextMedia
<1>5. QED
  BY <1>1, <1>2, <1>3, <1>4 DEF Library!OpenNextMedia

\* Normalising leaves the ids as they are; afterwards something is normalised.
LEMMA NormaliseEffect ==
  ASSUME LibraryInv, NEW b \in BOOLEAN, Normalise(b),
         b \/ index_last_normalized >= 0 \/ Ids = {}
  PROVE  /\ LibraryInv'
         /\ [Library!Next]_Library!libraryVars
         /\ UNCHANGED mediaID /\ Ids' = Ids
         /\ index_last_normalized' >= 0 \/ (Ids = {} /\ UNCHANGED index_last_normalized)
<1>1. CASE Ids = {}
  <2>1. UNCHANGED libraryVars
    BY <1>1 DEF Normalise
  <2>2. UNCHANGED Library!libraryVars /\ UNCHANGED mediaID /\ Ids' = Ids /\ UNCHANGED index_last_normalized
    BY <2>1 DEF libraryVars, Library!libraryVars, Ids
  <2>3. QED
    BY <1>1, <2>2, LibraryStep
<1>2. CASE Ids # {}
  <2>1. Library!NormalizeFeatures(b)
    BY <1>2 DEF Normalise
  <2>2. Library!Next
    <3>1. CASE b = TRUE
      BY <2>1, <3>1, Calls
    <3>2. CASE b = FALSE
      BY <1>2, <2>1, <3>2, Calls
    <3>3. QED
      BY <3>1, <3>2
  <2>3. LibraryInv'
    BY <2>2, LibraryStep
  <2>4. UNCHANGED mediaID /\ Ids' = Ids
    BY <2>1, SameLibraryHelpers DEF Library!NormalizeFeatures, Library!countVars, Ids
  <2>5. index_last_normalized' = Max(Ids) /\ Max(Ids) = mediaID /\ mediaID \in Nat
    <3>1. index_last_normalized' = Max(Ids)
      BY <2>1, SameLibraryHelpers, SameExtrema DEF Library!NormalizeFeatures
    <3>2. LibraryProofs!Max(Ids) = mediaID /\ mediaID \in Nat
      BY <1>2, LibraryProofs!MaxIsNewest, LibraryAssumption, SameLibraryHelpers
         DEF LibraryInv, LibraryProofs!IInv
    <3>3. QED
      BY <3>1, <3>2, SameExtrema
  <2>6. QED
    BY <2>2, <2>3, <2>4, <2>5
<1>3. QED
  BY <1>1, <1>2

\* The other calls leave the media alone, but for the one that cleans.
LEMMA OtherCalls ==
  ASSUME LibraryInv,
         \/ \E n \in Nat : Library!AddNumberOfFilesToImport(n)
         \/ Library!SaveXMLLibrary
         \/ Library!OpenCoreXMLLibrary
         \/ Library!OpenNextMediaThrows
  PROVE  /\ LibraryInv'
         /\ [Library!Next]_Library!libraryVars
         /\ UNCHANGED <<mediaID, index_last_normalized>> /\ Ids' = Ids
<1>1. [Library!Next]_Library!libraryVars
  BY Calls
<1>2. UNCHANGED <<media, mediaID, index_last_normalized>>
  BY DEF Library!AddNumberOfFilesToImport, Library!SaveXMLLibrary, Library!OpenCoreXMLLibrary,
     Library!OpenNextMediaThrows
<1>3. QED
  BY <1>1, <1>2, LibraryStep DEF Ids

LEMMA CleanEffect ==
  ASSUME LibraryInv, Library!CleanLibrary
  PROVE  LibraryInv' /\ Ids' = {} /\ index_last_normalized' = -1
<1>1. LibraryInv'
  BY Calls, LibraryStep
<1>2. Ids' = {}
  BY DEF Library!CleanLibrary, Library!Empty, Ids
<1>3. QED
  BY <1>1, <1>2 DEF Library!CleanLibrary

-----------------------------------------------------------------------------
(* The invariant.                                                          *)

\* The user at least lets an import be announced as finished.
Patient == User \in {"serial", "waits"}

Busy(t) == pc[t] \notin {"idle", "ending"}
Importing(t) == pc[t] \in {"normalise", "node", "event"}
Cleaning == gui \in {"clean library", "clean browser"}

Event == [kind : {"imported", "all imported", "cleaned"}, n : Nat, nTot : Nat,
          ids : SUBSET (Nat \cup {-1})]

TypeOK ==
  /\ nodes \subseteq Nat /\ renderers \subseteq Nat
  /\ importing \in BOOLEAN /\ locked \in BOOLEAN /\ loading \in BOOLEAN
  /\ prevLibrarySize \in Nat
  /\ import_directories \in Seq(Files)
  /\ pc \in [Threads -> {"idle", "scan", "file", "normalise", "node", "event", "ending"}]
  /\ files \in [Threads -> Seq(Files)]
  /\ total \in [Threads -> Nat]
  /\ ids \in [Threads -> SUBSET Nat]
  /\ needs \in [Threads -> BOOLEAN]
  /\ gui \in {"idle", "clean library", "clean browser",
              "load", "load nodes", "load finish"}
  /\ begin \in Nat \cup {-1}
  /\ queue \in [Listeners -> Seq(Event)]

\* One import at a time, and none while the GUI thread cleans or loads.
Turns ==
  /\ \A s, t \in Threads : Busy(s) /\ Busy(t) => s = t
  /\ gui # "idle" => \A t \in Threads : ~Busy(t)
  /\ User = "waits" => \A s, t \in Threads : pc[s] # "idle" /\ pc[t] # "idle" => s = t
  /\ User = "waits" /\ gui # "idle" => \A t \in Threads : pc[t] = "idle"

\* A thread that has media to announce has taken a file, and they are in the
\* library; the one it announces next has its node.
ThreadsInv ==
  \A t \in Threads :
    /\ pc[t] = "file" => Len(files[t]) <= total[t]
    /\ Importing(t) => Len(files[t]) < total[t] /\ ids[t] # {}
    /\ ~Importing(t) => ids[t] = {}
    /\ ids[t] \subseteq Ids
    /\ pc[t] = "event" => Min(ids[t]) \in nodes

\* Once the library has had its first full normalisation, or is about to have
\* it, an incremental one finds something normalised.
NormalisedInv ==
  /\ prevLibrarySize > 0 =>
       \/ index_last_normalized >= 0
       \/ \E t \in Threads : pc[t] = "normalise" /\ needs[t]
  /\ \A t \in Threads : pc[t] = "normalise" /\ ~needs[t] => index_last_normalized >= 0
  /\ gui = "clean library" => prevLibrarySize = 0

ThreadInv == TypeOK /\ LibraryInv /\ Turns /\ ThreadsInv /\ NormalisedInv

USE DEF IsFinish

LEMMA InitThreads == Init => ThreadInv
<1> SUFFICES ASSUME Init PROVE ThreadInv
  OBVIOUS
<1>1. LibraryInv
  BY LibraryInit DEF Init
<1>2. TypeOK
  <2>1. <<>> \in Seq(Files) /\ <<>> \in Seq(Event)
    BY EmptySeq
  <2>2. /\ files \in [Threads -> Seq(Files)] /\ import_directories \in Seq(Files)
        /\ queue \in [Listeners -> Seq(Event)]
    BY <2>1 DEF Init
  <2>3. /\ pc \in [Threads -> {"idle", "scan", "file", "normalise", "node", "event", "ending"}]
        /\ total \in [Threads -> Nat]
        /\ ids \in [Threads -> SUBSET Nat]
        /\ needs \in [Threads -> BOOLEAN]
    BY DEF Init
  <2>4. QED
    BY <2>2, <2>3 DEF Init, TypeOK
<1>3. Turns
  BY DEF Init, Turns, Busy
<1>4. ThreadsInv
  BY DEF Init, ThreadsInv, Importing
<1>5. NormalisedInv
  BY DEF Init, NormalisedInv
<1>6. QED
  BY <1>1, <1>2, <1>3, <1>4, <1>5 DEF ThreadInv

\* What the user's turn means.
LEMMA UsersTurn ==
  ASSUME Patient, UserMayAct
  PROVE  /\ gui = "idle" /\ ~locked
         /\ \A t \in Threads : ~Busy(t)
         /\ User = "waits" => \A t \in Threads : pc[t] = "idle"
         /\ User = "waits" => \A l \in Listeners : queue[l] = <<>>
BY DEF Patient, UserMayAct, Busy

\* What the steps do to the library: the ids only grow, but for CleanTheLibrary.
LEMMA LibraryMoves ==
  ASSUME ThreadInv, [Next]_vars
  PROVE  /\ LibraryInv'
         /\ [Library!Next]_Library!libraryVars
         /\ \/ CleanTheLibrary /\ Ids' = {} /\ index_last_normalized' = -1
            \/ /\ Ids \subseteq Ids'
               /\ mediaID' >= mediaID
               /\ index_last_normalized' >= 0 \/ UNCHANGED index_last_normalized
<1>0. /\ LibraryInv
      /\ mediaID \in Int
  BY LibraryFacts DEF ThreadInv
<1> DEFINE Grows == /\ Ids \subseteq Ids'
                    /\ mediaID' >= mediaID
                    /\ index_last_normalized' >= 0 \/ UNCHANGED index_last_normalized
           Moves == LibraryInv' /\ [Library!Next]_Library!libraryVars
<1>1. ASSUME UNCHANGED libraryVars PROVE Moves /\ Grows
  <2>1. UNCHANGED Library!libraryVars /\ Ids' = Ids /\ mediaID' = mediaID
        /\ UNCHANGED index_last_normalized
    BY <1>1 DEF libraryVars, Library!libraryVars, Ids
  <2>2. QED
    BY <1>0, <2>1, LibraryStep
<1>2. ASSUME NEW t \in Threads, Scan(t) PROVE Moves /\ Grows
  <2>1. Len(import_directories) \in Nat
    BY LenProperties DEF ThreadInv, TypeOK
  <2>2. Library!AddNumberOfFilesToImport(Len(import_directories))
    BY <1>2 DEF Scan
  <2>3. QED
    BY <1>0, <2>1, <2>2, OtherCalls
<1>3. ASSUME NEW t \in Threads, ImportNext(t) PROVE Moves /\ Grows
  <2>1. Head(files[t]) \in Files /\ Library!ImportFile(Head(files[t]))
    BY <1>3, HeadTailProperties DEF ImportNext, ThreadInv, TypeOK
  <2>2. QED
    BY <1>0, <2>1, ImportFileGrows, Calls
<1>4. ASSUME NEW t \in Threads, NormaliseNew(t) PROVE Moves /\ Grows
  <2>1. needs[t] \in BOOLEAN /\ (needs[t] \/ index_last_normalized >= 0)
    BY <1>4 DEF NormaliseNew, ThreadInv, NormalisedInv, TypeOK
  <2>2. QED
    BY <1>0, <1>4, <2>1, NormaliseEffect DEF NormaliseNew
<1>5. ASSUME CleanTheLibrary
      PROVE  Moves /\ Ids' = {} /\ index_last_normalized' = -1
  BY <1>0, <1>5, CleanEffect, Calls DEF CleanTheLibrary
<1>6. ASSUME SaveXML \/ LoadXML \/ LoadFails PROVE Moves /\ Grows
  BY <1>0, <1>6, OtherCalls DEF SaveXML, LoadXML, LoadFails
<1>7. ASSUME LoadNext PROVE Moves /\ Grows
  BY <1>0, <1>7, OpenNextGrows, Calls DEF LoadNext
<1>8. ASSUME LoadNormalises PROVE Moves /\ Grows
  <2>1. PICK b \in BOOLEAN : b /\ Normalise(b)
    BY <1>8, Zenon DEF LoadNormalises
  <2>2. b \/ index_last_normalized >= 0 \/ Ids = {}
    BY <2>1
  <2>3. /\ LibraryInv'
        /\ [Library!Next]_Library!libraryVars
        /\ UNCHANGED mediaID /\ Ids' = Ids
        /\ index_last_normalized' >= 0 \/ (Ids = {} /\ UNCHANGED index_last_normalized)
    BY <1>0, <2>1, <2>2, NormaliseEffect, Zenon
  <2>4. QED
    BY <1>0, <2>3
<1>9. ASSUME NEW t \in Threads, InitializeNode(t) \/ RaiseImported(t) \/ Finish(t) \/ End(t)
      PROVE  UNCHANGED libraryVars
  BY <1>9 DEF InitializeNode, RaiseImported, Finish, End
<1>10. ASSUME \/ \E t \in Threads, selection \in Selections : StartImport(t, selection)
              \/ Clean \/ CleanBrowser \/ LoadNodes \/ LoadFinish
       PROVE  UNCHANGED libraryVars
  BY <1>10 DEF StartImport, Clean, CleanBrowser, LoadNodes, LoadFinish
<1>11. ASSUME ListenersHandle PROVE UNCHANGED libraryVars
  BY <1>11 DEF ListenersHandle, RendererHandles, RendererImported, RendererAllImported,
     RendererCleaned, WindowHandles, ViewHandles, Pop
<1>12. ASSUME UNCHANGED vars PROVE UNCHANGED libraryVars
  BY <1>12 DEF vars
<1> HIDE DEF Moves, Grows
<1>13. (Moves /\ Grows) \/ (CleanTheLibrary /\ Moves /\ Ids' = {} /\ index_last_normalized' = -1)
  BY <1>1, <1>2, <1>3, <1>4, <1>5, <1>6, <1>7, <1>8, <1>9, <1>10, <1>11, <1>12
     DEF Next, ImportThread, UserActs, GuiGoesOn
<1>14. QED
  BY <1>13 DEF Moves, Grows

\* The events the actions raise.
LEMMA EventTypes ==
  /\ \A n, m \in Nat, i \in Nat \cup {-1} : Imported(n, m, i) \in Event
  /\ \A n, m \in Nat : \A new \in SUBSET Nat : AllImported(n, m, new) \in Event
  /\ Cleaned \in Event
BY DEF Imported, AllImported, Cleaned, Event

LEMMA FinishType ==
  ASSUME LibraryInv, EmitFinished
  PROVE  \E n \in Nat : Emit(Imported(n, n, -1)) /\ n = Cardinality(Ids)
<1>1. Cardinality(Ids) \in Nat
  BY LibraryFacts
<1>2. QED
  BY <1>1 DEF EmitFinished

\* What a raised event does to the queues, and what handling one does.
LEMMA EmitEffect ==
  ASSUME TypeOK, NEW ev \in Event, Emit(ev)
  PROVE  /\ queue' \in [Listeners -> Seq(Event)]
         /\ \A l \in Listeners :
              /\ Len(queue'[l]) = Len(queue[l]) + 1 /\ Len(queue[l]) \in Nat
              /\ DOMAIN queue[l] = 1..Len(queue[l])
              /\ DOMAIN queue'[l] = 1..(Len(queue[l]) + 1)
              /\ \A i \in 1..Len(queue[l]) : queue'[l][i] = queue[l][i]
              /\ queue'[l][Len(queue[l]) + 1] = ev
<1>1. ASSUME NEW l \in Listeners
      PROVE  /\ queue'[l] \in Seq(Event)
             /\ Len(queue'[l]) = Len(queue[l]) + 1 /\ Len(queue[l]) \in Nat
             /\ DOMAIN queue[l] = 1..Len(queue[l])
             /\ DOMAIN queue'[l] = 1..(Len(queue[l]) + 1)
             /\ \A i \in 1..Len(queue[l]) : queue'[l][i] = queue[l][i]
             /\ queue'[l][Len(queue[l]) + 1] = ev
  <2>1. queue[l] \in Seq(Event) /\ queue'[l] = Append(queue[l], ev)
    BY DEF TypeOK, Emit
  <2>2. QED
    BY <2>1, AppendProperties, LenProperties
<1>2. queue' = [l \in Listeners |-> queue'[l]]
  BY DEF Emit
<1>3. QED
  BY <1>1, <1>2

LEMMA PopEffect ==
  ASSUME TypeOK, NEW l \in Listeners, Pop(l)
  PROVE  /\ queue' \in [Listeners -> Seq(Event)]
         /\ \A k \in Listeners : k # l => queue'[k] = queue[k]
         /\ Len(queue[l]) \in Nat /\ Len(queue[l]) > 0
         /\ Len(queue'[l]) = Len(queue[l]) - 1
         /\ DOMAIN queue[l] = 1..Len(queue[l])
         /\ DOMAIN queue'[l] = 1..(Len(queue[l]) - 1)
         /\ \A i \in 1..(Len(queue[l]) - 1) : queue'[l][i] = queue[l][i + 1]
         /\ Oldest(l) = queue[l][1] /\ Oldest(l) \in Event
<1>1. queue[l] \in Seq(Event) /\ queue[l] # <<>> /\ queue' = [queue EXCEPT ![l] = Tail(queue[l])]
  BY DEF TypeOK, Pop
<1>2. /\ Tail(queue[l]) \in Seq(Event)
      /\ Len(Tail(queue[l])) = Len(queue[l]) - 1
      /\ \A i \in 1..Len(Tail(queue[l])) : Tail(queue[l])[i] = queue[l][i + 1]
      /\ Head(queue[l]) \in Event
  BY <1>1, HeadTailProperties
<1>3. Len(queue[l]) \in Nat /\ DOMAIN queue[l] = 1..Len(queue[l]) /\ Len(queue[l]) > 0
  BY <1>1, LenProperties, EmptySeq
<1>4. queue'[l] = Tail(queue[l]) /\ \A k \in Listeners : k # l => queue'[k] = queue[k]
  BY <1>1 DEF TypeOK
<1>5. DOMAIN queue'[l] = 1..(Len(queue[l]) - 1)
  BY <1>2, <1>4, LenProperties
<1>6. queue' \in [Listeners -> Seq(Event)]
  BY <1>1, <1>2 DEF TypeOK
<1>7. Head(queue[l]) = queue[l][1]
  BY <1>1
<1>8. QED
  BY <1>2, <1>3, <1>4, <1>5, <1>6, <1>7 DEF Oldest

LEMMA StepTyping ==
  ASSUME ThreadInv, [Next]_vars
  PROVE  TypeOK'
<1>0. TypeOK /\ LibraryInv /\ ThreadsInv /\ LibraryInv'
  BY LibraryMoves DEF ThreadInv
<1>1. /\ Ids \subseteq Nat /\ Ids' \subseteq Nat
      /\ Cardinality(Ids) \in Nat /\ Cardinality(Ids') \in Nat
      /\ mediaID \in Int
      /\ files_to_import \in Nat /\ files_processed \in Nat
      /\ xml.count \in Nat
  <2>1. Ids \subseteq Nat /\ Cardinality(Ids) \in Nat /\ mediaID \in Int
        /\ files_to_import \in Nat /\ files_processed \in Nat /\ xml.count \in Nat
    BY <1>0, LibraryFacts
  <2>2. (Ids \subseteq Nat /\ Cardinality(Ids) \in Nat)'
    BY <1>0, LibraryFacts, PTL
  <2>3. QED
    BY <2>1, <2>2
<1>2. ASSUME NEW t \in Threads, Scan(t) PROVE TypeOK'
  <2>1. Len(import_directories) \in Nat /\ import_directories \in Seq(Files)
    BY <1>0, LenProperties DEF TypeOK
  <2>2. queue' \in [Listeners -> Seq(Event)]
    <3>1. Imported(0, Len(import_directories), -1) \in Event
      BY <2>1, EventTypes
    <3>2. QED
      BY <1>0, <1>2, <3>1, EmitEffect DEF Scan
  <2>3. QED
    BY <1>0, <1>2, <2>1, <2>2 DEF TypeOK, Scan, guiVars, listenerVars
<1>3. ASSUME NEW t \in Threads, ImportNext(t) PROVE TypeOK'
  <2>1. Tail(files[t]) \in Seq(Files)
    BY <1>0, <1>3, HeadTailProperties DEF TypeOK, ImportNext
  <2>2. /\ files' = [files EXCEPT ![t] = Tail(files[t])]
        /\ ids' = [ids EXCEPT ![t] = Ids' \ Ids]
        /\ needs' = needs \/ \E b \in BOOLEAN : needs' = [needs EXCEPT ![t] = b]
        /\ prevLibrarySize' \in {prevLibrarySize, Cardinality(Ids')}
        /\ pc' = pc \/ pc' = [pc EXCEPT ![t] = "normalise"]
        /\ UNCHANGED <<nodes, importing, import_directories, total, guiVars, queue, listenerVars>>
    BY <1>3 DEF ImportNext
  <2>3. QED
    BY <1>0, <1>1, <2>1, <2>2 DEF TypeOK, guiVars, listenerVars
<1>4. ASSUME NEW t \in Threads, NormaliseNew(t) PROVE TypeOK'
  BY <1>0, <1>4 DEF TypeOK, NormaliseNew, guiVars, listenerVars
<1>5. ASSUME NEW t \in Threads, InitializeNode(t) PROVE TypeOK'
  BY <1>0, <1>1, <1>5 DEF TypeOK, InitializeNode, guiVars, listenerVars
<1>6. ASSUME NEW t \in Threads, RaiseImported(t) PROVE TypeOK'
  <2>1. Importing(t) /\ ids[t] # {} /\ ids[t] \subseteq Nat /\ Len(files[t]) < total[t]
        /\ total[t] \in Nat /\ Len(files[t]) \in Nat
    BY <1>0, <1>6, LenProperties DEF RaiseImported, Importing, ThreadsInv, TypeOK
  <2>2. Min(ids[t]) \in Nat
    BY <2>1, MinimumOfNaturals
  <2>3. Imported(total[t] - Len(files[t]), total[t], Min(ids[t])) \in Event
    BY <2>1, <2>2, EventTypes
  <2>4. queue' \in [Listeners -> Seq(Event)]
    BY <1>0, <1>6, <2>3, EmitEffect DEF RaiseImported
  <2>5. /\ ids' = [ids EXCEPT ![t] = ids[t] \ {Min(ids[t])}]
        /\ needs' = needs \/ needs' = [needs EXCEPT ![t] = FALSE]
        /\ pc' = [pc EXCEPT ![t] = "file"] \/ pc' = [pc EXCEPT ![t] = "node"]
        /\ UNCHANGED <<libraryVars, nodes, importing, prevLibrarySize,
                       import_directories, files, total, guiVars, listenerVars>>
    BY <1>6 DEF RaiseImported
  <2>6. QED
    BY <1>0, <2>4, <2>5 DEF TypeOK, guiVars, listenerVars
<1>7. ASSUME EmitFinished PROVE queue' \in [Listeners -> Seq(Event)]
  BY <1>0, <1>7, FinishType, EventTypes, EmitEffect
<1>8. ASSUME NEW t \in Threads, Finish(t) PROVE TypeOK'
  BY <1>0, <1>7, <1>8 DEF TypeOK, Finish, guiVars, listenerVars
<1>9. ASSUME NEW t \in Threads, End(t) PROVE TypeOK'
  BY <1>0, <1>9 DEF TypeOK, End, guiVars, listenerVars
<1>10. ASSUME NEW t \in Threads, NEW selection \in Selections, StartImport(t, selection) PROVE TypeOK'
  BY <1>0, <1>10, SelectionsAssumption DEF TypeOK, StartImport, guiVars, listenerVars
<1>11. ASSUME Clean PROVE TypeOK'
  <2>1. queue' \in [Listeners -> Seq(Event)]
    BY <1>0, <1>11, EventTypes, EmitEffect DEF Clean
  <2>2. QED
    BY <1>0, <1>11, <2>1 DEF TypeOK, Clean, threadVars, listenerVars
<1>12. ASSUME CleanTheLibrary \/ CleanBrowser \/ SaveXML \/ LoadNext \/ LoadNormalises PROVE TypeOK'
  BY <1>0, <1>12 DEF TypeOK, CleanTheLibrary, CleanBrowser, SaveXML, LoadNext, LoadNormalises,
     threadVars, guiVars, listenerVars
<1>13. ASSUME LoadXML PROVE TypeOK'
  <2>1. queue' \in [Listeners -> Seq(Event)]
    <3>1. Imported(0, xml.count, -1) \in Event
      BY <1>1, EventTypes
    <3>2. QED
      BY <1>0, <1>13, <3>1, EmitEffect DEF LoadXML
  <2>2. QED
    <3>1. mediaID \in Nat \cup {-1}
      BY <1>0, LibraryFacts
    <3>2. QED
      BY <1>0, <1>13, <2>1, <3>1 DEF TypeOK, LoadXML, threadVars, listenerVars
<1>14. ASSUME LoadFails PROVE TypeOK'
  BY <1>0, <1>7, <1>14 DEF TypeOK, LoadFails, threadVars, listenerVars
<1>15. ASSUME LoadNodes PROVE TypeOK'
  <2>1. begin + 1 \in Nat /\ begin + 1..mediaID \in SUBSET Nat
    <3>1. begin \in Nat \cup {-1} /\ mediaID \in Int
      BY <1>0, <1>1 DEF TypeOK
    <3>2. begin + 1 \in Nat
      BY <3>1
    <3>3. \A x \in begin + 1..mediaID : x \in Nat
      BY <3>1, <3>2
    <3>4. QED
      BY <3>2, <3>3
  <2>2. AllImported(files_processed, files_to_import, begin + 1..mediaID) \in Event
    BY <1>1, <2>1, EventTypes
  <2>3. queue' \in [Listeners -> Seq(Event)]
    BY <1>0, <1>15, <2>2, EmitEffect DEF LoadNodes
  <2>4. QED
    BY <1>0, <1>1, <1>15, <2>3 DEF TypeOK, LoadNodes, threadVars, listenerVars
<1>16. ASSUME LoadFinish PROVE TypeOK'
  BY <1>0, <1>7, <1>16 DEF TypeOK, LoadFinish, threadVars, listenerVars
<1>17. ASSUME NEW l \in Listeners, Pop(l),
              renderers' \subseteq Nat /\ locked' \in BOOLEAN /\ loading' \in BOOLEAN
       PROVE  TypeOK'
  BY <1>0, <1>17, PopEffect DEF TypeOK, Pop, threadVars, guiVars
<1>18. ASSUME ListenersHandle PROVE TypeOK'
  <2>1. CASE RendererHandles
    <3>1. renderers' \subseteq Nat /\ locked' \in BOOLEAN /\ loading' \in BOOLEAN
      BY <1>0, <2>1 DEF RendererHandles, RendererImported, RendererAllImported, RendererCleaned, TypeOK
    <3>2. QED
      BY <1>17, <2>1, <3>1 DEF RendererHandles, RendererImported, RendererAllImported, RendererCleaned
  <2>2. CASE "window" \in Listeners /\ WindowHandles
    <3>1. renderers' \subseteq Nat /\ locked' \in BOOLEAN /\ loading' \in BOOLEAN
      BY <1>0, <2>2 DEF WindowHandles, TypeOK
    <3>2. QED
      BY <1>17, <2>2, <3>1 DEF WindowHandles
  <2>3. CASE "view" \in Listeners /\ ViewHandles
    BY <1>0, <1>17, <2>3 DEF ViewHandles, TypeOK
  <2>4. QED
    BY <1>18, <2>1, <2>2, <2>3 DEF ListenersHandle
<1>19. ASSUME UNCHANGED vars PROVE TypeOK'
  BY <1>0, <1>19 DEF TypeOK, vars, threadVars, guiVars, listenerVars
<1>20. QED
  BY <1>2, <1>3, <1>4, <1>5, <1>6, <1>8, <1>9, <1>10, <1>11, <1>12, <1>13, <1>14, <1>15,
     <1>16, <1>18, <1>19 DEF Next, ImportThread, UserActs, GuiGoesOn

LEMMA StepTurns ==
  ASSUME Patient, ThreadInv, [Next]_vars
  PROVE  Turns'
<1>0. TypeOK /\ Turns
  BY DEF ThreadInv
<1>1. ASSUME NEW t \in Threads, ImportThread(t) PROVE Turns'
  <2>1. /\ UNCHANGED gui
        /\ pc[t] # "idle"
        /\ pc' = pc \/ \E p \in {"file", "normalise", "node", "event", "ending", "idle"} :
             pc' = [pc EXCEPT ![t] = p] /\ (pc[t] = "ending" => p = "idle")
    BY <1>1, Zenon DEF ImportThread, Scan, ImportNext, NormaliseNew, InitializeNode, RaiseImported,
       Finish, End, guiVars
  <2>2. CASE pc' = pc
    BY <1>0, <2>1, <2>2 DEF Turns, Busy
  <2>3. ASSUME NEW p \in {"file", "normalise", "node", "event", "ending", "idle"},
               pc' = [pc EXCEPT ![t] = p], pc[t] = "ending" => p = "idle"
        PROVE  Turns'
    <3>1. \A s \in Threads : pc'[s] = IF s = t THEN p ELSE pc[s]
      BY <1>0, <2>3 DEF TypeOK
    <3>2. \A s \in Threads : Busy(s)' => Busy(s)
      BY <2>1, <2>3, <3>1 DEF Busy
    <3>3. \A s \in Threads : pc'[s] # "idle" => pc[s] # "idle"
      BY <2>1, <3>1
    <3>4. QED
      BY <1>0, <2>1, <3>2, <3>3 DEF Turns
  <2>4. QED
    BY <2>1, <2>2, <2>3
<1>2. ASSUME NEW t \in Threads, NEW selection \in Selections, StartImport(t, selection) PROVE Turns'
  <2>1. \A s \in Threads : pc'[s] = IF s = t THEN "scan" ELSE pc[s]
    BY <1>0, <1>2 DEF StartImport, TypeOK
  <2>2. gui' = "idle" /\ \A s \in Threads : ~Busy(s)
    BY <1>2, UsersTurn DEF StartImport, guiVars
  <2>3. User = "waits" => \A s \in Threads : pc[s] = "idle"
    BY <1>2, UsersTurn DEF StartImport
  <2>4. \A s \in Threads : Busy(s)' => s = t
    BY <2>1, <2>2 DEF Busy
  <2>5. User = "waits" => \A s \in Threads : pc'[s] # "idle" => s = t
    BY <2>1, <2>3
  <2>6. QED
    BY <2>2, <2>4, <2>5 DEF Turns
<1>3. ASSUME UNCHANGED pc, gui' = "idle" \/ gui # "idle" PROVE Turns'
  BY <1>0, <1>3 DEF Turns, Busy
<1>4. ASSUME UserMayAct, UNCHANGED pc PROVE Turns'
  BY <1>0, <1>4, UsersTurn DEF Turns, Busy
<1>5. CASE Clean \/ LoadXML \/ SaveXML
  BY <1>4, <1>5 DEF Clean, LoadXML, SaveXML, threadVars
<1>6. CASE GuiGoesOn
  BY <1>3, <1>6 DEF GuiGoesOn, CleanTheLibrary, CleanBrowser, LoadNext, LoadFails, LoadNormalises,
     LoadNodes, LoadFinish, threadVars, guiVars
<1>7. CASE ListenersHandle
  <2>1. UNCHANGED <<pc, gui>>
    BY <1>7 DEF ListenersHandle, RendererHandles, RendererImported, RendererAllImported,
       RendererCleaned, WindowHandles, ViewHandles, Pop, threadVars, guiVars
  <2>2. QED
    BY <1>0, <2>1 DEF Turns, Busy
<1>8. CASE UNCHANGED vars
  BY <1>0, <1>8 DEF vars, threadVars, guiVars, Turns, Busy
<1>9. QED
  BY <1>1, <1>2, <1>5, <1>6, <1>7, <1>8 DEF Next, UserActs

\* A step that leaves the threads where they are.
LEMMA ThreadsUnmoved ==
  ASSUME ThreadInv, LibraryInv', UNCHANGED <<pc, files, total, ids, nodes>>, Ids \subseteq Ids'
  PROVE  ThreadsInv'
BY DEF ThreadInv, ThreadsInv, Importing

LEMMA StepThreads ==
  ASSUME Patient, ThreadInv, [Next]_vars
  PROVE  ThreadsInv'
<1>0. /\ TypeOK /\ Turns /\ ThreadsInv /\ LibraryInv'
      /\ Ids \subseteq Ids' \/ (CleanTheLibrary /\ Ids' = {})
  BY LibraryMoves DEF ThreadInv
<1>a. ASSUME NEW t \in Threads PROVE Len(files[t]) \in Nat /\ total[t] \in Nat
  BY <1>0, LenProperties DEF TypeOK
<1> DEFINE Fine(t) == /\ pc[t] = "file" => Len(files[t]) <= total[t]
                      /\ Importing(t) => Len(files[t]) < total[t] /\ ids[t] # {}
                      /\ ~Importing(t) => ids[t] = {}
                      /\ ids[t] \subseteq Ids
                      /\ pc[t] = "event" => Min(ids[t]) \in nodes
<1>b. \A t \in Threads : Fine(t)
  BY <1>0 DEF ThreadsInv
<1>c. ASSUME NEW t \in Threads, gui = gui', gui = "idle" \/ Busy(t),
             nodes \subseteq nodes', Ids \subseteq Ids',
             \A s \in Threads \ {t} : /\ pc'[s] = pc[s] /\ files'[s] = files[s]
                                     /\ total'[s] = total[s] /\ ids'[s] = ids[s],
             Fine(t)'
      PROVE  ThreadsInv'
  <2>1. \A s \in Threads \ {t} : Fine(s)'
    BY <1>b, <1>c DEF Importing
  <2>2. \A s \in Threads : Fine(s)'
    BY <1>c, <2>1
  <2>3. QED
    BY <2>2 DEF ThreadsInv
<1>1. ASSUME NEW t \in Threads, Scan(t) PROVE ThreadsInv'
  <2>1. /\ pc'[t] = "file" /\ Len(files'[t]) = total'[t] /\ total'[t] \in Nat
        /\ ids'[t] = ids[t] /\ ids[t] = {}
    BY <1>0, <1>1, <1>b, LenProperties DEF Scan, TypeOK, Importing
  <2>2. Ids \subseteq Ids'
    BY <1>0, <1>1, LibraryMoves DEF Scan, guiVars, CleanTheLibrary
  <2>3. Fine(t)'
    BY <2>1 DEF Importing
  <2>4. QED
    BY <1>0, <1>1, <1>c, <2>2, <2>3 DEF Scan, TypeOK, guiVars, Busy
<1>2. ASSUME NEW t \in Threads, ImportNext(t) PROVE ThreadsInv'
  <2>1. Ids \subseteq Ids'
    BY <1>0, <1>2 DEF ImportNext, guiVars, CleanTheLibrary
  <2>2. /\ pc[t] = "file" /\ files[t] # <<>> /\ files'[t] = Tail(files[t])
        /\ ids'[t] = Ids' \ Ids /\ total'[t] = total[t] /\ nodes' = nodes
        /\ pc'[t] = IF Ids' \ Ids = {} THEN "file" ELSE "normalise"
    BY <1>0, <1>2 DEF ImportNext, TypeOK
  <2>3. Len(files'[t]) = Len(files[t]) - 1 /\ Len(files[t]) \in Nat /\ total[t] \in Nat
        /\ Len(files[t]) <= total[t]
    BY <1>0, <1>a, <1>b, <2>2, HeadTailProperties DEF TypeOK
  <2>4. Fine(t)'
    BY <2>2, <2>3 DEF Importing
  <2>5. QED
    BY <1>0, <1>2, <1>c, <2>1, <2>4 DEF ImportNext, TypeOK, guiVars, Busy
<1>3. ASSUME NEW t \in Threads, NormaliseNew(t) PROVE ThreadsInv'
  <2>1. Ids \subseteq Ids'
    BY <1>0, <1>3 DEF NormaliseNew, guiVars, CleanTheLibrary
  <2>2. /\ pc[t] = "normalise" /\ pc'[t] = "node" /\ files' = files /\ ids' = ids /\ total' = total
    BY <1>0, <1>3 DEF NormaliseNew, TypeOK
  <2>3. Fine(t)'
    BY <1>b, <2>1, <2>2 DEF Importing
  <2>4. QED
    BY <1>0, <1>3, <1>c, <2>1, <2>3 DEF NormaliseNew, TypeOK, guiVars, Busy
<1>4. ASSUME NEW t \in Threads, InitializeNode(t) PROVE ThreadsInv'
  <2>1. Ids' = Ids
    BY <1>4 DEF InitializeNode, libraryVars, Ids
  <2>2. /\ pc[t] = "node" /\ pc'[t] = "event" /\ files' = files /\ ids' = ids /\ total' = total
    BY <1>0, <1>4 DEF InitializeNode, TypeOK
  <2>3. ids[t] # {} /\ ids[t] \subseteq Ids /\ ids[t] \subseteq Nat
    BY <1>0, <1>b, <2>2 DEF Importing, TypeOK
  <2>4. Min(ids[t]) \in Ids /\ Min(ids'[t]) \in nodes'
    BY <1>4, <2>2, <2>3, MinimumOfNaturals DEF InitializeNode
  <2>5. Fine(t)'
    BY <1>b, <2>1, <2>2, <2>4 DEF Importing
  <2>6. QED
    BY <1>0, <1>4, <1>c, <2>1, <2>5 DEF InitializeNode, TypeOK, guiVars, Busy
<1>5. ASSUME NEW t \in Threads, RaiseImported(t) PROVE ThreadsInv'
  <2>1. Ids' = Ids
    BY <1>5 DEF RaiseImported, libraryVars, Ids
  <2>2. /\ pc[t] = "event" /\ files' = files /\ total' = total /\ nodes' = nodes
        /\ ids'[t] = ids[t] \ {Min(ids[t])}
        /\ pc'[t] = IF ids'[t] = {} THEN "file" ELSE "node"
    BY <1>0, <1>5 DEF RaiseImported, TypeOK
  <2>3. Len(files[t]) < total[t] /\ Len(files[t]) <= total[t] /\ ids[t] \subseteq Ids
    BY <1>a, <1>b, <2>2 DEF Importing
  <2>4. Fine(t)'
    BY <2>1, <2>2, <2>3 DEF Importing
  <2>5. QED
    BY <1>0, <1>5, <1>c, <2>1, <2>4 DEF RaiseImported, TypeOK, guiVars, Busy
<1>6. ASSUME NEW t \in Threads, Finish(t) \/ End(t) PROVE ThreadsInv'
  <2>1. Ids' = Ids
    BY <1>6 DEF Finish, End, libraryVars, Ids
  <2>2. /\ pc[t] \in {"file", "ending"} /\ pc'[t] \in {"idle", "ending"} /\ ids' = ids
    BY <1>0, <1>6 DEF Finish, End, TypeOK
  <2>3. Fine(t)'
    BY <1>b, <2>1, <2>2 DEF Importing
  <2>4. \A s \in Threads \ {t} : Fine(s)'
    BY <1>0, <1>6, <1>b, <2>1 DEF Finish, End, TypeOK, Importing
  <2>5. \A s \in Threads : Fine(s)'
    BY <2>3, <2>4
  <2>6. QED
    BY <2>5 DEF ThreadsInv
<1>7. ASSUME NEW t \in Threads, NEW selection \in Selections, StartImport(t, selection)
      PROVE  ThreadsInv'
  <2>1. Ids' = Ids
    BY <1>7 DEF StartImport, libraryVars, Ids
  <2>2. /\ pc[t] = "idle" /\ pc'[t] = "scan" /\ ids' = ids
    BY <1>0, <1>7 DEF StartImport, TypeOK
  <2>3. Fine(t)'
    BY <1>b, <2>1, <2>2 DEF Importing
  <2>4. gui = "idle"
    BY <1>7, UsersTurn DEF StartImport
  <2>5. QED
    BY <1>0, <1>7, <1>c, <2>1, <2>3, <2>4 DEF StartImport, TypeOK, guiVars
<1>8. CASE CleanTheLibrary \/ CleanBrowser
  <2>1. \A t \in Threads : ~Busy(t)
    BY <1>0, <1>8 DEF Turns, CleanTheLibrary, CleanBrowser
  <2>2. \A t \in Threads : ids'[t] = {} /\ pc'[t] \in {"idle", "ending"}
    BY <1>8, <1>b, <2>1 DEF Busy, Importing, CleanTheLibrary, CleanBrowser, threadVars
  <2>3. QED
    BY <2>2 DEF ThreadsInv, Importing
<1>9. CASE Clean \/ SaveXML \/ LoadXML \/ LoadNext \/ LoadFails \/ LoadNormalises \/ LoadFinish
  <2>1. UNCHANGED <<pc, files, total, ids, nodes>> /\ ~CleanTheLibrary
    BY <1>9, UsersTurn DEF Clean, SaveXML, LoadXML, LoadNext, LoadFails, LoadNormalises,
       LoadFinish, CleanTheLibrary, threadVars
  <2>2. QED
    BY <1>0, <2>1, ThreadsUnmoved
<1>10. CASE LoadNodes
  <2>1. UNCHANGED <<pc, files, total, ids>> /\ nodes \subseteq nodes' /\ Ids' = Ids
    BY <1>10 DEF LoadNodes, threadVars, libraryVars, Ids
  <2>2. QED
    BY <1>0, <2>1 DEF ThreadsInv, Importing
<1>11. CASE ListenersHandle \/ UNCHANGED vars
  <2>1. UNCHANGED <<pc, files, total, ids, nodes>> /\ Ids' = Ids
    BY <1>11 DEF ListenersHandle, RendererHandles, RendererImported, RendererAllImported,
       RendererCleaned, WindowHandles, ViewHandles, Pop, vars, threadVars, libraryVars, Ids
  <2>2. QED
    BY <1>0, <2>1, ThreadsUnmoved
<1>12. QED
  BY <1>1, <1>2, <1>3, <1>4, <1>5, <1>6, <1>7, <1>8, <1>9, <1>10, <1>11
     DEF Next, ImportThread, UserActs, GuiGoesOn

LEMMA StepNormalised ==
  ASSUME Patient, ThreadInv, [Next]_vars
  PROVE  NormalisedInv'
<1>0. /\ TypeOK /\ Turns /\ NormalisedInv /\ LibraryInv /\ LibraryInv' /\ mediaID \in Int
  BY LibraryMoves, LibraryFacts DEF ThreadInv
<1>1. ASSUME NEW t \in Threads, ImportNext(t) PROVE NormalisedInv'
  <2>0. gui = "idle" /\ gui' = "idle"
    BY <1>0, <1>1 DEF Turns, Busy, ImportNext, guiVars
  <2>1. UNCHANGED index_last_normalized
    <3>1. Head(files[t]) \in Files
      BY <1>0, <1>1, HeadTailProperties DEF ImportNext, TypeOK
    <3>2. QED
      BY <1>0, <1>1, <3>1, ImportFileGrows DEF ImportNext
  <2>2. pc[t] = "file" /\ Busy(t)
    BY <1>1 DEF ImportNext, Busy
  <2>3. \A s \in Threads : s # t => pc[s] # "normalise" /\ pc'[s] = pc[s]
    BY <1>0, <1>1, <2>2 DEF Turns, Busy, ImportNext, TypeOK
  <2>4. prevLibrarySize > 0 => index_last_normalized >= 0
    BY <1>0, <2>2, <2>3 DEF NormalisedInv
  <2>5. CASE Ids' \ Ids = {}
    BY <1>0, <1>1, <2>1, <2>2, <2>3, <2>0, <2>4, <2>5 DEF ImportNext, NormalisedInv, guiVars
  <2>6. CASE Ids' \ Ids # {}
    <3> DEFINE full == Cardinality(Ids') >= 2 * prevLibrarySize \/ Tail(files[t]) = <<>>
    <3>1. needs'[t] = full /\ pc'[t] = "normalise"
          /\ prevLibrarySize' = IF full THEN Cardinality(Ids') ELSE prevLibrarySize
      BY <1>0, <1>1, <2>6 DEF ImportNext, TypeOK
    <3>2. CASE full
      BY <2>0, <2>3, <3>1, <3>2 DEF NormalisedInv
    <3>3. CASE ~full
      <4>0. (Cardinality(Ids) \in Nat)'
        BY <1>0, LibraryFacts, PTL
      <4>1. Cardinality(Ids') \in Nat /\ prevLibrarySize \in Nat
        BY <1>0, <4>0 DEF TypeOK
      <4>2. prevLibrarySize > 0
        BY <3>3, <4>1
      <4>3. QED
        BY <2>0, <2>1, <2>3, <2>4, <3>1, <4>2 DEF NormalisedInv
    <3>4. QED
      BY <3>2, <3>3
  <2>7. QED
    BY <2>5, <2>6
<1>2. ASSUME NEW t \in Threads, NormaliseNew(t) PROVE NormalisedInv'
  <2>1. needs[t] \in BOOLEAN /\ (needs[t] \/ index_last_normalized >= 0)
    BY <1>0, <1>2 DEF NormaliseNew, NormalisedInv, TypeOK
  <2>2. index_last_normalized' >= 0 \/ (Ids = {} /\ UNCHANGED index_last_normalized)
    BY <1>0, <1>2, <2>1, NormaliseEffect DEF NormaliseNew
  <2>3. ids[t] # {} /\ ids[t] \subseteq Ids
    BY <1>2 DEF ThreadInv, ThreadsInv, Importing, NormaliseNew
  <2>4. gui = "idle" /\ gui' = "idle"
    BY <1>0, <1>2 DEF Turns, Busy, NormaliseNew, guiVars
  <2>5. QED
    BY <2>2, <2>3, <2>4 DEF NormalisedInv
<1>3. CASE CleanTheLibrary
  <2>1. gui' = "clean browser" /\ \A t \in Threads : pc'[t] # "normalise"
    BY <1>0, <1>3 DEF CleanTheLibrary, Turns, Busy, threadVars
  <2>2. prevLibrarySize' = 0
    BY <1>0, <1>3 DEF CleanTheLibrary, NormalisedInv
  <2>3. ~(prevLibrarySize' > 0)
    BY <2>2
  <2>4. QED
    BY <2>1, <2>3 DEF NormalisedInv
<1>4. CASE Clean
  <2>1. prevLibrarySize' = 0 /\ \A t \in Threads : pc'[t] # "normalise"
    BY <1>4, UsersTurn DEF Clean, Busy, threadVars
  <2>2. ~(prevLibrarySize' > 0)
    BY <2>1
  <2>3. QED
    BY <2>1, <2>2 DEF NormalisedInv
\* The other steps leave the size alone, and no thread starts to normalise.
<1>5. ASSUME UNCHANGED prevLibrarySize, ~CleanTheLibrary,
             \A t \in Threads : pc'[t] = "normalise" <=> pc[t] = "normalise",
             \A t \in Threads : pc[t] = "normalise" => needs'[t] = needs[t],
             gui' = "clean library" => gui = "clean library"
      PROVE  NormalisedInv'
  <2>1. index_last_normalized' >= 0 \/ UNCHANGED index_last_normalized
    BY <1>5, LibraryMoves
  <2>2. QED
    BY <1>0, <1>5, <2>1 DEF NormalisedInv
<1>6. ASSUME NEW t \in Threads,
             Scan(t) \/ InitializeNode(t) \/ Finish(t) \/ End(t) \/ RaiseImported(t)
      PROVE  NormalisedInv'
  <2>1. UNCHANGED <<prevLibrarySize, gui>>
    BY <1>6 DEF Scan, InitializeNode, Finish, End, RaiseImported, guiVars
  <2>2. pc[t] # "normalise" /\ pc'[t] # "normalise"
    BY <1>0, <1>6 DEF Scan, InitializeNode, Finish, End, RaiseImported, TypeOK
  <2>3. \A s \in Threads : s # t => pc'[s] = pc[s] /\ needs'[s] = needs[s]
    BY <1>0, <1>6 DEF Scan, InitializeNode, Finish, End, RaiseImported, TypeOK
  <2>4. ~CleanTheLibrary
    BY <2>1 DEF CleanTheLibrary
  <2>5. QED
    BY <1>5, <2>1, <2>2, <2>3, <2>4
<1>7. ASSUME NEW t \in Threads, NEW selection \in Selections, StartImport(t, selection)
      PROVE  NormalisedInv'
  <2>1. UNCHANGED <<prevLibrarySize, gui, needs>> /\ ~CleanTheLibrary
    BY <1>7 DEF StartImport, guiVars, CleanTheLibrary
  <2>2. \A s \in Threads : pc'[s] = "normalise" <=> pc[s] = "normalise"
    BY <1>0, <1>7 DEF StartImport, TypeOK
  <2>3. QED
    BY <1>5, <2>1, <2>2
<1>8. CASE SaveXML \/ LoadXML \/ CleanBrowser \/ LoadNext \/ LoadFails \/ LoadNormalises
           \/ LoadNodes \/ LoadFinish
  <2>1. UNCHANGED <<prevLibrarySize, pc, needs>>
    BY <1>8 DEF SaveXML, LoadXML, CleanBrowser, LoadNext, LoadFails, LoadNormalises, LoadNodes,
       LoadFinish, threadVars
  <2>2. ~CleanTheLibrary /\ (gui' = "clean library" => gui = "clean library")
    BY <1>8, UsersTurn DEF SaveXML, LoadXML, CleanBrowser, LoadNext, LoadFails, LoadNormalises,
       LoadNodes, LoadFinish, CleanTheLibrary, guiVars
  <2>3. QED
    BY <1>5, <2>1, <2>2
<1>9. CASE ListenersHandle \/ UNCHANGED vars
  <2>1. UNCHANGED <<prevLibrarySize, pc, needs, gui>>
    BY <1>9 DEF ListenersHandle, RendererHandles, RendererImported, RendererAllImported,
       RendererCleaned, WindowHandles, ViewHandles, Pop, vars, threadVars, guiVars
  <2>2. ~CleanTheLibrary
    BY <2>1 DEF CleanTheLibrary
  <2>3. QED
    BY <1>5, <2>1, <2>2
<1>10. QED
  BY <1>1, <1>2, <1>3, <1>4, <1>6, <1>7, <1>8, <1>9
     DEF Next, ImportThread, UserActs, GuiGoesOn

LEMMA StepThreadInv ==
  ASSUME Patient, ThreadInv, [Next]_vars
  PROVE  ThreadInv'
BY LibraryMoves, StepTyping, StepTurns, StepThreads, StepNormalised DEF ThreadInv

-----------------------------------------------------------------------------
(* The events and the nodes.                                               *)

\* What the events in the queues may be.
EventOK(ev) ==
  /\ ev.kind = "imported" /\ ev.n = 0 => ev.ids = {-1}
  /\ ev.kind = "all imported" => -1 \notin ev.ids
  /\ ev.kind = "cleaned" => ev.ids = {}

EventsInv == \A l \in Listeners : \A i \in DOMAIN queue[l] : EventOK(queue[l][i])

\* While the GUI thread cleans, sig_libraryCleaned is the last thing raised.
CleanedLast ==
  Cleaning => \A l \in Listeners : queue[l] # <<>> => queue[l][Len(queue[l])].kind = "cleaned"

\* The media that readXMLConfigFileCore has yet to give a node.
Loading == IF gui \in {"load", "load nodes"} THEN begin + 1..mediaID ELSE {}

Announced == UNION {ids[t] : t \in Threads}

\* Every node has its medium; every medium has its node, or a thread or the
\* GUI thread is about to give it one.
NodesInv ==
  /\ ~Cleaning => nodes \subseteq Ids
  /\ ~Cleaning /\ ~Damaged => Ids \subseteq nodes \cup Announced \cup Loading
  /\ gui = "clean browser" => Ids = {}
  /\ gui \in {"load", "load nodes"} => begin <= mediaID

BrowserInv == EventsInv /\ CleanedLast /\ EventsMatchNodes /\ NodesInv

LEMMA RaiseEffect ==
  ASSUME ThreadInv, NEW t \in Threads, RaiseImported(t)
  PROVE  /\ \E n, m \in Nat : /\ n # 0
                              /\ Imported(n, m, Min(ids[t])) \in Event
                              /\ Emit(Imported(n, m, Min(ids[t])))
         /\ Min(ids[t]) \in ids[t] /\ Min(ids[t]) \in Nat
         /\ ~Cleaning /\ ~Cleaning'
<1>0. TypeOK /\ LibraryInv /\ Turns /\ ThreadsInv
  BY DEF ThreadInv
<1>1. Importing(t) /\ ids[t] # {} /\ ids[t] \subseteq Nat /\ Len(files[t]) < total[t]
      /\ total[t] \in Nat /\ Len(files[t]) \in Nat
  BY <1>0, LenProperties DEF RaiseImported, Importing, ThreadsInv, TypeOK
<1>2. Min(ids[t]) \in Nat /\ Min(ids[t]) \in ids[t]
  BY <1>1, MinimumOfNaturals
<1>3. PICK n \in Nat : n = total[t] - Len(files[t]) /\ n # 0
  BY <1>1
<1>4. Imported(n, total[t], Min(ids[t])) \in Event
  BY <1>1, <1>2, EventTypes
<1>5. Emit(Imported(n, total[t], Min(ids[t])))
  BY <1>3 DEF RaiseImported
<1>6. gui = "idle" /\ gui' = "idle"
  BY <1>0 DEF Turns, RaiseImported, Busy, guiVars
<1>7. ~Cleaning /\ ~Cleaning'
  BY <1>6 DEF Cleaning
<1>8. QED
  BY <1>1, <1>2, <1>3, <1>4, <1>5, <1>7

LEMMA LoadEffect ==
  ASSUME ThreadInv, LoadNodes
  PROVE  /\ \E n, m \in Nat : /\ AllImported(n, m, begin + 1..mediaID) \in Event
                              /\ Emit(AllImported(n, m, begin + 1..mediaID))
         /\ begin + 1..mediaID \subseteq Ids
<1>0. TypeOK /\ LibraryInv
  BY DEF ThreadInv
<1>1. begin \in Nat \cup {-1} /\ mediaID \in Int /\ Ids = 0..mediaID
  BY <1>0, LibraryFacts DEF TypeOK
<1>2. begin + 1..mediaID \subseteq Ids /\ begin + 1..mediaID \subseteq Nat
  BY <1>1
<1>3. files_processed \in Nat /\ files_to_import \in Nat
  BY <1>0, LibraryFacts
<1>4. AllImported(files_processed, files_to_import, begin + 1..mediaID) \in Event
  BY <1>2, <1>3, EventTypes
<1>5. Emit(AllImported(files_processed, files_to_import, begin + 1..mediaID))
  BY DEF LoadNodes
<1>6. QED
  BY <1>2, <1>3, <1>4, <1>5

\* Every step leaves the queues alone, raises one event, or handles one.
LEMMA QueueSteps ==
  ASSUME Patient, ThreadInv, [Next]_vars
  PROVE  \/ UNCHANGED queue
         \/ Clean /\ Cleaned \in Event /\ Emit(Cleaned)
         \/ \E n, m \in Nat : /\ Imported(n, m, -1) \in Event
                              /\ Emit(Imported(n, m, -1))
                              /\ ~Cleaning' /\ ~Clean /\ ~CleanBrowser
         \/ \E t \in Threads, n, m \in Nat :
              /\ RaiseImported(t) /\ n # 0
              /\ Imported(n, m, Min(ids[t])) \in Event
              /\ Emit(Imported(n, m, Min(ids[t])))
              /\ Min(ids[t]) \in ids[t] /\ Min(ids[t]) \in Nat
              /\ ~Cleaning /\ ~Cleaning'
         \/ \E n, m \in Nat :
              /\ LoadNodes
              /\ AllImported(n, m, begin + 1..mediaID) \in Event
              /\ Emit(AllImported(n, m, begin + 1..mediaID))
              /\ begin + 1..mediaID \subseteq Ids
         \/ ListenersHandle /\ \E l \in Listeners : Pop(l)
<1> DEFINE Announce == \E n, m \in Nat : /\ Imported(n, m, -1) \in Event
                                         /\ Emit(Imported(n, m, -1))
                                         /\ ~Cleaning' /\ ~Clean /\ ~CleanBrowser
           Raise == \E t \in Threads, n, m \in Nat :
              /\ RaiseImported(t) /\ n # 0
              /\ Imported(n, m, Min(ids[t])) \in Event
              /\ Emit(Imported(n, m, Min(ids[t])))
              /\ Min(ids[t]) \in ids[t] /\ Min(ids[t]) \in Nat
              /\ ~Cleaning /\ ~Cleaning'
           Load == \E n, m \in Nat :
              /\ LoadNodes
              /\ AllImported(n, m, begin + 1..mediaID) \in Event
              /\ Emit(AllImported(n, m, begin + 1..mediaID))
              /\ begin + 1..mediaID \subseteq Ids
<1>0. TypeOK /\ LibraryInv /\ Turns /\ ThreadsInv
  BY DEF ThreadInv
<1>1. \A t \in Threads : Busy(t) => gui = "idle"
  BY <1>0 DEF Turns
<1>2. ASSUME NEW t \in Threads, Scan(t) PROVE Announce
  <2>1. Len(import_directories) \in Nat
    BY <1>0, LenProperties DEF TypeOK
  <2>2. gui = "idle" /\ gui' = "idle"
    BY <1>1, <1>2 DEF Scan, Busy, guiVars
  <2>3. Imported(0, Len(import_directories), -1) \in Event /\ 0 \in Nat
    BY <2>1, EventTypes
  <2>4. Emit(Imported(0, Len(import_directories), -1))
    BY <1>2 DEF Scan
  <2>5. ~Cleaning' /\ ~Clean /\ ~CleanBrowser
    BY <2>2 DEF Cleaning, Clean, CleanBrowser
  <2>6. QED
    BY <2>1, <2>3, <2>4, <2>5
<1>3. ASSUME EmitFinished, gui' \in {"idle"}, gui # "clean browser" PROVE Announce
  <2>1. PICK n \in Nat : Emit(Imported(n, n, -1))
    BY <1>0, <1>3, FinishType
  <2>2. Imported(n, n, -1) \in Event
    BY EventTypes
  <2>3. ~Cleaning' /\ ~Clean /\ ~CleanBrowser
    BY <1>3 DEF Cleaning, Clean, CleanBrowser
  <2>4. QED
    BY <2>1, <2>2, <2>3
<1>4. ASSUME NEW t \in Threads, Finish(t) PROVE Announce
  BY <1>1, <1>3, <1>4 DEF Finish, Busy, guiVars
<1>5. ASSUME LoadFails \/ LoadFinish PROVE Announce
  BY <1>3, <1>5 DEF LoadFails, LoadFinish
<1>6. ASSUME LoadXML PROVE Announce
  <2>1. xml.count \in Nat /\ 0 \in Nat
    BY <1>0, LibraryFacts
  <2>2. Imported(0, xml.count, -1) \in Event
    BY <2>1, EventTypes
  <2>3. Emit(Imported(0, xml.count, -1)) /\ gui' = "load"
    BY <1>6 DEF LoadXML
  <2>4. ~Cleaning' /\ ~Clean /\ ~CleanBrowser
    BY <2>3 DEF Cleaning, Clean, CleanBrowser
  <2>5. QED
    BY <2>1, <2>2, <2>3, <2>4
<1>7. ASSUME NEW t \in Threads, RaiseImported(t) PROVE Raise
  BY <1>7, RaiseEffect
<1>8. ASSUME LoadNodes PROVE Load
  BY <1>8, LoadEffect
<1>9. ASSUME Clean PROVE Cleaned \in Event /\ Emit(Cleaned)
  BY <1>9, EventTypes DEF Clean
<1>10. ASSUME NEW t \in Threads, ImportNext(t) \/ NormaliseNew(t) \/ InitializeNode(t) \/ End(t)
       PROVE  UNCHANGED queue
  BY <1>10 DEF ImportNext, NormaliseNew, InitializeNode, End
<1>11. ASSUME \/ \E t \in Threads, selection \in Selections : StartImport(t, selection)
              \/ SaveXML \/ CleanTheLibrary \/ CleanBrowser \/ LoadNext \/ LoadNormalises
       PROVE  UNCHANGED queue
  BY <1>11 DEF StartImport, SaveXML, CleanTheLibrary, CleanBrowser, LoadNext, LoadNormalises
<1>12. ASSUME ListenersHandle PROVE \E l \in Listeners : Pop(l)
  BY <1>12 DEF ListenersHandle, RendererHandles, RendererImported, RendererAllImported,
     RendererCleaned, WindowHandles, ViewHandles
<1>13. ASSUME UNCHANGED vars PROVE UNCHANGED queue
  BY <1>13 DEF vars
<1> HIDE DEF Announce, Raise, Load
<1>14. \/ UNCHANGED queue
       \/ Clean /\ Cleaned \in Event /\ Emit(Cleaned)
       \/ Announce \/ Raise \/ Load
       \/ ListenersHandle /\ \E l \in Listeners : Pop(l)
  BY <1>2, <1>4, <1>5, <1>6, <1>7, <1>8, <1>9, <1>10, <1>11, <1>12, <1>13
     DEF Next, ImportThread, UserActs, GuiGoesOn
<1>15. QED
  BY <1>14 DEF Announce, Raise, Load

\* What a step does to the nodes, and when the GUI thread is cleaning after it.
LEMMA NodesMove ==
  ASSUME Patient, ThreadInv, [Next]_vars
  PROVE  /\ nodes \subseteq nodes' \/ CleanBrowser
         /\ Cleaning' => Cleaning \/ Clean
         /\ Clean => Cleaning' /\ UNCHANGED <<libraryVars, nodes>>
<1>1. nodes \subseteq nodes' \/ CleanBrowser
  BY DEF Next, ImportThread, UserActs, GuiGoesOn, ListenersHandle, RendererHandles,
     Scan, ImportNext, NormaliseNew, InitializeNode, RaiseImported, Finish, End, StartImport,
     Clean, SaveXML, LoadXML, CleanTheLibrary, LoadNext, LoadFails, LoadNormalises,
     LoadNodes, LoadFinish, RendererImported, RendererAllImported, RendererCleaned, WindowHandles,
     ViewHandles, Pop, vars
<1>2. Cleaning' => Cleaning \/ Clean
  BY DEF Cleaning, Next, ImportThread, UserActs, GuiGoesOn, ListenersHandle, RendererHandles,
     Scan, ImportNext, NormaliseNew, InitializeNode, RaiseImported, Finish, End, StartImport,
     SaveXML, LoadXML, CleanTheLibrary, CleanBrowser, LoadNext, LoadFails, LoadNormalises,
     LoadNodes, LoadFinish, RendererImported, RendererAllImported, RendererCleaned, WindowHandles,
     ViewHandles, Pop, vars, guiVars
<1>3. Clean => Cleaning' /\ UNCHANGED <<libraryVars, nodes>>
  BY DEF Clean, Cleaning
<1>4. QED
  BY <1>1, <1>2, <1>3

LEMMA StepEvents ==
  ASSUME Patient, ThreadInv, EventsInv, [Next]_vars
  PROVE  EventsInv'
<1>0. TypeOK
  BY DEF ThreadInv
<1>1. ASSUME NEW ev \in Event, Emit(ev), EventOK(ev) PROVE EventsInv'
  <2>1. ASSUME NEW l \in Listeners, NEW i \in DOMAIN queue'[l] PROVE EventOK(queue'[l][i])
    <3>1. /\ Len(queue[l]) \in Nat
          /\ DOMAIN queue[l] = 1..Len(queue[l])
          /\ DOMAIN queue'[l] = 1..(Len(queue[l]) + 1)
          /\ \A j \in 1..Len(queue[l]) : queue'[l][j] = queue[l][j]
          /\ queue'[l][Len(queue[l]) + 1] = ev
      BY <1>0, <1>1, EmitEffect
    <3>2. i \in 1..Len(queue[l]) \/ i = Len(queue[l]) + 1
      BY <3>1
    <3>3. QED
      BY <1>1, <3>1, <3>2 DEF EventsInv
  <2>2. QED
    BY <2>1 DEF EventsInv, EventOK
<1>2. ASSUME NEW k \in Listeners, Pop(k) PROVE EventsInv'
  <2>1. ASSUME NEW l \in Listeners, NEW i \in DOMAIN queue'[l] PROVE EventOK(queue'[l][i])
    <3>1. CASE l # k
      BY <1>0, <1>2, <3>1, PopEffect DEF EventsInv
    <3>2. CASE l = k
      <4>1. /\ Len(queue[k]) \in Nat
            /\ DOMAIN queue[k] = 1..Len(queue[k])
            /\ DOMAIN queue'[k] = 1..(Len(queue[k]) - 1)
            /\ \A j \in 1..(Len(queue[k]) - 1) : queue'[k][j] = queue[k][j + 1]
        BY <1>0, <1>2, PopEffect
      <4>2. i \in 1..(Len(queue[k]) - 1) /\ i + 1 \in DOMAIN queue[k]
        BY <3>2, <4>1
      <4>3. QED
        BY <3>2, <4>1, <4>2 DEF EventsInv
    <3>3. QED
      BY <3>1, <3>2
  <2>2. QED
    BY <2>1 DEF EventsInv, EventOK
<1>3. EventOK(Cleaned) /\ \A n, m \in Nat : EventOK(Imported(n, m, -1))
  BY DEF EventOK, Cleaned, Imported
<1>4. ASSUME NEW n \in Nat, NEW m \in Nat, NEW id \in Nat, n # 0 PROVE EventOK(Imported(n, m, id))
  BY <1>4 DEF EventOK, Imported
<1>5. ASSUME NEW n \in Nat, NEW m \in Nat, begin + 1..mediaID \subseteq Ids
      PROVE  EventOK(AllImported(n, m, begin + 1..mediaID))
  <2>1. Ids \subseteq Nat
    BY LibraryFacts DEF ThreadInv
  <2>2. -1 \notin begin + 1..mediaID
    BY <1>5, <2>1
  <2>3. QED
    BY <2>2 DEF EventOK, AllImported
<1>6. CASE UNCHANGED queue
  BY <1>6 DEF EventsInv, EventOK
<1>7. QED
  BY QueueSteps, <1>1, <1>2, <1>3, <1>4, <1>5, <1>6

LEMMA StepCleanedLast ==
  ASSUME Patient, ThreadInv, CleanedLast, [Next]_vars
  PROVE  CleanedLast'
<1>0. TypeOK
  BY DEF ThreadInv
<1> SUFFICES ASSUME Cleaning', NEW l \in Listeners, queue'[l] # <<>>
             PROVE  queue'[l][Len(queue'[l])].kind = "cleaned"
  BY DEF CleanedLast
<1>1. Cleaning \/ Clean
  BY NodesMove
<1>2. CASE Clean
  <2>1. Cleaned \in Event /\ Emit(Cleaned)
    BY <1>2, EventTypes DEF Clean
  <2>2. queue'[l][Len(queue'[l])] = Cleaned
    BY <1>0, <2>1, EmitEffect
  <2>3. QED
    BY <2>2 DEF Cleaned
<1>3. CASE ~Clean
  <2>0. Cleaning
    BY <1>1, <1>3
  <2>1. UNCHANGED queue \/ \E k \in Listeners : Pop(k)
    <3>1. ~LoadNodes
      BY <2>0 DEF LoadNodes, Cleaning
    <3>2. QED
      BY QueueSteps, <1>3, <2>0, <3>1
  <2>2. CASE UNCHANGED queue
    BY <2>0, <2>2 DEF CleanedLast
  <2>3. ASSUME NEW k \in Listeners, Pop(k)
        PROVE  queue'[l][Len(queue'[l])].kind = "cleaned"
    <3>1. CASE l # k
      BY <1>0, <2>0, <2>3, <3>1, PopEffect DEF CleanedLast
    <3>2. CASE l = k
      <4>1. /\ Len(queue[k]) \in Nat /\ Len(queue[k]) > 0
            /\ Len(queue'[k]) = Len(queue[k]) - 1
            /\ \A j \in 1..(Len(queue[k]) - 1) : queue'[k][j] = queue[k][j + 1]
        BY <1>0, <2>3, PopEffect
      <4>2. Len(queue'[k]) # 0
        <5>1. queue'[k] \in Seq(Event)
          BY <1>0, <2>3, PopEffect
        <5>2. QED
          BY <3>2, <5>1, EmptySeq
      <4>3. queue'[k][Len(queue'[k])] = queue[k][Len(queue[k])]
        <5>1. /\ Len(queue[k]) - 1 \in 1..(Len(queue[k]) - 1)
              /\ (Len(queue[k]) - 1) + 1 = Len(queue[k])
          <6>1. ASSUME NEW n \in Nat, n - 1 # 0, n > 0
                PROVE  n - 1 \in 1..(n - 1) /\ (n - 1) + 1 = n
            BY <6>1
          <6>2. Len(queue[k]) - 1 # 0
            BY <4>1, <4>2
          <6>3. QED
            BY <4>1, <6>1, <6>2
        <5>2. QED
          BY <4>1, <5>1
      <4>4. queue[k] # <<>>
        BY <2>3 DEF Pop
      <4>5. QED
        BY <2>0, <3>2, <4>3, <4>4 DEF CleanedLast
    <3>3. QED
      BY <3>1, <3>2
  <2>4. QED
    BY <2>1, <2>2, <2>3
<1>4. QED
  BY <1>2, <1>3

\* An event is about media with a node, or libraryCleaned follows it.
LEMMA StepMatch ==
  ASSUME Patient, ThreadInv, CleanedLast, EventsMatchNodes, [Next]_vars
  PROVE  EventsMatchNodes'
<1>0. TypeOK /\ ThreadsInv
  BY DEF ThreadInv
<1>q. ASSUME NEW l \in Listeners
      PROVE  Len(queue[l]) \in Nat /\ DOMAIN queue[l] = 1..Len(queue[l])
  BY <1>0, LenProperties DEF TypeOK
<1>1. ASSUME NEW ev \in Event, Emit(ev), nodes \subseteq nodes', ev.ids \subseteq nodes' \cup {-1}
      PROVE  EventsMatchNodes'
  <2>1. ASSUME NEW l \in Listeners, NEW i \in DOMAIN queue'[l]
        PROVE  \/ queue'[l][i].ids \subseteq nodes' \cup {-1}
               \/ \E j \in i..Len(queue'[l]) : queue'[l][j].kind = "cleaned"
    <3>1. /\ Len(queue[l]) \in Nat /\ Len(queue'[l]) = Len(queue[l]) + 1
          /\ DOMAIN queue[l] = 1..Len(queue[l])
          /\ DOMAIN queue'[l] = 1..(Len(queue[l]) + 1)
          /\ \A j \in 1..Len(queue[l]) : queue'[l][j] = queue[l][j]
          /\ queue'[l][Len(queue[l]) + 1] = ev
      BY <1>0, <1>1, EmitEffect
    <3>2. CASE i = Len(queue[l]) + 1
      BY <1>1, <3>1, <3>2
    <3>3. CASE i \in 1..Len(queue[l])
      <4>1. CASE queue[l][i].ids \subseteq nodes \cup {-1}
        BY <1>1, <3>1, <3>3, <4>1
      <4>2. CASE \E j \in i..Len(queue[l]) : queue[l][j].kind = "cleaned"
        <5>1. PICK j \in i..Len(queue[l]) : queue[l][j].kind = "cleaned"
          BY <4>2
        <5>2. j \in 1..Len(queue[l]) /\ j \in i..Len(queue'[l])
          BY <3>1, <3>3, <5>1
        <5>3. QED
          BY <3>1, <5>1, <5>2
      <4>3. QED
        BY <3>1, <3>3, <4>1, <4>2 DEF EventsMatchNodes
    <3>4. QED
      BY <3>1, <3>2, <3>3
  <2>2. QED
    BY <2>1 DEF EventsMatchNodes
<1>2. ASSUME NEW k \in Listeners, Pop(k) PROVE EventsMatchNodes'
  <2>0. nodes' = nodes
    BY <1>2 DEF Pop
  <2>1. ASSUME NEW l \in Listeners, NEW i \in DOMAIN queue'[l]
        PROVE  \/ queue'[l][i].ids \subseteq nodes' \cup {-1}
               \/ \E j \in i..Len(queue'[l]) : queue'[l][j].kind = "cleaned"
    <3>1. CASE l # k
      <4>1. queue'[l] = queue[l]
        BY <1>0, <1>2, <3>1, PopEffect
      <4>2. QED
        BY <2>0, <2>1, <4>1 DEF EventsMatchNodes
    <3>2. CASE l = k
      <4>1. /\ Len(queue[k]) \in Nat /\ Len(queue'[k]) = Len(queue[k]) - 1
            /\ DOMAIN queue[k] = 1..Len(queue[k])
            /\ DOMAIN queue'[k] = 1..(Len(queue[k]) - 1)
            /\ \A j \in 1..(Len(queue[k]) - 1) : queue'[k][j] = queue[k][j + 1]
        BY <1>0, <1>2, PopEffect
      <4>2. i \in 1..(Len(queue[k]) - 1) /\ i + 1 \in DOMAIN queue[k]
            /\ queue'[k][i] = queue[k][i + 1]
        BY <3>2, <4>1
      <4>3. CASE queue[k][i + 1].ids \subseteq nodes \cup {-1}
        BY <2>0, <3>2, <4>2, <4>3
      <4>4. CASE \E j \in i + 1..Len(queue[k]) : queue[k][j].kind = "cleaned"
        <5>1. PICK j \in i + 1..Len(queue[k]) : queue[k][j].kind = "cleaned"
          BY <4>4
        <5>2. j - 1 \in i..Len(queue'[k]) /\ j - 1 \in 1..(Len(queue[k]) - 1) /\ (j - 1) + 1 = j
          BY <4>1, <4>2, <5>1
        <5>3. queue'[k][j - 1].kind = "cleaned"
          BY <4>1, <5>1, <5>2
        <5>4. QED
          BY <3>2, <5>2, <5>3
      <4>5. QED
        BY <4>2, <4>3, <4>4 DEF EventsMatchNodes
    <3>3. QED
      BY <3>1, <3>2
  <2>2. QED
    BY <2>1 DEF EventsMatchNodes
<1>3. CASE UNCHANGED queue
  <2>1. CASE nodes \subseteq nodes'
    BY <1>3, <2>1 DEF EventsMatchNodes
  <2>2. CASE CleanBrowser
    <3>1. ASSUME NEW l \in Listeners, NEW i \in DOMAIN queue[l]
          PROVE  \E j \in i..Len(queue[l]) : queue[l][j].kind = "cleaned"
      <4>1. Cleaning
        BY <2>2 DEF CleanBrowser, Cleaning
      <4>2. Len(queue[l]) \in i..Len(queue[l]) /\ queue[l] # <<>>
        BY <1>q, <3>1
      <4>3. QED
        BY <4>1, <4>2 DEF CleanedLast
    <3>2. QED
      BY <1>3, <3>1 DEF EventsMatchNodes
  <2>3. QED
    BY <2>1, <2>2, NodesMove
<1>4. CASE Clean /\ Cleaned \in Event /\ Emit(Cleaned)
  BY <1>1, <1>4, NodesMove DEF Cleaned
<1>5. ASSUME NEW n \in Nat, NEW m \in Nat, Imported(n, m, -1) \in Event, Emit(Imported(n, m, -1)),
             ~CleanBrowser
      PROVE  EventsMatchNodes'
  BY <1>1, <1>5, NodesMove DEF Imported
<1>6. ASSUME NEW t \in Threads, NEW n \in Nat, NEW m \in Nat, RaiseImported(t),
             Imported(n, m, Min(ids[t])) \in Event, Emit(Imported(n, m, Min(ids[t])))
      PROVE  EventsMatchNodes'
  <2>1. Min(ids[t]) \in nodes /\ nodes' = nodes
    BY <1>0, <1>6 DEF RaiseImported, ThreadsInv
  <2>2. QED
    BY <1>1, <1>6, <2>1 DEF Imported
<1>7. ASSUME NEW n \in Nat, NEW m \in Nat, LoadNodes,
             AllImported(n, m, begin + 1..mediaID) \in Event,
             Emit(AllImported(n, m, begin + 1..mediaID)),
             begin + 1..mediaID \subseteq Ids
      PROVE  EventsMatchNodes'
  <2>1. nodes \subseteq nodes' /\ begin + 1..mediaID \subseteq nodes'
    BY <1>7 DEF LoadNodes
  <2>2. QED
    BY <1>1, <1>7, <2>1 DEF AllImported
<1>8. QED
  BY QueueSteps, <1>2, <1>3, <1>4, <1>5, <1>6, <1>7

LEMMA StepNodes ==
  ASSUME Patient, ThreadInv, NodesInv, [Next]_vars
  PROVE  NodesInv'
<1>0. /\ TypeOK /\ Turns /\ ThreadsInv /\ LibraryInv
      /\ \/ CleanTheLibrary /\ Ids' = {}
         \/ Ids \subseteq Ids' /\ mediaID' >= mediaID
      /\ mediaID \in Int /\ Ids = 0..mediaID
      /\ mediaID' \in Int /\ Ids' = 0..mediaID'
  <2>1. TypeOK /\ Turns /\ ThreadsInv /\ LibraryInv /\ LibraryInv'
    BY LibraryMoves DEF ThreadInv
  <2>2. \/ CleanTheLibrary /\ Ids' = {}
        \/ Ids \subseteq Ids' /\ mediaID' >= mediaID
    BY LibraryMoves
  <2>3. mediaID \in Int /\ Ids = 0..mediaID
    BY <2>1, LibraryFacts
  <2>4. (mediaID \in Int /\ Ids = 0..mediaID)'
    BY <2>1, LibraryFacts, PTL
  <2>5. QED
    BY <2>1, <2>2, <2>3, <2>4
<1>b. begin \in Nat \cup {-1} /\ mediaID \in Nat \cup {-1}
  BY <1>0, LibraryFacts DEF TypeOK
<1>t. ASSUME NEW t \in Threads, Busy(t) PROVE gui = "idle" /\ Loading = {} /\ ~Cleaning
  BY <1>0, <1>t DEF Turns, Loading, Cleaning
<1>i. ASSUME gui' = "idle"
      PROVE  /\ Loading' = {} /\ ~Cleaning'
             /\ ~(gui' \in {"load", "load nodes"}) /\ gui' # "clean browser"
  BY <1>i DEF Loading, Cleaning
<1>1. ASSUME NEW t \in Threads, ImportNext(t) PROVE NodesInv'
  <2>1. gui = "idle" /\ gui' = "idle" /\ Loading = {} /\ ~Cleaning
    BY <1>t, <1>1 DEF ImportNext, Busy, guiVars
  <2>2. Ids \subseteq Ids'
    BY <1>0, <2>1 DEF CleanTheLibrary
  <2>3. ids[t] = {} /\ ids' = [ids EXCEPT ![t] = Ids' \ Ids] /\ nodes' = nodes
    BY <1>0, <1>1 DEF ImportNext, ThreadsInv, Importing
  <2>4. Announced \subseteq Announced' /\ Ids' \ Ids \subseteq Announced'
    <3>1. \A s \in Threads : ids[s] \subseteq ids'[s]
      BY <1>0, <2>3 DEF TypeOK
    <3>2. ids'[t] = Ids' \ Ids
      BY <1>0, <2>3 DEF TypeOK
    <3>3. QED
      BY <3>1, <3>2 DEF Announced
  <2>5. QED
    BY <1>i, <2>1, <2>2, <2>3, <2>4 DEF NodesInv
\* A step of a thread or the user that leaves the library and the nodes alone.
<1>2. ASSUME UNCHANGED <<libraryVars, nodes, ids>>, gui = "idle", gui' = "idle"
      PROVE  NodesInv'
  <2>1. Ids' = Ids /\ Announced' = Announced
    BY <1>2 DEF libraryVars, Ids, Announced
  <2>2. Loading = {} /\ ~Cleaning
    BY <1>2 DEF Loading, Cleaning
  <2>3. QED
    BY <1>2, <1>i, <2>1, <2>2 DEF NodesInv
<1>s. ASSUME Ids' = Ids, nodes' = nodes, ids' = ids, gui = "idle", gui' = "idle"
      PROVE  NodesInv'
  <2>1. Announced' = Announced
    BY <1>s DEF Announced
  <2>2. Loading = {} /\ ~Cleaning
    BY <1>s DEF Loading, Cleaning
  <2>3. QED
    BY <1>s, <1>i, <2>1, <2>2 DEF NodesInv
<1>3. ASSUME NEW t \in Threads, Scan(t) \/ NormaliseNew(t) PROVE NodesInv'
  <2>1. gui = "idle" /\ gui' = "idle"
    BY <1>t, <1>3 DEF Scan, NormaliseNew, Busy, guiVars
  <2>2. Ids' = Ids
    <3>1. CASE Scan(t)
      <4>1. Len(import_directories) \in Nat
        BY <1>0, LenProperties DEF TypeOK
      <4>2. QED
        BY <1>0, <3>1, <4>1, OtherCalls DEF Scan
    <3>2. CASE NormaliseNew(t)
      <4>1. needs[t] \in BOOLEAN /\ (needs[t] \/ index_last_normalized >= 0)
        BY <3>2 DEF NormaliseNew, ThreadInv, NormalisedInv, TypeOK
      <4>2. QED
        BY <1>0, <3>2, <4>1, NormaliseEffect DEF NormaliseNew
    <3>3. QED
      BY <1>3, <3>1, <3>2
  <2>3. QED
    BY <1>3, <1>s, <2>1, <2>2 DEF Scan, NormaliseNew
<1>4. ASSUME NEW t \in Threads, InitializeNode(t) PROVE NodesInv'
  <2>1. gui = "idle" /\ gui' = "idle" /\ Loading = {} /\ ~Cleaning
    BY <1>t, <1>4 DEF InitializeNode, Busy, guiVars
  <2>2. Ids' = Ids /\ Announced' = Announced /\ nodes \subseteq nodes' /\ nodes' \subseteq nodes \cup Ids
    BY <1>4 DEF InitializeNode, libraryVars, Ids, Announced
  <2>3. QED
    BY <1>i, <2>1, <2>2 DEF NodesInv
<1>5. ASSUME NEW t \in Threads, RaiseImported(t) PROVE NodesInv'
  <2>1. gui = "idle" /\ gui' = "idle" /\ Loading = {} /\ ~Cleaning
    BY <1>t, <1>5 DEF RaiseImported, Busy, guiVars
  <2>2. Ids' = Ids /\ nodes' = nodes
    BY <1>5 DEF RaiseImported, libraryVars, Ids
  <2>3. Min(ids[t]) \in nodes
    BY <1>0, <1>5 DEF RaiseImported, ThreadsInv
  <2>4. \A s \in Threads : ids[s] \subseteq ids'[s] \cup nodes
    BY <1>0, <1>5, <2>3 DEF RaiseImported, TypeOK
  <2>5. Announced \subseteq Announced' \cup nodes
    BY <2>4 DEF Announced
  <2>6. QED
    BY <1>i, <2>1, <2>2, <2>5 DEF NodesInv
<1>6. ASSUME NEW t \in Threads, Finish(t) PROVE NodesInv'
  <2>1. gui = "idle" /\ gui' = "idle"
    BY <1>t, <1>6 DEF Finish, Busy, guiVars
  <2>2. QED
    BY <1>2, <1>6, <2>1 DEF Finish
\* Steps that leave the GUI thread, the library and the nodes alone.
<1>7. ASSUME UNCHANGED <<libraryVars, nodes, ids, guiVars>> PROVE NodesInv'
  <2>1. Ids' = Ids /\ mediaID' = mediaID
    BY <1>7 DEF libraryVars, Ids
  <2>2. Announced' = Announced /\ Loading' = Loading
    BY <1>7, <2>1 DEF Announced, Loading, guiVars
  <2>3. QED
    BY <1>7, <2>1, <2>2 DEF NodesInv, Cleaning, guiVars
<1>8. ASSUME NEW t \in Threads, End(t) PROVE NodesInv'
  BY <1>7, <1>8 DEF End
<1>9. ASSUME NEW t \in Threads, NEW selection \in Selections, StartImport(t, selection) PROVE NodesInv'
  BY <1>7, <1>9 DEF StartImport
<1>10. CASE ListenersHandle \/ UNCHANGED vars
  BY <1>7, <1>10 DEF ListenersHandle, RendererHandles, RendererImported, RendererAllImported,
     RendererCleaned, WindowHandles, ViewHandles, Pop, vars, threadVars
<1>11. CASE SaveXML
  <2>1. Ids' = Ids
    BY <1>0, <1>11, OtherCalls DEF SaveXML
  <2>2. gui = "idle" /\ gui' = "idle"
    BY <1>11 DEF SaveXML, UserMayAct, guiVars
  <2>3. QED
    BY <1>11, <1>s, <2>1, <2>2 DEF SaveXML, threadVars
<1>12. CASE Clean
  <2>1. gui' = "clean library"
    BY <1>12 DEF Clean
  <2>2. QED
    BY <2>1 DEF NodesInv, Cleaning
<1>13. CASE CleanTheLibrary
  <2>1. gui' = "clean browser" /\ Ids' = {}
    BY <1>0, <1>13, CleanEffect DEF CleanTheLibrary
  <2>2. QED
    BY <2>1 DEF NodesInv, Cleaning
<1>14. CASE CleanBrowser
  <2>1. Ids' = {} /\ nodes' = {} /\ gui' = "idle"
    BY <1>14 DEF CleanBrowser, NodesInv, libraryVars, Ids
  <2>2. QED
    BY <1>i, <2>1 DEF NodesInv
<1>15. CASE LoadXML
  <2>1. Ids' = Ids /\ mediaID' = mediaID
    BY <1>0, <1>15, OtherCalls DEF LoadXML
  <2>2. gui = "idle" /\ gui' = "load" /\ begin' = mediaID /\ UNCHANGED <<nodes, ids>>
    BY <1>15 DEF LoadXML, UserMayAct, threadVars
  <2>3. Loading = {} /\ Announced' = Announced /\ ~Cleaning /\ ~Cleaning'
    BY <2>2 DEF Loading, Announced, Cleaning
  <2>4. begin' <= mediaID'
    BY <1>0, <2>1, <2>2
  <2>5. QED
    BY <2>1, <2>2, <2>3, <2>4 DEF NodesInv
<1>16. CASE LoadNext \/ LoadNormalises
  <2>1. Ids \subseteq Ids' /\ mediaID' >= mediaID
    BY <1>0, <1>16 DEF LoadNext, LoadNormalises, CleanTheLibrary
  <2>2. /\ gui = "load" /\ gui' \in {"load", "load nodes"}
        /\ UNCHANGED <<begin, nodes, ids>>
    BY <1>16 DEF LoadNext, LoadNormalises, guiVars, threadVars
  <2>3. Loading = begin + 1..mediaID /\ Loading' = begin + 1..mediaID' /\ Announced' = Announced
    BY <2>2 DEF Loading, Announced
  <2>4. begin <= mediaID
    BY <2>2 DEF NodesInv
  <2>5. begin' <= mediaID'
    <3>1. begin \in Int /\ mediaID \in Int /\ mediaID' \in Int
      BY <1>0, <1>b
    <3>2. begin <= mediaID'
      BY <2>1, <2>4, <3>1
    <3>3. QED
      BY <2>2, <3>2
  <2>6. Loading \subseteq Loading' /\ Ids' \ Ids \subseteq Loading'
    <3>1. begin \in Int
      BY <1>b
    <3>2. QED
      BY <1>0, <2>1, <2>3, <2>4, <3>1
  <2>7. ~Cleaning /\ ~Cleaning' /\ gui' # "clean browser"
    BY <2>2 DEF Cleaning
  <2>8. QED
    BY <2>1, <2>2, <2>3, <2>5, <2>6, <2>7 DEF NodesInv
<1>17. CASE LoadFails
  <2>1. Ids' = Ids /\ nodes' = nodes /\ Damaged /\ gui' = "idle" /\ ~Cleaning
    BY <1>0, <1>17, OtherCalls DEF LoadFails, Cleaning
  <2>2. QED
    BY <1>i, <2>1 DEF NodesInv
<1>18. CASE LoadNodes
  <2>1. /\ Ids' = Ids /\ nodes' = nodes \cup ((begin + 1..mediaID) \cap Ids) /\ ids' = ids
        /\ gui = "load nodes" /\ gui' = "load finish"
    BY <1>18 DEF LoadNodes, libraryVars, threadVars, Ids
  <2>2. /\ Loading = begin + 1..mediaID /\ Announced' = Announced
        /\ ~Cleaning /\ gui' \notin {"load", "load nodes"} /\ gui' # "clean browser"
    BY <2>1 DEF Loading, Announced, Cleaning
  <2>3. QED
    BY <2>1, <2>2 DEF NodesInv
<1>19. CASE LoadFinish
  <2>1. /\ Ids' = Ids /\ nodes' = nodes /\ ids' = ids
        /\ gui = "load finish" /\ gui' = "idle"
    BY <1>19 DEF LoadFinish, libraryVars, threadVars, Ids
  <2>2. Loading = {} /\ Announced' = Announced /\ ~Cleaning
    BY <2>1 DEF Loading, Announced, Cleaning
  <2>3. QED
    BY <1>i, <2>1, <2>2 DEF NodesInv
<1>20. QED
  BY <1>1, <1>3, <1>4, <1>5, <1>6, <1>8, <1>9, <1>10, <1>11, <1>12, <1>13, <1>14, <1>15, <1>16,
     <1>17, <1>18, <1>19 DEF Next, ImportThread, UserActs, GuiGoesOn

LEMMA StepBrowserInv ==
  ASSUME Patient, ThreadInv, BrowserInv, [Next]_vars
  PROVE  BrowserInv'
BY StepEvents, StepCleanedLast, StepMatch, StepNodes DEF BrowserInv

LEMMA InitBrowser == Init => BrowserInv
<1> SUFFICES ASSUME Init PROVE BrowserInv
  OBVIOUS
<1>1. \A l \in Listeners : queue[l] = <<>>
  BY DEF Init
<1>2. Ids = {}
  BY DEF Init, Library!Init, Library!Empty, Ids
<1>3. QED
  BY <1>1, <1>2 DEF Init, BrowserInv, EventsInv, CleanedLast, EventsMatchNodes, NodesInv, Cleaning

-----------------------------------------------------------------------------
(* The renderer.                                                           *)

\* Clear(q, i): no cleaned event from place i of q on.
Clear(q, i) == \A j \in i..Len(q) : q[j].kind # "cleaned"

\* Due(q, r, x): x has a renderer once the events in q are handled, if those of
\* r have one now.
Due(q, r, x) ==
  \/ x \in r /\ Clear(q, 1)
  \/ \E i \in DOMAIN q : x \in q[i].ids /\ Clear(q, i)

\* What the renderer has drawn when it has caught up are the browser's nodes,
\* but for the one that an import thread is about to announce; while the GUI
\* thread cleans, it is nothing.
RenderersInv ==
  "renderer" \in Listeners =>
    /\ Cleaning => \A x \in Nat : ~Due(queue["renderer"], renderers, x)
    /\ ~Cleaning => \A x \in Nat : Due(queue["renderer"], renderers, x) => x \in nodes
    /\ ~Cleaning => \A x \in nodes : \/ Due(queue["renderer"], renderers, x)
                                     \/ \E t \in Threads : pc[t] = "event" /\ x = Min(ids[t])

\* An event at the end of the queue, and one taken from its front.
LEMMA DueOfAppend ==
  ASSUME NEW q \in Seq(Event), NEW ev \in Event, NEW r, NEW x
  PROVE  /\ ev.kind # "cleaned" => (Due(Append(q, ev), r, x) <=> Due(q, r, x) \/ x \in ev.ids)
         /\ ev.kind = "cleaned" => ~Due(Append(q, ev), r, x)
<1> DEFINE n == Len(q)
           a == Append(q, ev)
<1>1. /\ n \in Nat /\ DOMAIN q = 1..n /\ Len(a) = n + 1 /\ DOMAIN a = 1..(n + 1)
      /\ \A i \in 1..n : a[i] = q[i]
      /\ a[n + 1] = ev
  BY AppendProperties, LenProperties
<1> HIDE DEF a, n
<1>2. ASSUME NEW i \in 1..(n + 1)
      PROVE  Clear(a, i) <=> (\A j \in i..n : q[j].kind # "cleaned") /\ ev.kind # "cleaned"
  <2>1. \A j \in i..(n + 1) : j \in i..n \/ j = n + 1
    BY <1>1
  <2>2. n + 1 \in i..(n + 1) /\ i..n \subseteq i..(n + 1) /\ i..n \subseteq 1..n
    BY <1>1
  <2>3. QED
    BY <1>1, <2>1, <2>2 DEF Clear
<1>3. \A i \in 1..(n + 1) : Clear(q, i) <=> \A j \in i..n : q[j].kind # "cleaned"
  BY DEF Clear, n
<1>4. 1 \in 1..(n + 1) /\ 1..n \subseteq 1..(n + 1) /\ n + 1 \in 1..(n + 1)
  BY <1>1
<1>5. \A i \in 1..(n + 1) : i \in 1..n \/ i = n + 1
  BY <1>1
<1>6. ASSUME ev.kind = "cleaned" PROVE ~Due(a, r, x)
  BY <1>1, <1>2, <1>4, <1>6 DEF Due
<1>7. ASSUME ev.kind # "cleaned" PROVE Due(a, r, x) <=> Due(q, r, x) \/ x \in ev.ids
  <2>1. \A i \in 1..(n + 1) : Clear(a, i) <=> Clear(q, i)
    BY <1>2, <1>3, <1>7
  <2>2. Clear(q, n + 1)
    BY <1>1, <1>3, <1>4
  <2>3. (\E i \in 1..(n + 1) : x \in a[i].ids /\ Clear(a, i))
          <=> (\E i \in 1..n : x \in q[i].ids /\ Clear(q, i)) \/ x \in ev.ids
    BY <1>1, <1>4, <1>5, <2>1, <2>2
  <2>4. QED
    BY <1>1, <1>4, <2>1, <2>3 DEF Due
<1>8. QED
  BY <1>6, <1>7 DEF a

LEMMA DueOfTail ==
  ASSUME NEW q \in Seq(Event), q # <<>>, NEW r, NEW s, NEW x
  PROVE  /\ q[1].kind # "cleaned" /\ (Clear(q, 1) => (x \in s <=> x \in r \/ x \in q[1].ids))
              => (Due(Tail(q), s, x) <=> Due(q, r, x))
         /\ q[1].kind = "cleaned" /\ x \notin s => (Due(Tail(q), s, x) <=> Due(q, r, x))
<1> DEFINE n == Len(q)
           a == Tail(q)
<1>1. /\ n \in Nat /\ n > 0 /\ DOMAIN q = 1..n /\ Len(a) = n - 1 /\ DOMAIN a = 1..(n - 1)
      /\ \A i \in 1..(n - 1) : a[i] = q[i + 1]
  <2>1. Len(q) \in Nat /\ DOMAIN q = 1..Len(q) /\ Len(q) > 0
    BY LenProperties, EmptySeq
  <2>2. /\ a \in Seq(Event) /\ Len(a) = Len(q) - 1
        /\ \A i \in 1..Len(Tail(q)) : Tail(q)[i] = q[i + 1]
    BY HeadTailProperties
  <2>3. DOMAIN a = 1..Len(a)
    BY <2>2, LenProperties
  <2>4. QED
    BY <2>1, <2>2, <2>3
<1> HIDE DEF a, n
<1>2. ASSUME NEW i \in 1..n PROVE Clear(a, i) <=> Clear(q, i + 1)
  <2>1. Clear(a, i) <=> \A j \in i..(n - 1) : q[j + 1].kind # "cleaned"
    <3>1. i..(n - 1) \subseteq 1..(n - 1)
      BY <1>1
    <3>2. QED
      BY <1>1, <3>1 DEF Clear
  <2>2. Clear(q, i + 1) <=> \A j \in i + 1..n : q[j].kind # "cleaned"
    BY DEF Clear, n
  <2>3. \A j \in i..(n - 1) : j + 1 \in i + 1..n
    BY <1>1
  <2>4. \A j \in i + 1..n : j - 1 \in i..(n - 1) /\ (j - 1) + 1 = j
    BY <1>1
  <2>5. QED
    BY <2>1, <2>2, <2>3, <2>4
<1>3. Clear(q, 1) <=> q[1].kind # "cleaned" /\ Clear(q, 2)
  <2>1. \A j \in 1..n : j = 1 \/ j \in 2..n
    BY <1>1
  <2>2. 1 \in 1..n /\ 2..n \subseteq 1..n
    BY <1>1
  <2>3. QED
    BY <2>1, <2>2 DEF Clear, n
<1>4. Clear(a, 1) <=> Clear(q, 2)
  <2>1. 1 \in 1..n /\ 1 + 1 = 2
    BY <1>1
  <2>2. Clear(a, 1) <=> Clear(q, 1 + 1)
    BY <1>2, <2>1
  <2>3. QED
    BY <2>1, <2>2
<1>5. (\E i \in 1..(n - 1) : x \in a[i].ids /\ Clear(a, i))
        <=> (\E i \in 2..n : x \in q[i].ids /\ Clear(q, i))
  <2>1. \A i \in 1..(n - 1) : i \in 1..n /\ i + 1 \in 2..n
    BY <1>1
  <2>2. \A i \in 2..n : i - 1 \in 1..(n - 1) /\ (i - 1) + 1 = i
    BY <1>1
  <2>3. \A i \in 1..(n - 1) : x \in a[i].ids /\ Clear(a, i) <=> x \in q[i + 1].ids /\ Clear(q, i + 1)
    BY <1>1, <1>2, <2>1
  <2>4. QED
    BY <2>1, <2>2, <2>3
<1>6. (\E i \in 1..n : x \in q[i].ids /\ Clear(q, i))
        <=> (x \in q[1].ids /\ Clear(q, 1)) \/ (\E i \in 2..n : x \in q[i].ids /\ Clear(q, i))
  <2>1. \A j \in 1..n : j = 1 \/ j \in 2..n
    BY <1>1
  <2>2. 1 \in 1..n /\ 2..n \subseteq 1..n
    BY <1>1
  <2>3. QED
    BY <2>1, <2>2
<1>7. Due(a, s, x) <=> (x \in s /\ Clear(q, 2)) \/ (\E i \in 2..n : x \in q[i].ids /\ Clear(q, i))
  BY <1>1, <1>4, <1>5 DEF Due
<1>8. Due(q, r, x) <=> ((x \in r \/ x \in q[1].ids) /\ Clear(q, 1))
                       \/ (\E i \in 2..n : x \in q[i].ids /\ Clear(q, i))
  BY <1>1, <1>6 DEF Due
<1>9. ASSUME q[1].kind # "cleaned", Clear(q, 1) => (x \in s <=> x \in r \/ x \in q[1].ids)
      PROVE  Due(a, s, x) <=> Due(q, r, x)
  <2>1. Clear(q, 1) <=> Clear(q, 2)
    BY <1>3, <1>9
  <2>2. CASE Clear(q, 1)
    BY <1>7, <1>8, <1>9, <2>1, <2>2
  <2>3. CASE ~Clear(q, 1)
    BY <1>7, <1>8, <2>1, <2>3
  <2>4. QED
    BY <2>2, <2>3
<1>10. ASSUME q[1].kind = "cleaned", x \notin s PROVE Due(a, s, x) <=> Due(q, r, x)
  BY <1>3, <1>7, <1>8, <1>10
<1>11. QED
  BY <1>9, <1>10 DEF a

\* The steps that matter neither to the renderer nor to the nodes.
LEMMA RendererSteps ==
  ASSUME Patient, ThreadInv, [Next]_vars
  PROVE  \/ CleanBrowser \/ LoadNodes \/ Clean \/ RendererHandles
         \/ \E t \in Threads : InitializeNode(t) \/ RaiseImported(t)
         \/ /\ UNCHANGED <<nodes, renderers>> /\ (Cleaning' <=> Cleaning)
            /\ \A t \in Threads : pc'[t] = "event" <=> pc[t] = "event"
            /\ \A t \in Threads : pc[t] = "event" => ids'[t] = ids[t]
            /\ \/ UNCHANGED queue
               \/ \E n, m \in Nat : Imported(n, m, -1) \in Event /\ Emit(Imported(n, m, -1))
               \/ "window" \in Listeners /\ Pop("window")
               \/ "view" \in Listeners /\ Pop("view")
<1> DEFINE Quietly == /\ UNCHANGED <<nodes, renderers>> /\ (Cleaning' <=> Cleaning)
                      /\ \A t \in Threads : pc'[t] = "event" <=> pc[t] = "event"
                      /\ \A t \in Threads : pc[t] = "event" => ids'[t] = ids[t]
<1>0. TypeOK /\ Turns
  BY DEF ThreadInv
<1>1. ASSUME NEW t \in Threads, Scan(t) \/ ImportNext(t) \/ NormaliseNew(t) \/ Finish(t) \/ End(t)
      PROVE  Quietly
  <2>1. UNCHANGED <<nodes, renderers, gui>>
    BY <1>1 DEF Scan, ImportNext, NormaliseNew, Finish, End, guiVars, listenerVars
  <2>2. pc[t] # "event" /\ pc'[t] # "event"
    BY <1>0, <1>1 DEF Scan, ImportNext, NormaliseNew, Finish, End, TypeOK
  <2>3. \A s \in Threads : s # t => pc'[s] = pc[s] /\ ids'[s] = ids[s]
    BY <1>0, <1>1 DEF Scan, ImportNext, NormaliseNew, Finish, End, TypeOK
  <2>4. QED
    BY <2>1, <2>2, <2>3 DEF Cleaning
<1>2. ASSUME NEW t \in Threads, NEW selection \in Selections, StartImport(t, selection) PROVE Quietly
  <2>1. UNCHANGED <<nodes, renderers, gui, ids>>
    BY <1>2 DEF StartImport, guiVars, listenerVars
  <2>2. \A s \in Threads : pc'[s] = "event" <=> pc[s] = "event"
    BY <1>0, <1>2 DEF StartImport, TypeOK
  <2>3. QED
    BY <2>1, <2>2 DEF Cleaning
<1>3. ASSUME \/ SaveXML \/ LoadXML \/ CleanTheLibrary \/ LoadNext \/ LoadFails \/ LoadNormalises
             \/ LoadFinish \/ UNCHANGED vars
      PROVE  Quietly
  <2>1. UNCHANGED <<nodes, renderers, pc, ids>>
    BY <1>3 DEF SaveXML, LoadXML, CleanTheLibrary, LoadNext, LoadFails, LoadNormalises, LoadFinish,
       vars, threadVars, listenerVars
  <2>2. Cleaning' <=> Cleaning
    BY <1>3 DEF Cleaning, SaveXML, LoadXML, CleanTheLibrary, LoadNext, LoadFails, LoadNormalises,
       LoadFinish, vars, guiVars, UserMayAct
  <2>3. QED
    BY <2>1, <2>2
<1>4. ASSUME \/ "window" \in Listeners /\ WindowHandles
             \/ "view" \in Listeners /\ ViewHandles
      PROVE  /\ Quietly
             /\ \/ "window" \in Listeners /\ Pop("window")
                \/ "view" \in Listeners /\ Pop("view")
  BY <1>4 DEF WindowHandles, ViewHandles, Pop, threadVars, guiVars, Cleaning
<1>5. ASSUME NEW t \in Threads, InitializeNode(t) \/ RaiseImported(t)
      PROVE  \E s \in Threads : InitializeNode(s) \/ RaiseImported(s)
  BY <1>5
<1> HIDE DEF Quietly
<1>6. \/ CleanBrowser \/ LoadNodes \/ Clean \/ RendererHandles
      \/ \E t \in Threads : InitializeNode(t) \/ RaiseImported(t)
      \/ Quietly
  BY <1>1, <1>2, <1>3, <1>4, <1>5 DEF Next, ImportThread, UserActs, GuiGoesOn, ListenersHandle
<1>7. \/ UNCHANGED queue
      \/ Clean \/ LoadNodes \/ RendererHandles
      \/ \E t \in Threads : RaiseImported(t)
      \/ \E n, m \in Nat : Imported(n, m, -1) \in Event /\ Emit(Imported(n, m, -1))
      \/ "window" \in Listeners /\ Pop("window")
      \/ "view" \in Listeners /\ Pop("view")
  BY QueueSteps, <1>4 DEF ListenersHandle
<1>8. QED
  BY <1>6, <1>7 DEF Quietly

LEMMA StepRenderers ==
  ASSUME Patient, ThreadInv, EventsInv, NodesInv, RenderersInv, [Next]_vars
  PROVE  RenderersInv'
<1> SUFFICES ASSUME "renderer" \in Listeners PROVE RenderersInv'
  BY DEF RenderersInv
<1> DEFINE q == queue["renderer"]
           D(x) == Due(q, renderers, x)
           Dn(x) == Due(q', renderers', x)
           E(x) == \E t \in Threads : pc[t] = "event" /\ x = Min(ids[t])
<1>0. /\ TypeOK /\ LibraryInv /\ Turns /\ ThreadsInv
      /\ q \in Seq(Event) /\ renderers \subseteq Nat
      /\ DOMAIN q = 1..Len(q) /\ Len(q) \in Nat
  <2>1. TypeOK /\ LibraryInv /\ Turns /\ ThreadsInv
    BY DEF ThreadInv
  <2>2. q \in Seq(Event) /\ renderers \subseteq Nat
    BY <2>1 DEF TypeOK
  <2>3. QED
    BY <2>1, <2>2, LenProperties
<1>n. Ids \subseteq Nat /\ nodes \subseteq Nat
  BY <1>0, LibraryFacts DEF TypeOK
<1>1. /\ Cleaning => \A x \in Nat : ~D(x)
      /\ ~Cleaning => \A x \in Nat : D(x) => x \in nodes
      /\ ~Cleaning => \A x \in nodes : D(x) \/ E(x)
  BY DEF RenderersInv
<1>2. ASSUME Cleaning' => \A x \in Nat : ~Dn(x),
             ~Cleaning' => \A x \in Nat : Dn(x) => x \in nodes',
             ~Cleaning' => \A x \in nodes' : Dn(x) \/ E(x)'
      PROVE  RenderersInv'
  BY <1>2 DEF RenderersInv
<1>3. ASSUME NEW ev \in Event, Emit(ev) PROVE q' = Append(q, ev)
  BY <1>3 DEF Emit
<1> HIDE DEF D, Dn, E, q
<1>4. ASSUME UNCHANGED nodes, Cleaning' <=> Cleaning,
             \A x \in Nat : Dn(x) <=> D(x),
             \A x \in Nat : E(x)' <=> E(x)
      PROVE  RenderersInv'
  BY <1>1, <1>2, <1>4, <1>n
<1>5. ASSUME NEW n \in Nat, NEW m \in Nat, Imported(n, m, -1) \in Event,
             Emit(Imported(n, m, -1)), UNCHANGED renderers
      PROVE  \A x \in Nat : Dn(x) <=> D(x)
  <2>1. q' = Append(q, Imported(n, m, -1))
    BY <1>3, <1>5
  <2>2. Imported(n, m, -1).kind # "cleaned" /\ \A x \in Nat : x \notin Imported(n, m, -1).ids
    BY DEF Imported
  <2>3. QED
    BY <1>0, <1>5, <2>1, <2>2, DueOfAppend DEF D, Dn
<1>6. CASE /\ UNCHANGED <<nodes, renderers>> /\ (Cleaning' <=> Cleaning)
           /\ \A t \in Threads : pc'[t] = "event" <=> pc[t] = "event"
           /\ \A t \in Threads : pc[t] = "event" => ids'[t] = ids[t]
           /\ \/ UNCHANGED queue
              \/ \E n, m \in Nat : Imported(n, m, -1) \in Event /\ Emit(Imported(n, m, -1))
              \/ "window" \in Listeners /\ Pop("window")
              \/ "view" \in Listeners /\ Pop("view")
  <2>1. \A x \in Nat : E(x)' <=> E(x)
    BY <1>6 DEF E
  <2>2. CASE \E n, m \in Nat : Imported(n, m, -1) \in Event /\ Emit(Imported(n, m, -1))
    BY <1>4, <1>5, <1>6, <2>1, <2>2
  <2>3. ASSUME q' = q PROVE RenderersInv'
    <3>1. \A x \in Nat : Dn(x) <=> D(x)
      BY <1>6, <2>3 DEF D, Dn
    <3>2. QED
      BY <1>4, <1>6, <2>1, <3>1
  <2>4. CASE UNCHANGED queue
    BY <2>3, <2>4 DEF q
  <2>5. CASE "window" \in Listeners /\ Pop("window")
    BY <1>0, <2>3, <2>5, PopEffect DEF q
  <2>6. CASE "view" \in Listeners /\ Pop("view")
    BY <1>0, <2>3, <2>6, PopEffect DEF q
  <2>7. QED
    BY <1>6, <2>2, <2>4, <2>5, <2>6
<1>7. CASE Clean
  <2>1. Cleaned \in Event /\ Emit(Cleaned) /\ Cleaning' /\ Cleaned.kind = "cleaned"
    BY <1>7, EventTypes, NodesMove DEF Clean, Cleaned
  <2>2. \A x \in Nat : ~Dn(x)
    <3>1. q' = Append(q, Cleaned)
      BY <1>3, <2>1
    <3>2. QED
      BY <1>0, <2>1, <3>1, DueOfAppend DEF Dn
  <2>3. QED
    BY <1>2, <2>1, <2>2
<1>8. CASE CleanBrowser
  <2>1. UNCHANGED <<queue, renderers>> /\ nodes' = {} /\ Cleaning /\ ~Cleaning'
    BY <1>8 DEF CleanBrowser, Cleaning
  <2>2. \A x \in Nat : ~Dn(x)
    BY <1>1, <2>1 DEF D, Dn, q
  <2>3. QED
    BY <1>2, <2>1, <2>2
<1>9. CASE LoadNodes
  <2> DEFINE new == begin + 1..mediaID
  <2>1. PICK n \in Nat, m \in Nat : AllImported(n, m, new) \in Event /\ Emit(AllImported(n, m, new))
    BY <1>9, LoadEffect
  <2>2. new \subseteq Ids
    BY <1>9, LoadEffect
  <2>3. /\ ~Cleaning /\ ~Cleaning' /\ nodes' = nodes \cup (new \cap Ids)
        /\ renderers' = renderers /\ gui # "idle"
    BY <1>9 DEF LoadNodes, Cleaning, listenerVars
  <2>4. \A x : ~E(x)
    BY <1>0, <2>3 DEF E, Turns, Busy
  <2>5. AllImported(n, m, new).kind # "cleaned" /\ AllImported(n, m, new).ids = new
    BY DEF AllImported
  <2> HIDE DEF new
  <2>6. \A x \in Nat : Dn(x) <=> D(x) \/ x \in new
    BY <1>0, <1>3, <2>1, <2>3, <2>5, DueOfAppend DEF D, Dn
  <2>7. nodes' \subseteq Nat
    BY <1>n, <2>2, <2>3
  <2>8. QED
    BY <1>1, <1>2, <2>2, <2>3, <2>4, <2>6, <2>7
<1>10. ASSUME NEW t \in Threads, InitializeNode(t) PROVE RenderersInv'
  <2>1. gui = "idle" /\ gui' = "idle"
    BY <1>0, <1>10 DEF Turns, Busy, InitializeNode, guiVars
  <2>2. /\ UNCHANGED <<queue, renderers, ids>> /\ ~Cleaning /\ ~Cleaning'
        /\ nodes' \subseteq nodes \cup {Min(ids[t])} /\ nodes \subseteq nodes'
    BY <1>10, <2>1 DEF InitializeNode, Cleaning, listenerVars
  <2>3. \A x \in Nat : Dn(x) <=> D(x)
    BY <2>2 DEF D, Dn, q
  <2>4. pc[t] = "node" /\ pc'[t] = "event" /\ \A s \in Threads : s # t => pc'[s] = pc[s]
    BY <1>0, <1>10 DEF InitializeNode, TypeOK
  <2>5. E(Min(ids[t]))' /\ \A x : E(x) => E(x)'
    BY <2>2, <2>4 DEF E
  <2>6. ASSUME NEW x \in nodes' PROVE Dn(x) \/ E(x)'
    <3>1. CASE x \in nodes
      BY <1>1, <1>n, <2>2, <2>3, <2>5, <3>1
    <3>2. CASE x = Min(ids[t])
      BY <2>2, <2>5, <3>2 DEF E
    <3>3. QED
      BY <2>2, <2>6, <3>1, <3>2
  <2>7. QED
    BY <1>1, <1>2, <2>2, <2>3, <2>6
<1>11. ASSUME NEW t \in Threads, RaiseImported(t) PROVE RenderersInv'
  <2>1. PICK n \in Nat, m \in Nat : /\ Imported(n, m, Min(ids[t])) \in Event
                                    /\ Emit(Imported(n, m, Min(ids[t])))
    BY <1>11, RaiseEffect
  <2>2. /\ ~Cleaning /\ ~Cleaning' /\ Min(ids[t]) \in Nat
        /\ nodes' = nodes /\ renderers' = renderers
        /\ Min(ids[t]) \in nodes
    BY <1>0, <1>11, RaiseEffect DEF RaiseImported, ThreadsInv, listenerVars
  <2>3. /\ Imported(n, m, Min(ids[t])).kind # "cleaned"
        /\ Imported(n, m, Min(ids[t])).ids = {Min(ids[t])}
    BY DEF Imported
  <2>4. \A x \in Nat : Dn(x) <=> D(x) \/ x = Min(ids[t])
    BY <1>0, <1>3, <2>1, <2>2, <2>3, DueOfAppend DEF D, Dn
  <2>5. \A x : E(x) => x = Min(ids[t])
    BY <1>0, <1>11 DEF E, Turns, Busy, RaiseImported
  <2>6. QED
    BY <1>1, <1>2, <1>n, <2>2, <2>4, <2>5
<1>12. CASE RendererHandles
  <2> DEFINE h == q[1]
  <2>1. Pop("renderer")
    BY <1>12 DEF RendererHandles, RendererImported, RendererAllImported, RendererCleaned
  <2>2. /\ q # <<>> /\ q' = Tail(q) /\ Oldest("renderer") = h /\ 1 \in DOMAIN q /\ h \in Event
        /\ UNCHANGED <<nodes, pc, ids, gui, media>>
    <3>1. Oldest("renderer") = h /\ h \in Event /\ 1 \in DOMAIN q
      BY <1>0, <2>1, PopEffect DEF q
    <3>2. QED
      BY <1>0, <2>1, <3>1 DEF Pop, threadVars, guiVars, libraryVars, TypeOK, q
  <2>3. EventOK(h)
    BY <2>2 DEF EventsInv, q
  <2>4. \A x \in Nat : x \in h.ids /\ Clear(q, 1) => D(x)
    BY <2>2 DEF Due, D
  <2>5. /\ Cleaning' <=> Cleaning
        /\ \A x \in Nat : E(x)' <=> E(x)
    BY <2>2 DEF Cleaning, E
  <2> HIDE DEF h
  <2>6. ASSUME h.kind # "cleaned",
               \A x \in Nat : Clear(q, 1) => (x \in renderers' <=> x \in renderers \/ x \in h.ids)
        PROVE  RenderersInv'
    <3>1. \A x \in Nat : Dn(x) <=> D(x)
      BY <1>0, <2>2, <2>6, DueOfTail DEF D, Dn, h
    <3>2. QED
      BY <1>4, <2>2, <2>5, <3>1
  <2>7. CASE RendererCleaned
    <3>1. h.kind = "cleaned" /\ renderers' = {}
      BY <2>2, <2>7 DEF RendererCleaned
    <3>2. \A x \in Nat : Dn(x) <=> D(x)
      BY <1>0, <2>2, <3>1, DueOfTail DEF D, Dn, h
    <3>3. QED
      BY <1>4, <2>2, <2>5, <3>2
  \* An event that nothing cleans away is about media of the library.
  <2>8. ASSUME Clear(q, 1), NEW x \in Nat, x \in h.ids PROVE x \in nodes /\ x \in Ids
    BY <1>1, <2>4, <2>8 DEF NodesInv
  <2>9. CASE RendererImported
    <3>1. /\ h.kind = "imported"
          /\ renderers' = renderers \cup ((IF h.n = 0 THEN {} ELSE h.ids \cap Ids) \cap nodes)
      BY <2>2, <2>9 DEF RendererImported
    <3>2. h.n = 0 => \A x \in Nat : x \notin h.ids
      BY <2>3, <3>1 DEF EventOK
    <3>3. \A x \in Nat : Clear(q, 1) => (x \in renderers' <=> x \in renderers \/ x \in h.ids)
      BY <2>8, <3>1, <3>2
    <3>4. QED
      BY <2>6, <3>1, <3>3
  <2>10. CASE RendererAllImported
    <3> DEFINE gone == h.ids \ Ids
               added == {i \in h.ids : \A j \in gone : i < j}
    <3>1. h.kind = "all imported" /\ renderers' = renderers \cup (added \cap nodes)
      BY <2>2, <2>10 DEF RendererAllImported
    <3>2. Clear(q, 1) => gone = {}
      <4>1. h.ids \subseteq Nat
        BY <2>2, <2>3, <3>1 DEF EventOK, Event
      <4>2. QED
        BY <2>8, <4>1
    <3>3. Clear(q, 1) => added = h.ids
      BY <3>2
    <3> HIDE DEF gone, added
    <3>4. \A x \in Nat : Clear(q, 1) => (x \in renderers' <=> x \in renderers \/ x \in h.ids)
      BY <2>8, <3>1, <3>3
    <3>5. QED
      BY <2>6, <3>1, <3>4
  <2>11. QED
    BY <1>12, <2>7, <2>9, <2>10 DEF RendererHandles
<1>13. QED
  BY RendererSteps, <1>6, <1>7, <1>8, <1>9, <1>10, <1>11, <1>12

-----------------------------------------------------------------------------
(* The window.                                                             *)

Shows(ev) == ev.kind = "imported" /\ ev.n = 0
Hides(ev) == IsFinish(ev) /\ ev.n # 0

\* Kept(q, i): no event from place i of q on takes the progress bar away.
Kept(q, i) == \A j \in i..Len(q) : ~Hides(q[j])

\* Shown(q, bar): the bar is there once the events in q are handled, if it is
\* there now or not (bar).
Shown(q, bar) ==
  \/ bar /\ Kept(q, 1)
  \/ \E i \in DOMAIN q : Shows(q[i]) /\ Kept(q, i)

\* Between two imports the bar is there only of an empty library.
WindowInv ==
  /\ "window" \in Listeners /\ gui = "idle" /\ (\A t \in Threads : ~Busy(t))
     /\ Shown(queue["window"], loading) => Ids = {}
  /\ "window" \notin Listeners => ~loading

LEMMA ShownOfFinish ==
  ASSUME NEW q \in Seq(Event), NEW n \in Nat, n # 0, Imported(n, n, -1) \in Event, NEW bar \in BOOLEAN
  PROVE  ~Shown(Append(q, Imported(n, n, -1)), bar)
<1> DEFINE a == Append(q, Imported(n, n, -1))
           k == Len(q)
<1>1. /\ k \in Nat /\ Len(a) = k + 1 /\ DOMAIN a = 1..(k + 1) /\ a[k + 1] = Imported(n, n, -1)
  BY AppendProperties, LenProperties
<1>2. Hides(Imported(n, n, -1))
  BY DEF Hides, Imported
<1> HIDE DEF a, k
<1>3. \A i \in 1..(k + 1) : ~Kept(a, i)
  <2>1. \A i \in 1..(k + 1) : k + 1 \in i..Len(a)
    BY <1>1
  <2>2. QED
    BY <1>1, <1>2, <2>1 DEF Kept
<1>4. 1 \in 1..(k + 1)
  BY <1>1
<1>5. ~Shown(a, bar)
  BY <1>1, <1>3, <1>4 DEF Shown
<1>6. QED
  BY <1>5 DEF a

LEMMA ShownOfTail ==
  ASSUME NEW q \in Seq(Event), q # <<>>, NEW bar, NEW bar1,
         bar1 => Shows(q[1]) \/ (bar /\ ~Hides(q[1])),
         Shown(Tail(q), bar1)
  PROVE  Shown(q, bar)
<1> DEFINE n == Len(q)
           a == Tail(q)
<1>1. /\ n \in Nat /\ n > 0 /\ DOMAIN q = 1..n /\ Len(a) = n - 1 /\ DOMAIN a = 1..(n - 1)
      /\ \A i \in 1..(n - 1) : a[i] = q[i + 1]
  <2>1. Len(q) \in Nat /\ DOMAIN q = 1..Len(q) /\ Len(q) > 0
    BY LenProperties, EmptySeq
  <2>2. /\ a \in Seq(Event) /\ Len(a) = Len(q) - 1
        /\ \A i \in 1..Len(Tail(q)) : Tail(q)[i] = q[i + 1]
    BY HeadTailProperties
  <2>3. DOMAIN a = 1..Len(a)
    BY <2>2, LenProperties
  <2>4. QED
    BY <2>1, <2>2, <2>3
<1>s. Shown(a, bar1)
  OBVIOUS
<1> HIDE DEF a, n
<1>2. ASSUME NEW i \in 1..n, Kept(a, i) PROVE Kept(q, i + 1)
  <2>1. \A j \in i + 1..n : j - 1 \in i..(n - 1) /\ j - 1 \in 1..(n - 1) /\ (j - 1) + 1 = j
    BY <1>1
  <2>2. \A j \in i..(n - 1) : ~Hides(a[j])
    BY <1>1, <1>2 DEF Kept
  <2>3. \A j \in i + 1..n : ~Hides(q[j])
    BY <1>1, <2>1, <2>2
  <2>4. QED
    BY <2>3 DEF Kept, n
<1>3. CASE \E i \in DOMAIN a : Shows(a[i]) /\ Kept(a, i)
  <2>1. PICK i \in 1..(n - 1) : Shows(a[i]) /\ Kept(a, i)
    BY <1>1, <1>3
  <2>2. i \in 1..n /\ i + 1 \in 1..n
    BY <1>1
  <2>3. Shows(q[i + 1]) /\ Kept(q, i + 1)
    BY <1>1, <1>2, <2>1, <2>2
  <2>4. QED
    BY <1>1, <2>2, <2>3 DEF Shown
<1>4. CASE bar1 /\ Kept(a, 1)
  <2>1. Kept(q, 2) /\ 1 \in 1..n
    <3>1. 1 \in 1..n /\ 1 + 1 = 2
      BY <1>1
    <3>2. Kept(q, 1 + 1)
      BY <1>2, <1>4, <3>1
    <3>3. QED
      BY <3>1, <3>2
  <2>2. ~Hides(q[1]) => Kept(q, 1)
    <3>1. \A j \in 1..n : j = 1 \/ j \in 2..n
      BY <1>1
    <3>2. QED
      BY <2>1, <3>1 DEF Kept, n
  <2>3. CASE Shows(q[1])
    <3>1. ~Hides(q[1])
      BY <2>3 DEF Shows, Hides
    <3>2. QED
      BY <1>1, <2>1, <2>2, <2>3, <3>1 DEF Shown
  <2>4. CASE bar /\ ~Hides(q[1])
    BY <2>2, <2>4 DEF Shown
  <2>5. QED
    BY <1>4, <2>3, <2>4
<1>5. QED
  BY <1>s, <1>3, <1>4 DEF Shown

LEMMA StepWindow ==
  ASSUME Patient, ThreadInv, NodesInv, WindowInv, [Next]_vars
  PROVE  WindowInv'
<1>0. TypeOK /\ LibraryInv /\ Turns
  BY DEF ThreadInv
<1>l. "window" \notin Listeners => ~loading'
  BY DEF WindowInv, Next, ImportThread, UserActs, GuiGoesOn, ListenersHandle, RendererHandles,
     Scan, ImportNext, NormaliseNew, InitializeNode, RaiseImported, Finish, End, StartImport,
     Clean, SaveXML, LoadXML, CleanTheLibrary, CleanBrowser, LoadNext, LoadFails, LoadNormalises,
     LoadNodes, LoadFinish, RendererImported, RendererAllImported, RendererCleaned, ViewHandles,
     vars, listenerVars
<1> SUFFICES ASSUME "window" \in Listeners, gui' = "idle", \A t \in Threads : ~Busy(t)',
                    Shown(queue'["window"], loading')
             PROVE  Ids' = {}
  BY <1>l DEF WindowInv
<1>1. ASSUME UNCHANGED <<queue, loading>>, gui = "idle", \A t \in Threads : ~Busy(t), Ids' = Ids
      PROVE  Ids' = {}
  BY <1>1 DEF WindowInv
<1>2. ASSUME EmitFinished, Ids' = Ids, UNCHANGED loading PROVE Ids' = {}
  <2>1. PICK n \in Nat : Emit(Imported(n, n, -1)) /\ n = Cardinality(Ids)
    BY <1>0, <1>2, FinishType
  <2>2. queue'["window"] = Append(queue["window"], Imported(n, n, -1))
    BY <2>1 DEF Emit
  <2>3. queue["window"] \in Seq(Event) /\ loading' \in BOOLEAN /\ Imported(n, n, -1) \in Event
    BY <1>0, <1>2, EventTypes DEF TypeOK
  <2>4. n = 0
    BY <2>2, <2>3, ShownOfFinish
  <2>5. Ids = {}
    <3>1. IsFiniteSet(Ids)
      BY <1>0, LibraryFacts
    <3>2. QED
      BY <2>1, <2>4, <3>1, FS_EmptySet
  <2>6. QED
    BY <1>2, <2>5
<1>3. ASSUME NEW t \in Threads,
             Scan(t) \/ ImportNext(t) \/ NormaliseNew(t) \/ InitializeNode(t) \/ RaiseImported(t)
      PROVE  FALSE
  <2>1. pc'[t] \in {"file", "normalise", "node", "event"}
    BY <1>0, <1>3 DEF Scan, ImportNext, NormaliseNew, InitializeNode, RaiseImported, TypeOK
  <2>2. QED
    BY <2>1 DEF Busy
<1>4. ASSUME NEW t \in Threads, NEW selection \in Selections, StartImport(t, selection) PROVE FALSE
  <2>1. pc'[t] = "scan"
    BY <1>0, <1>4 DEF StartImport, TypeOK
  <2>2. QED
    BY <2>1 DEF Busy
<1>5. ASSUME Clean \/ CleanTheLibrary \/ LoadXML \/ LoadNext \/ LoadNormalises \/ LoadNodes
      PROVE  FALSE
  BY <1>5 DEF Clean, CleanTheLibrary, LoadXML, LoadNext, LoadNormalises, LoadNodes, guiVars
<1>6. ASSUME NEW t \in Threads, Finish(t) PROVE Ids' = {}
  BY <1>2, <1>6 DEF Finish, libraryVars, listenerVars, Ids
<1>7. ASSUME NEW t \in Threads, End(t) PROVE Ids' = {}
  <2>1. \A s \in Threads : Busy(s)' <=> Busy(s)
    BY <1>0, <1>7 DEF End, Busy, TypeOK
  <2>2. QED
    BY <1>1, <1>7, <2>1 DEF End, libraryVars, listenerVars, guiVars, Ids
<1>8. CASE CleanBrowser
  BY <1>8 DEF CleanBrowser, NodesInv, libraryVars, Ids
<1>9. CASE SaveXML
  <2>1. Ids' = Ids
    BY <1>0, <1>9, OtherCalls DEF SaveXML
  <2>2. QED
    BY <1>1, <1>9, <2>1, UsersTurn DEF SaveXML, listenerVars
<1>10. CASE LoadFails
  <2>1. Ids' = Ids
    BY <1>0, <1>10, OtherCalls DEF LoadFails
  <2>2. QED
    BY <1>2, <1>10, <2>1 DEF LoadFails, listenerVars
<1>11. CASE LoadFinish
  BY <1>2, <1>11 DEF LoadFinish, libraryVars, listenerVars, Ids
<1>12. ASSUME NEW l \in Listeners, Pop(l), l # "window", UNCHANGED loading PROVE Ids' = {}
  <2>1. queue'["window"] = queue["window"]
    BY <1>0, <1>12, PopEffect
  <2>2. Ids' = Ids /\ gui = "idle" /\ \A t \in Threads : ~Busy(t)
    BY <1>12 DEF Pop, libraryVars, threadVars, guiVars, Ids, Busy
  <2>3. QED
    BY <1>12, <2>1, <2>2 DEF WindowInv
<1>13. CASE RendererHandles \/ ("view" \in Listeners /\ ViewHandles)
  BY <1>12, <1>13 DEF RendererHandles, RendererImported, RendererAllImported, RendererCleaned,
     ViewHandles
<1>14. CASE WindowHandles
  <2> DEFINE q == queue["window"]
  <2>1. Pop("window")
    BY <1>14 DEF WindowHandles
  <2>2. /\ q \in Seq(Event) /\ q # <<>> /\ queue'["window"] = Tail(q) /\ Oldest("window") = q[1]
        /\ Ids' = Ids /\ gui = "idle" /\ \A t \in Threads : ~Busy(t)
    <3>1. Oldest("window") = q[1]
      BY <1>0, <2>1, PopEffect
    <3>2. QED
      BY <1>0, <2>1, <3>1 DEF Pop, TypeOK, libraryVars, threadVars, guiVars, Ids, Busy
  <2>3. loading' => Shows(q[1]) \/ (loading /\ ~Hides(q[1]))
    BY <1>14, <2>2 DEF WindowHandles, Shows, Hides
  <2>4. Shown(q, loading)
    BY <2>2, <2>3, ShownOfTail
  <2>5. QED
    BY <2>2, <2>4 DEF WindowInv
<1>15. CASE UNCHANGED vars
  BY <1>1, <1>15 DEF vars, libraryVars, threadVars, guiVars, listenerVars, Ids, Busy
<1>16. QED
  BY <1>3, <1>4, <1>5, <1>6, <1>7, <1>8, <1>9, <1>10, <1>11, <1>13, <1>14, <1>15
     DEF Next, ImportThread, UserActs, GuiGoesOn, ListenersHandle

-----------------------------------------------------------------------------
(* The user who waits.                                                     *)

\* What is queued is still in the library, or about to be cleaned away
\* everywhere; the mutex is there, and the flag is up while a thread imports.
WaitsInv ==
  User = "waits" =>
    /\ \A l \in Listeners : \A i \in DOMAIN queue[l] : queue[l][i].ids \subseteq Ids \cup {-1}
    /\ Cleaning => \A l \in Listeners : \A i \in DOMAIN queue[l] : queue[l][i].kind = "cleaned"
    /\ ~locked
    /\ \A t \in Threads : Busy(t) => importing

LEMMA StepWaits ==
  ASSUME Patient, ThreadInv, EventsInv, WaitsInv, [Next]_vars
  PROVE  WaitsInv'
<1> SUFFICES ASSUME User = "waits" PROVE WaitsInv'
  BY DEF WaitsInv
<1> DEFINE Known == \A l \in Listeners : \A i \in DOMAIN queue[l] : queue[l][i].ids \subseteq Ids \cup {-1}
           OnlyCleaned ==
             Cleaning => \A l \in Listeners : \A i \in DOMAIN queue[l] : queue[l][i].kind = "cleaned"
           Flagged == \A t \in Threads : Busy(t) => importing
<1>0. /\ TypeOK /\ LibraryInv /\ Turns /\ ThreadsInv
      /\ Known /\ OnlyCleaned /\ ~locked /\ Flagged
  BY DEF ThreadInv, WaitsInv
<1>i. Ids \subseteq Ids' \/ (CleanTheLibrary /\ Ids' = {})
  BY LibraryMoves
<1>q. ASSUME NEW l \in Listeners PROVE DOMAIN queue[l] = 1..Len(queue[l]) /\ Len(queue[l]) \in Nat
  BY <1>0, LenProperties DEF TypeOK
\* An event that is raised, or one that is handled.
<1>1. ASSUME NEW ev \in Event, Emit(ev), ev.ids \subseteq Ids \cup {-1}, Ids \subseteq Ids' PROVE Known'
  <2>1. ASSUME NEW l \in Listeners, NEW i \in DOMAIN queue'[l]
        PROVE  queue'[l][i].ids \subseteq Ids' \cup {-1}
    <3>1. /\ Len(queue[l]) \in Nat
          /\ DOMAIN queue[l] = 1..Len(queue[l])
          /\ DOMAIN queue'[l] = 1..(Len(queue[l]) + 1)
          /\ \A j \in 1..Len(queue[l]) : queue'[l][j] = queue[l][j]
          /\ queue'[l][Len(queue[l]) + 1] = ev
      BY <1>0, <1>1, EmitEffect
    <3>2. i \in 1..Len(queue[l]) \/ i = Len(queue[l]) + 1
      BY <3>1
    <3>3. QED
      BY <1>0, <1>1, <3>1, <3>2
  <2>2. QED
    BY <2>1
<1>2. ASSUME NEW k \in Listeners, Pop(k)
      PROVE  \A l \in Listeners : \A i \in DOMAIN queue'[l] :
               \E j \in DOMAIN queue[l] : queue'[l][i] = queue[l][j]
  <2>1. ASSUME NEW l \in Listeners, NEW i \in DOMAIN queue'[l]
        PROVE  \E j \in DOMAIN queue[l] : queue'[l][i] = queue[l][j]
    <3>1. CASE l # k
      BY <1>0, <1>2, <3>1, PopEffect
    <3>2. CASE l = k
      <4>1. /\ Len(queue[k]) \in Nat
            /\ DOMAIN queue[k] = 1..Len(queue[k])
            /\ DOMAIN queue'[k] = 1..(Len(queue[k]) - 1)
            /\ \A j \in 1..(Len(queue[k]) - 1) : queue'[k][j] = queue[k][j + 1]
        BY <1>0, <1>2, PopEffect
      <4>2. i \in 1..(Len(queue[k]) - 1) /\ i + 1 \in DOMAIN queue[k]
        BY <3>2, <4>1
      <4>3. QED
        BY <3>2, <4>1, <4>2
    <3>3. QED
      BY <3>1, <3>2
  <2>2. QED
    BY <2>1
<1>k. Known'
  <2>1. CASE UNCHANGED queue
    <3>1. CASE Ids \subseteq Ids'
      BY <1>0, <2>1, <3>1
    <3>2. CASE CleanTheLibrary
      <4>1. Cleaning
        BY <3>2 DEF CleanTheLibrary, Cleaning
      <4>2. \A l \in Listeners : \A i \in DOMAIN queue[l] : queue[l][i].ids = {}
        BY <1>0, <4>1 DEF EventsInv, EventOK
      <4>3. QED
        BY <2>1, <4>2
    <3>3. QED
      BY <1>i, <3>1, <3>2
  <2>2. ASSUME ListenersHandle, NEW k \in Listeners, Pop(k) PROVE Known'
    <3>1. Ids' = Ids
      BY <2>2 DEF Pop, libraryVars, Ids
    <3>2. QED
      BY <1>0, <1>2, <2>2, <3>1
  <2>3. ASSUME Clean, Cleaned \in Event, Emit(Cleaned) PROVE Known'
    <3>1. Ids' = Ids
      BY <2>3, NodesMove DEF libraryVars, Ids
    <3>2. QED
      BY <1>1, <2>3, <3>1 DEF Cleaned
  <2>4. ASSUME NEW ev \in Event, Emit(ev), ~CleanTheLibrary, ev.ids \subseteq Ids \cup {-1} PROVE Known'
    BY <1>1, <1>i, <2>4
  <2>5. ASSUME NEW n \in Nat, NEW m \in Nat, Imported(n, m, -1) \in Event, Emit(Imported(n, m, -1)),
               ~Cleaning'
        PROVE  Known'
    <3>1. ~CleanTheLibrary
      BY <2>5 DEF CleanTheLibrary, Cleaning
    <3>2. QED
      BY <2>4, <2>5, <3>1 DEF Imported
  <2>6. ASSUME NEW t \in Threads, NEW n \in Nat, NEW m \in Nat, RaiseImported(t),
               Imported(n, m, Min(ids[t])) \in Event, Emit(Imported(n, m, Min(ids[t]))),
               Min(ids[t]) \in ids[t], ~Cleaning
        PROVE  Known'
    <3>1. ~CleanTheLibrary /\ ids[t] \subseteq Ids
      BY <1>0, <2>6 DEF CleanTheLibrary, Cleaning, ThreadsInv
    <3>2. QED
      BY <2>4, <2>6, <3>1 DEF Imported
  <2>7. ASSUME NEW n \in Nat, NEW m \in Nat, LoadNodes,
               AllImported(n, m, begin + 1..mediaID) \in Event,
               Emit(AllImported(n, m, begin + 1..mediaID)),
               begin + 1..mediaID \subseteq Ids
        PROVE  Known'
    <3>1. ~CleanTheLibrary
      BY <2>7 DEF CleanTheLibrary, LoadNodes
    <3>2. QED
      BY <2>4, <2>7, <3>1 DEF AllImported
  <2>8. QED
    BY QueueSteps, <2>1, <2>2, <2>3, <2>5, <2>6, <2>7
<1>c. OnlyCleaned'
  <2> SUFFICES ASSUME Cleaning'
               PROVE  \A l \in Listeners : \A i \in DOMAIN queue'[l] : queue'[l][i].kind = "cleaned"
    OBVIOUS
  <2>1. CASE Clean
    <3>1. Cleaned \in Event /\ Emit(Cleaned)
      BY <2>1, EventTypes DEF Clean
    <3>2. ASSUME NEW l \in Listeners, NEW i \in DOMAIN queue'[l] PROVE queue'[l][i].kind = "cleaned"
      <4>1. queue[l] = <<>>
        BY <2>1, UsersTurn DEF Clean
      <4>2. /\ DOMAIN queue'[l] = 1..(Len(queue[l]) + 1)
            /\ queue'[l][Len(queue[l]) + 1] = Cleaned
        BY <1>0, <3>1, EmitEffect
      <4>3. Len(queue[l]) = 0
        BY <4>1
      <4>4. QED
        BY <3>2, <4>2, <4>3 DEF Cleaned
    <3>3. QED
      BY <3>2
  <2>2. CASE ~Clean
    <3>1. Cleaning
      BY <2>2, NodesMove
    <3>2. ~LoadNodes
      BY <3>1 DEF LoadNodes, Cleaning
    <3>3. UNCHANGED queue \/ \E k \in Listeners : Pop(k)
      BY QueueSteps, <2>2, <3>1, <3>2
    <3>4. QED
      BY <1>0, <1>2, <3>1, <3>3
  <2>3. QED
    BY <2>1, <2>2
\* All that the loop of mediasImported meets is in the library.
<1>m. ~locked'
  <2>1. CASE RendererHandles
    <3>1. CASE RendererAllImported
      <4>1. /\ Pop("renderer") /\ "renderer" \in Listeners
            /\ Oldest("renderer").kind = "all imported"
            /\ locked' = (Oldest("renderer").ids \ Ids # {})
        BY <2>1, <3>1 DEF RendererHandles, RendererAllImported
      <4>2. Oldest("renderer") = queue["renderer"][1] /\ 1 \in DOMAIN queue["renderer"]
        <5>1. /\ Oldest("renderer") = queue["renderer"][1]
              /\ Len(queue["renderer"]) \in Nat /\ Len(queue["renderer"]) > 0
              /\ DOMAIN queue["renderer"] = 1..Len(queue["renderer"])
          BY <1>0, <4>1, PopEffect
        <5>2. QED
          BY <5>1
      <4>3. Oldest("renderer").ids \subseteq Ids \cup {-1} /\ -1 \notin Oldest("renderer").ids
        BY <1>0, <4>1, <4>2 DEF EventsInv, EventOK
      <4>4. QED
        BY <4>1, <4>3
    <3>2. CASE RendererImported \/ RendererCleaned
      BY <1>0, <3>2 DEF RendererImported, RendererCleaned
    <3>3. QED
      BY <2>1, <3>1, <3>2 DEF RendererHandles
  <2>2. CASE ~RendererHandles
    <3>1. UNCHANGED locked
      BY <2>2 DEF Next, ImportThread, UserActs, GuiGoesOn, ListenersHandle, Scan, ImportNext,
         NormaliseNew, InitializeNode, RaiseImported, Finish, End, StartImport, Clean, SaveXML,
         LoadXML, CleanTheLibrary, CleanBrowser, LoadNext, LoadFails, LoadNormalises, LoadNodes,
         LoadFinish, WindowHandles, ViewHandles, vars, listenerVars
    <3>2. QED
      BY <1>0, <3>1
  <2>3. QED
    BY <2>1, <2>2
\* The flag goes down when no other thread runs.
<1>f. Flagged'
  <2>1. ASSUME NEW t \in Threads, Finish(t) \/ End(t) PROVE Flagged'
    <3>1. \A s \in Threads : pc[s] # "idle" => s = t
      BY <1>0, <2>1 DEF Turns, Finish, End
    <3>2. \A s \in Threads : ~Busy(s)'
      BY <1>0, <2>1, <3>1 DEF Finish, End, TypeOK, Busy
    <3>3. QED
      BY <3>2
  <2>2. ASSUME NEW t \in Threads, Scan(t) PROVE Flagged'
    BY <2>2 DEF Scan
  <2>3. ASSUME NEW t \in Threads, NEW selection \in Selections, StartImport(t, selection) PROVE Flagged'
    BY <2>3 DEF StartImport
  <2>4. ASSUME NEW t \in Threads,
               ImportNext(t) \/ NormaliseNew(t) \/ InitializeNode(t) \/ RaiseImported(t)
        PROVE  Flagged'
    <3>1. Busy(t) /\ UNCHANGED importing
      BY <2>4 DEF ImportNext, NormaliseNew, InitializeNode, RaiseImported, Busy
    <3>2. QED
      BY <1>0, <3>1
  <2>5. CASE LoadFinish
    <3>1. \A t \in Threads : ~Busy(t)'
      BY <1>0, <2>5 DEF LoadFinish, Turns, Busy, threadVars
    <3>2. QED
      BY <3>1
  <2>6. ASSUME UNCHANGED <<importing, pc>> PROVE Flagged'
    BY <1>0, <2>6 DEF Busy
  <2>7. CASE Clean \/ SaveXML \/ LoadXML \/ CleanTheLibrary \/ CleanBrowser \/ LoadNext \/ LoadFails
             \/ LoadNormalises \/ LoadNodes
    BY <2>6, <2>7 DEF Clean, SaveXML, LoadXML, CleanTheLibrary, CleanBrowser, LoadNext, LoadFails,
       LoadNormalises, LoadNodes, threadVars
  <2>8. CASE ListenersHandle \/ UNCHANGED vars
    BY <2>6, <2>8 DEF ListenersHandle, RendererHandles, RendererImported, RendererAllImported,
       RendererCleaned, WindowHandles, ViewHandles, Pop, vars, threadVars
  <2> HIDE DEF Flagged
  <2>9. QED
    BY <2>1, <2>2, <2>3, <2>4, <2>5, <2>7, <2>8 DEF Next, ImportThread, UserActs, GuiGoesOn
<1>r. QED
  BY <1>k, <1>c, <1>m, <1>f DEF WaitsInv

-----------------------------------------------------------------------------
(* The theorems.                                                           *)

\* The inductive invariant.
IInv == ThreadInv /\ BrowserInv /\ RenderersInv /\ WindowInv /\ WaitsInv

LEMMA InitInv == Init => IInv
<1> SUFFICES ASSUME Init PROVE IInv
  OBVIOUS
<1>1. ThreadInv /\ BrowserInv
  BY InitThreads, InitBrowser
<1>2. /\ \A l \in Listeners : queue[l] = <<>> /\ DOMAIN queue[l] = {}
      /\ renderers = {} /\ nodes = {} /\ loading = FALSE /\ locked = FALSE
      /\ \A t \in Threads : pc[t] = "idle"
  BY DEF Init
<1>3. RenderersInv
  BY <1>2 DEF RenderersInv, Due
<1>4. WindowInv
  BY <1>2 DEF WindowInv, Shown
<1>5. WaitsInv
  BY <1>2 DEF WaitsInv, Busy
<1>6. QED
  BY <1>1, <1>3, <1>4, <1>5 DEF IInv

LEMMA StepInv == Patient /\ IInv /\ [Next]_vars => IInv'
BY StepThreadInv, StepBrowserInv, StepRenderers, StepWindow, StepWaits DEF IInv, BrowserInv

\* The invariant that the theorems below rest on holds of any user but a hasty one.
THEOREM Invariance ==
  ASSUME Patient
  PROVE  Spec => []IInv
<1>1. IInv /\ [Next]_vars => IInv'
  BY StepInv
<1>2. QED
  BY InitInv, <1>1, PTL DEF Spec

\* A user who lets the import be announced as finished makes the program use
\* its library as MediaLibrary lets a program use it: the calls of the threads
\* come in its order, and an incremental normalisation always finds a feature
\* that was normalised in full.
THEOREM LibraryUsedWell ==
  ASSUME Patient
  PROVE  Spec => LibraryUse
<1>1. Init => Library!Init
  BY DEF Init
<1>2. IInv /\ [Next]_vars => [Library!Next]_Library!libraryVars
  BY LibraryMoves DEF IInv
<1>3. QED
  BY Invariance, <1>1, <1>2, PTL DEF Spec, LibraryUse, Library!Spec

\* So what is proved of the library holds of it in the program: its ids are
\* 0..mediaID, every segment hangs from its file, and nothing up to the last
\* normalised medium is left without normalisation.
THEOREM LibraryHolds ==
  ASSUME Patient
  PROVE  Spec => [](Library!IdsContiguous /\ Library!ParentLinks /\ Library!NormalizedPrefix)
<1>1. ASSUME IInv PROVE Library!IdsContiguous /\ Library!ParentLinks /\ Library!NormalizedPrefix
  <2>1. LibraryProofs!IdsContiguous /\ LibraryProofs!ParentLinks /\ LibraryProofs!NormalizedPrefix
    BY <1>1 DEF IInv, ThreadInv, LibraryInv, LibraryProofs!IInv
  <2>2. /\ LibraryProofs!IdsContiguous <=> Library!IdsContiguous
        /\ LibraryProofs!ParentLinks <=> Library!ParentLinks
        /\ LibraryProofs!NormalizedPrefix <=> Library!NormalizedPrefix
    BY SameLibraryHelpers, Zenon DEF LibraryProofs!IdsContiguous, Library!IdsContiguous,
       LibraryProofs!ParentLinks, Library!ParentLinks,
       LibraryProofs!NormalizedPrefix, Library!NormalizedPrefix
  <2>3. QED
    BY <2>1, <2>2
<1>2. QED
  BY Invariance, <1>1, PTL

\* An event in a queue is about media that have a node, or libraryCleaned
\* follows it.
THEOREM EventsMatch ==
  ASSUME Patient
  PROVE  Spec => []EventsMatchNodes
<1>1. IInv => EventsMatchNodes
  BY DEF IInv, BrowserInv
<1>2. QED
  BY Invariance, <1>1, PTL

\* When everything has settled the library, the browser and the renderer have
\* the same media, unless a damaged XML element cut a loading short.
THEOREM Settled ==
  ASSUME Patient, ~Damaged, "renderer" \in Listeners
  PROVE  Spec => []RenderersMatch
<1>1. ASSUME IInv, Quiet PROVE renderers = Ids /\ nodes = Ids
  <2>1. /\ ~Cleaning /\ queue["renderer"] = <<>> /\ Loading = {}
        /\ \A t \in Threads : pc[t] = "idle"
    BY <1>1 DEF Quiet, Cleaning, Loading
  <2>2. Announced = {}
    BY <1>1, <2>1 DEF IInv, ThreadInv, ThreadsInv, Importing, Announced
  <2>3. nodes = Ids
    BY <1>1, <2>1, <2>2 DEF IInv, BrowserInv, NodesInv
  <2>4. \A x : Due(queue["renderer"], renderers, x) <=> x \in renderers
    BY <2>1 DEF Due, Clear
  <2>5. renderers \subseteq Nat
    BY <1>1 DEF IInv, ThreadInv, TypeOK
  <2>6. renderers = nodes
    BY <1>1, <2>1, <2>4, <2>5 DEF IInv, RenderersInv
  <2>7. QED
    BY <2>3, <2>6
<1>2. IInv => RenderersMatch
  BY <1>1 DEF RenderersMatch
<1>3. QED
  BY Invariance, <1>2, PTL

\* Once everything has settled the window's progress bar is gone, but for the
\* import that left the library empty.
THEOREM BarGone ==
  ASSUME Patient
  PROVE  Spec => []ProgressBarGone
<1>1. ASSUME IInv, Quiet, loading PROVE Ids = {}
  <2>1. "window" \in Listeners
    BY <1>1 DEF IInv, WindowInv
  <2>2. gui = "idle" /\ queue["window"] = <<>> /\ \A t \in Threads : ~Busy(t)
    BY <1>1, <2>1 DEF Quiet, Busy
  <2>3. Shown(queue["window"], loading)
    BY <1>1, <2>2 DEF Shown, Kept
  <2>4. QED
    BY <1>1, <2>1, <2>2, <2>3 DEF IInv, WindowInv
<1>2. IInv => ProgressBarGone
  BY <1>1 DEF ProgressBarGone
<1>3. QED
  BY Invariance, <1>2, PTL

\* Under a user who waits for the thread and the listeners the renderer always
\* gives its mutex back, so that drawing goes on.
THEOREM MutexSafe ==
  ASSUME User = "waits"
  PROVE  Spec => []MutexReturned
<1>1. IInv => MutexReturned
  BY DEF IInv, WaitsInv, MutexReturned
<1>2. Patient
  BY DEF Patient
<1>3. QED
  BY Invariance, <1>1, <1>2, PTL

\* Under such a user media actions stay blocked as long as a thread imports.
THEOREM HoverStaysBlocked ==
  ASSUME User = "waits"
  PROVE  Spec => []HoverBlocked
<1>1. IInv => HoverBlocked
  BY DEF IInv, WaitsInv, HoverBlocked, Busy
<1>2. Patient
  BY DEF Patient
<1>3. QED
  BY Invariance, <1>1, <1>2, PTL
=============================================================================
