---------------------------- MODULE MediaLibrary ----------------------------
(***************************************************************************)
(* The media library of core/ACMediaLibrary.{h,cpp}: a map from media ids  *)
(* to media, the bookkeeping of the features' normalisation, the counters  *)
(* of the import progress and two ways media enter the map: the import of  *)
(* a file with its segments, and an XML library.  ACL and MCSL libraries,  *)
(* whose writer and reader in ACMedia.cpp do not agree on the fields of a  *)
(* medium, are left out.                                                   *)
(*                                                                         *)
(* The class has no lock and every operation is one action here; which     *)
(* thread calls which operation when is the subject of ImportPipeline.     *)
(* failed_imports, which is only ever printed, is left out.                *)
(* The build is the default one (SUPPORT_MULTIMEDIA off) with no           *)
(* pre-processing plugin set.                                              *)
(***************************************************************************)
EXTENDS Integers, FiniteSets, FiniteSetsExt, Sequences

CONSTANTS
  Files,          \* the names of files a library may be asked to import
  Unsupported,    \* those whose extension is unknown or of another media type
  MaxMedia,       \* bound: ids 0 .. MaxMedia - 1 are explored
  MaxSegments,    \* bound: segments the segmentation plugin finds in one file
  MaxCount,       \* bound: on files_to_import and files_processed
  Discardable     \* bound: ids whose media the user may discard

ASSUME FilesAssumption == Unsupported \subseteq Files
ASSUME BoundsAssumption ==
  MaxMedia \in Nat /\ MaxSegments \in Nat /\ MaxCount \in Nat

VARIABLES
  media,                  \* media_library: id -> [file, parent, segments, prep]
  mediaID,                \* id given to the newest medium, -1 at first
  index_last_normalized,  \* id, or -1
  files_to_import,
  files_processed,
  media_at_import,        \* an id, or one of the three values below
  xml,                    \* the XML library on disk
  toRead                  \* elements openNextMediaFromXMLLibrary has yet to read

countVars == <<files_to_import, files_processed, media_at_import>>
diskVars == <<xml, toRead>>
libraryVars == <<media, mediaID, index_last_normalized, files_to_import,
                 files_processed, media_at_import, xml, toRead>>

NoMedia == -1      \* the null pointer; also the parent id of a whole file
Unregistered == -2 \* a medium allocated by importFile that is in no map
Deleted == -3      \* a dangling pointer

Ids == DOMAIN media

\* What the pre-processed features of a medium hold: "unset" after
\* defaultPreProcFeatureInit, "current" when computed with the statistics the
\* library holds now, "stale" when computed with older ones.
Prep == {"unset", "stale", "current"}
\* "segments" is the length of the medium's own list of segments, which keeps a
\* segment that deleteMedia took out of the map.
Medium == [file : Files, parent : Nat \cup {NoMedia}, segments : Nat, prep : Prep]
Element == [file : Files, segments : Nat]
Empty == [i \in {} |-> {}]

Init ==
  /\ media = Empty
  /\ mediaID = -1
  /\ index_last_normalized = -1
  /\ files_to_import = 0
  /\ files_processed = 0
  /\ media_at_import = NoMedia
  /\ xml = [count |-> 0, element |-> Empty]
  /\ toRead = Empty

-----------------------------------------------------------------------------
(* Helpers.                                                                *)

\* Mutants of NextMediaID: the last id instead of the next one; the number of
\* media.
LastMediaID == IF Ids = {} THEN mediaID ELSE Max(Ids) + 1
SizeAsMediaID == Cardinality(Ids)

\* incrementMediaID: one more than the highest id of the map if it has any,
\* one more than the last id handed out otherwise.
NextMediaID == IF Ids = {} THEN mediaID + 1 ELSE Max(Ids) + 1

\* getMediaIndex(name) >= 0
IsPresent(f) == \E i \in Ids : media[i].file = f

WholeFile(f, k) == [file |-> f, parent |-> NoMedia, segments |-> k, prep |-> "unset"]
SegmentOf(f, p) == [file |-> f, parent |-> p, segments |-> 0, prep |-> "unset"]

\* Mutant of WithMedia: the parent's id is read before it is given.
WithOldParent(f, k) ==
  LET n == NextMediaID
  IN [i \in Ids \cup n..(n + k) |->
        IF i = n THEN WholeFile(f, k)
        ELSE IF i \in n..(n + k) THEN SegmentOf(f, mediaID)
        ELSE media[i]]

\* addMedia of a whole file and then of its k segments, each followed by
\* setParentId: the ids are consecutive.
WithMedia(f, k) ==
  LET n == NextMediaID
  IN [i \in Ids \cup n..(n + k) |->
        IF i = n THEN WholeFile(f, k)
        ELSE IF i \in n..(n + k) THEN SegmentOf(f, n)
        ELSE media[i]]

\* The end of importFile, reached by every file that was not skipped.
SettleCounters(processed, wanted, at) ==
  IF processed = wanted
    THEN /\ files_processed' = 0
         /\ files_to_import' = 0
         /\ media_at_import' = NoMedia
    ELSE /\ files_processed' = processed
         /\ files_to_import' = wanted
         /\ media_at_import' = at

-----------------------------------------------------------------------------
(* Operations.                                                             *)

AddNumberOfFilesToImport(n) ==
  /\ files_to_import + n <= MaxCount
  /\ files_to_import' = files_to_import + n
  /\ UNCHANGED <<media, mediaID, index_last_normalized, files_processed,
                 media_at_import, diskVars>>

\* importFile, the early returns: the file is already in the library, or its
\* type is not the library's.  They leave before the counters are settled.
ImportSkipped(f) ==
  /\ IsPresent(f) \/ f \in Unsupported
  /\ files_processed < MaxCount
  /\ files_processed' = files_processed + 1
  /\ UNCHANGED <<media, mediaID, index_last_normalized, files_to_import,
                 media_at_import, diskVars>>

\* importFile when media->import fails: nothing is counted.
ImportFailed(f) ==
  /\ ~IsPresent(f) /\ f \notin Unsupported
  /\ SettleCounters(files_processed, files_to_import, Unregistered)
  /\ UNCHANGED <<media, mediaID, index_last_normalized, diskVars>>

\* importFile when media->import succeeds; segs[i] says whether the import of
\* the i-th segment succeeds (a segment that fails is deleted).
ImportSucceeded(f, segs) ==
  LET kept == Cardinality({i \in DOMAIN segs : segs[i]})
      last == IF segs = <<>> THEN NextMediaID
              ELSE IF segs[Len(segs)] THEN NextMediaID + kept
              ELSE NoMedia
  IN /\ ~IsPresent(f) /\ f \notin Unsupported
     /\ NextMediaID + kept < MaxMedia
     /\ files_to_import + Len(segs) <= MaxCount
     /\ files_processed + Len(segs) < MaxCount
     /\ media' = WithMedia(f, kept)
     /\ mediaID' = NextMediaID + kept
     /\ SettleCounters(files_processed + Len(segs) + 1, files_to_import + Len(segs), last)
     /\ UNCHANGED <<index_last_normalized, diskVars>>

Segmentations == UNION {[1..n -> BOOLEAN] : n \in 0..MaxSegments}

ImportFile(f) ==
  \/ ImportSkipped(f)
  \/ ImportFailed(f)
  \/ \E segs \in Segmentations : ImportSucceeded(f, segs)

\* normalizeFeatures(needsNormalize).  The statistics are recomputed when asked
\* for or when nothing was normalised; the loop starts at begin() when asked
\* for, at find(index_last_normalized) otherwise, which is end() for an id that
\* is not in the map.  A medium that was imported or read has features (files are
\* only imported when a feature extraction plugin is loaded, and are saved with
\* what it found), so that isEmpty, which also looks for features in the first
\* medium, says whether there are media.
NormalizeFeatures(needsNormalize) ==
  LET recompute == needsNormalize \/ index_last_normalized < 0
      start == IF needsNormalize THEN Ids
               ELSE IF index_last_normalized \in Ids
                 THEN {i \in Ids : i >= index_last_normalized}
               ELSE {}
      After(i) == IF i \in start THEN "current"
                  ELSE IF recompute /\ media[i].prep = "current" THEN "stale"
                  ELSE media[i].prep
  IN /\ Ids # {}
     /\ media' = [i \in Ids |-> [media[i] EXCEPT !.prep = After(i)]]
     /\ index_last_normalized' = Max(Ids)
     /\ UNCHANGED <<mediaID, countVars, diskVars>>

\* Mutants of CleanLibrary: a field is not reset.
CleanKeepingMediaID ==
  /\ media' = Empty
  /\ index_last_normalized' = -1
  /\ UNCHANGED <<mediaID, countVars, diskVars>>

CleanKeepingNormalized ==
  /\ media' = Empty
  /\ mediaID' = -1
  /\ UNCHANGED <<index_last_normalized, countVars, diskVars>>

\* cleanLibrary: media_at_import keeps its value, so that it dangles when it
\* points to a medium of the map.
CleanLibrary ==
  /\ media' = Empty
  /\ mediaID' = -1
  /\ index_last_normalized' = -1
  /\ files_processed' = 0
  /\ files_to_import' = 0
  /\ media_at_import' = IF media_at_import \in Ids THEN Deleted ELSE media_at_import
  /\ UNCHANGED diskVars

\* saveXMLLibrary.  The media the user has discarded with the browser's list are
\* not counted and not written, except the segments, which are written inside the
\* element of their parent; which media are discarded is left open.
SaveXMLLibrary == \E discarded \in SUBSET (Ids \cap Discardable) :
  /\ xml' = [count |-> Cardinality(Ids \ discarded),
             element |-> [p \in {i \in Ids \ discarded : media[i].parent = NoMedia} |->
               [file |-> media[p].file, segments |-> media[p].segments]]]
  /\ UNCHANGED <<media, mediaID, index_last_normalized, countVars, toRead>>

\* openCoreXMLLibrary: the count of the file replaces files_to_import.
OpenCoreXMLLibrary ==
  /\ xml.count <= MaxCount
  /\ files_to_import' = xml.count
  /\ toRead' = xml.element
  /\ UNCHANGED <<media, mediaID, index_last_normalized, files_processed,
                 media_at_import, xml>>

\* openNextMediaFromXMLLibrary.  The elements have the type of the library, since
\* they were saved from a library of one type and readXMLConfig refuses a file of
\* another one: addMedia takes them all.
OpenNextMedia ==
  LET first == Min(DOMAIN toRead)
      e == toRead[first]
  IN /\ DOMAIN toRead # {}
     /\ NextMediaID + e.segments < MaxMedia
     /\ files_processed < MaxCount
     /\ files_processed' = files_processed + 1
     /\ media' = WithMedia(e.file, e.segments)
     /\ mediaID' = NextMediaID + e.segments
     /\ toRead' = [p \in DOMAIN toRead \ {first} |-> toRead[p]]
     /\ UNCHANGED <<index_last_normalized, files_to_import, media_at_import, xml>>

\* The same on a corrupted element: counted, then an exception ends the loop.
OpenNextMediaThrows ==
  /\ DOMAIN toRead # {}
  /\ files_processed < MaxCount
  /\ files_processed' = files_processed + 1
  /\ toRead' = Empty
  /\ UNCHANGED <<media, mediaID, index_last_normalized, files_to_import,
                 media_at_import, xml>>

\* checkForLastNormalizedId(i): a reverse_iterator made from find(i) already
\* designates the medium before i, and is incremented once more.  Where nothing
\* precedes i it leaves the map, and a red-black tree takes it back either to
\* the first medium or round to the last.
PenultimateNormalized(i) ==
  LET before == {j \in Ids : j < i}
      beforeThat == {j \in before : j < Max(before)}
  IN IF before = {} THEN {-1, Max({-1} \cup (Ids \ {i}))}
     ELSE {Max({-1} \cup beforeThat)}

\* deleteMedia(i): the medium leaves the map, its object is not freed.
DeleteMedia(i) ==
  /\ i \in Ids
  /\ index_last_normalized' \in IF i = index_last_normalized
                                  THEN PenultimateNormalized(i)
                                  ELSE {index_last_normalized}
  /\ media' = [j \in Ids \ {i} |-> media[j]]
  /\ media_at_import' = IF media_at_import = i THEN Unregistered ELSE media_at_import
  /\ UNCHANGED <<mediaID, files_to_import, files_processed, diskVars>>

-----------------------------------------------------------------------------
(* Specifications.                                                         *)

\* The calls the core makes.  NormalizeFeatures(FALSE) is called by the import
\* loop alone, once something is normalised (ImportPipeline checks that).
Next ==
  \/ \E n \in 1..MaxCount : AddNumberOfFilesToImport(n)
  \/ \E f \in Files : ImportFile(f)
  \/ NormalizeFeatures(TRUE)
  \/ index_last_normalized >= 0 /\ NormalizeFeatures(FALSE)
  \/ CleanLibrary
  \/ SaveXMLLibrary
  \/ OpenCoreXMLLibrary
  \/ OpenNextMedia
  \/ OpenNextMediaThrows

Spec == Init /\ [][Next]_libraryVars

\* With the operations that have no caller in the core: the normalisation of a
\* library from which nothing is normalised, and deletions.
ApiNext ==
  \/ Next
  \/ NormalizeFeatures(FALSE)
  \/ \E i \in Ids : DeleteMedia(i)

ApiSpec == Init /\ [][ApiNext]_libraryVars

-----------------------------------------------------------------------------
(* Properties.                                                             *)

\* Every variable holds a value its C++ declaration allows.
TypeOK ==
  /\ Ids \subseteq Nat
  /\ media \in [Ids -> Medium]
  /\ mediaID \in Nat \cup {-1}
  /\ index_last_normalized \in Nat \cup {-1}
  /\ files_to_import \in Nat
  /\ files_processed \in Nat
  /\ media_at_import \in Nat \cup {NoMedia, Unregistered, Deleted}
  /\ xml.count \in Nat
  /\ DOMAIN xml.element \subseteq Nat
  /\ xml.element \in [DOMAIN xml.element -> Element]
  /\ DOMAIN toRead \subseteq Nat
  /\ toRead \in [DOMAIN toRead -> Element]

\* As long as nothing is deleted the ids are 0 .. mediaID: the loops of
\* importXMLLibrary and readXMLConfigFileCore, which make a browser node for
\* every id between two readings of getNewestMediaId, meet media only.
IdsContiguous == Ids = 0..mediaID

\* A segment's parent is in the library, is a whole file, precedes it and has
\* the segment's file name; saveXML and the browser's clustering follow it.
ParentLinks ==
  \A i \in Ids : media[i].parent # NoMedia =>
    /\ media[i].parent \in Ids
    /\ media[i].parent < i
    /\ media[media[i].parent].parent = NoMedia
    /\ media[media[i].parent].file = media[i].file

\* index_last_normalized is the id of a medium or -1, and no medium up to it
\* is left with unset pre-processed features: incremental normalisation, which
\* starts there, skips nothing.
NormalizedPrefix ==
  /\ index_last_normalized \in Ids \cup {-1}
  /\ \A i \in Ids : i <= index_last_normalized => media[i].prep # "unset"

\* A medium that stays in the map stays the same medium, with its segments and
\* what normalisation computed for it: addMedia never hands out an id in use,
\* also when deletions left gaps between the ids.
NoOverwrite ==
  [][\A i \in Ids \cap Ids' :
       /\ media'[i].file = media[i].file
       /\ media'[i].parent = media[i].parent
       /\ media'[i].segments = media[i].segments
       /\ media[i].prep # "unset" => media'[i].prep # "unset"]_libraryVars
=============================================================================
