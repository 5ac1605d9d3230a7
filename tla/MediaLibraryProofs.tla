------------------------- MODULE MediaLibraryProofs -------------------------
(***************************************************************************)
(* Invariants of MediaLibrary for every set of files and every bound.      *)
(* IInv is their conjunction: the highest id is only defined because the   *)
(* ids are an interval, new media are normalised because the last          *)
(* normalised id is an id, and a segment's parent is a whole file because  *)
(* the ids of a file and of its segments are consecutive.  ApiInv is what  *)
(* is left of it when media can be deleted, which leaves gaps between the  *)
(* ids: enough to know that an id in use is never given again.             *)
(***************************************************************************)
EXTENDS MediaLibrary, FiniteSetTheorems, WellFoundedInduction, TLAPS

IInv == TypeOK /\ IdsContiguous /\ ParentLinks /\ NormalizedPrefix

USE DEF Ids

\* The highest element of an interval that starts at 0.
LEMMA MaxOfInterval ==
  ASSUME NEW n \in Nat
  PROVE  Max(0..n) = n
<1>1. n \in 0..n /\ \A y \in 0..n : n >= y
  OBVIOUS
<1>2. \A x \in 0..n : (\A y \in 0..n : x >= y) => x = n
  OBVIOUS
<1>3. QED
  BY <1>1, <1>2 DEF Max

\* incrementMediaID gives the id that follows the newest one.
LEMMA NextIsNewest ==
  ASSUME TypeOK, IdsContiguous
  PROVE  NextMediaID = mediaID + 1 /\ NextMediaID \in Nat
<1>1. CASE mediaID = -1
  <2>1. Ids = {}
    BY <1>1 DEF IdsContiguous
  <2>2. QED
    BY <1>1, <2>1 DEF NextMediaID
<1>2. CASE mediaID \in Nat
  <2>1. mediaID \in Ids
    BY <1>2 DEF IdsContiguous
  <2>2. Max(Ids) = mediaID
    BY <1>2, MaxOfInterval DEF IdsContiguous
  <2>3. QED
    BY <1>2, <2>1, <2>2 DEF NextMediaID
<1>3. QED
  BY <1>1, <1>2 DEF TypeOK

\* A library that is not empty has its newest medium as its last one.
LEMMA MaxIsNewest ==
  ASSUME TypeOK, IdsContiguous, Ids # {}
  PROVE  mediaID \in Nat /\ mediaID \in Ids /\ Max(Ids) = mediaID
<1>1. mediaID # -1
  <2>1. SUFFICES ASSUME mediaID = -1 PROVE Ids = {}
    OBVIOUS
  <2>2. QED
    BY <2>1 DEF IdsContiguous
<1>2. mediaID \in Nat
  BY <1>1 DEF TypeOK
<1>3. QED
  BY <1>2, MaxOfInterval DEF IdsContiguous

LEMMA InitInv == Init => IInv
<1> SUFFICES ASSUME Init PROVE IInv
  OBVIOUS
<1>1. Ids = {} /\ DOMAIN Empty = {}
  BY DEF Init, Empty
<1>2. TypeOK
  BY <1>1 DEF Init, TypeOK, Empty, NoMedia
<1>3. IdsContiguous
  BY <1>1 DEF Init, IdsContiguous
<1>4. ParentLinks /\ NormalizedPrefix
  BY <1>1 DEF Init, ParentLinks, NormalizedPrefix
<1>5. QED
  BY <1>2, <1>3, <1>4 DEF IInv

\* What adding a file and its k segments does to the four invariants.
LEMMA WithMediaInv ==
  ASSUME IInv,
         NEW f \in Files, NEW k \in Nat,
         media' = WithMedia(f, k),
         mediaID' = NextMediaID + k,
         UNCHANGED index_last_normalized
  PROVE  /\ Ids' \subseteq Nat
         /\ media' \in [Ids' -> Medium]
         /\ mediaID' \in Nat
         /\ IdsContiguous' /\ ParentLinks' /\ NormalizedPrefix'
<1>1. PICK n \in Nat : n = NextMediaID /\ n = mediaID + 1
  BY NextIsNewest DEF IInv
<1>2. Ids = 0..(n - 1)
  BY <1>1 DEF IInv, TypeOK, IdsContiguous
<1>3. Ids' = Ids \cup n..(n + k)
  BY <1>1 DEF WithMedia
<1>4. Ids' = 0..(n + k) /\ Ids \cap n..(n + k) = {}
  BY <1>1, <1>2, <1>3
<1>5. \A i \in Ids : media'[i] = media[i]
  BY <1>1, <1>3, <1>4 DEF WithMedia
<1>6. ASSUME NEW i \in n..(n + k)
      PROVE  /\ media'[i].file = f
             /\ i = n => media'[i].parent = NoMedia
             /\ i # n => media'[i].parent = n
             /\ media'[i] \in Medium
  <2>1. media'[i] = IF i = n THEN WholeFile(f, k) ELSE SegmentOf(f, n)
    BY <1>1, <1>3, <1>4 DEF WithMedia
  <2>2. CASE i = n
    BY <2>1, <2>2 DEF WholeFile, Medium, Prep
  <2>3. CASE i # n
    BY <2>1, <2>3 DEF SegmentOf, Medium, Prep
  <2>4. QED
    BY <2>2, <2>3
<1>7. Ids' \subseteq Nat /\ mediaID' \in Nat /\ IdsContiguous'
  BY <1>1, <1>4 DEF IdsContiguous
<1>8. media' \in [Ids' -> Medium]
  <2>1. media' = [i \in Ids' |-> media'[i]]
    BY DEF WithMedia
  <2>2. \A i \in Ids : media'[i] \in Medium
    BY <1>5 DEF IInv, TypeOK
  <2>3. \A i \in n..(n + k) : media'[i] \in Medium
    BY <1>6
  <2>4. QED
    BY <1>3, <2>1, <2>2, <2>3
<1>9. ParentLinks'
  <2>1. SUFFICES ASSUME NEW i \in Ids', media'[i].parent # NoMedia
                 PROVE  /\ media'[i].parent \in Ids'
                        /\ media'[i].parent < i
                        /\ media'[media'[i].parent].parent = NoMedia
                        /\ media'[media'[i].parent].file = media'[i].file
    BY DEF ParentLinks
  <2>2. CASE i \in Ids
    BY <1>3, <1>5, <2>1, <2>2 DEF IInv, ParentLinks
  <2>3. CASE i \in n..(n + k)
    <3>1. i # n /\ media'[i].parent = n /\ media'[i].file = f
      BY <1>6, <2>1, <2>3 DEF NoMedia
    <3>2. n \in n..(n + k) /\ n < i
      BY <1>1, <2>3, <3>1
    <3>3. media'[n].parent = NoMedia /\ media'[n].file = f
      BY <1>6, <3>2
    <3>4. QED
      BY <1>3, <3>1, <3>2, <3>3
  <2>4. QED
    BY <1>3, <2>2, <2>3
<1>10. NormalizedPrefix'
  <2>1. index_last_normalized' < n
    BY <1>1, <1>2 DEF IInv, NormalizedPrefix
  <2>2. index_last_normalized' \in Ids' \cup {-1}
    BY <1>3 DEF IInv, NormalizedPrefix
  <2>3. ASSUME NEW i \in Ids', i <= index_last_normalized'
        PROVE  media'[i].prep # "unset"
    <3>1. i \in Ids
      BY <1>1, <1>2, <1>4, <2>1, <2>2, <2>3
    <3>2. QED
      BY <1>5, <2>3, <3>1 DEF IInv, NormalizedPrefix
  <2>4. QED
    BY <2>2, <2>3 DEF NormalizedPrefix
<1>11. QED
  BY <1>7, <1>8, <1>9, <1>10

\* A step that leaves the map and its two indices alone keeps what is said
\* of them alone.
LEMMA MapUnchanged ==
  ASSUME IInv, UNCHANGED <<media, mediaID, index_last_normalized>>
  PROVE  IdsContiguous' /\ ParentLinks' /\ NormalizedPrefix'
BY DEF IInv, IdsContiguous, ParentLinks, NormalizedPrefix

\* The counters at the end of importFile are natural numbers.
LEMMA SettledType ==
  ASSUME NEW p \in Nat, NEW w \in Nat,
         NEW at \in Nat \cup {NoMedia, Unregistered, Deleted},
         SettleCounters(p, w, at)
  PROVE  /\ files_to_import' \in Nat
         /\ files_processed' \in Nat
         /\ media_at_import' \in Nat \cup {NoMedia, Unregistered, Deleted}
BY DEF SettleCounters

LEMMA ImportSkippedInv ==
  ASSUME IInv, NEW f \in Files, ImportSkipped(f)
  PROVE  IInv'
<1>1. TypeOK'
  BY DEF IInv, TypeOK, ImportSkipped, diskVars
<1>2. QED
  BY <1>1, MapUnchanged DEF ImportSkipped, IInv

LEMMA ImportFailedInv ==
  ASSUME IInv, NEW f \in Files, ImportFailed(f)
  PROVE  IInv'
<1>1. /\ files_to_import' \in Nat
      /\ files_processed' \in Nat
      /\ media_at_import' \in Nat \cup {NoMedia, Unregistered, Deleted}
  BY SettledType DEF ImportFailed, IInv, TypeOK
<1>2. TypeOK'
  BY <1>1 DEF IInv, TypeOK, ImportFailed, diskVars
<1>3. QED
  BY <1>2, MapUnchanged DEF ImportFailed, IInv

LEMMA ImportSucceededInv ==
  ASSUME IInv, NEW f \in Files, NEW segs \in Segmentations, ImportSucceeded(f, segs)
  PROVE  IInv'
<1>1. PICK n \in Nat : segs \in [1..n -> BOOLEAN]
  BY BoundsAssumption DEF Segmentations
<1>2. Len(segs) = n /\ DOMAIN segs = 1..n
  BY <1>1
<1>3. PICK kept \in Nat : kept = Cardinality({i \in DOMAIN segs : segs[i]})
  <2>1. IsFiniteSet(1..n)
    BY <1>1, FS_Interval
  <2>2. IsFiniteSet({i \in 1..n : segs[i]})
    BY <2>1, FS_Subset
  <2>3. QED
    BY <1>2, <2>2, FS_CardinalityType
<1>4. NextMediaID \in Nat
  BY NextIsNewest DEF IInv
<1>5. PICK at \in Nat \cup {NoMedia, Unregistered, Deleted} :
        SettleCounters(files_processed + n + 1, files_to_import + n, at)
  <2> DEFINE last == IF segs = <<>> THEN NextMediaID
                     ELSE IF segs[Len(segs)] THEN NextMediaID + kept
                     ELSE NoMedia
  <2>1. NextMediaID + kept \in Nat
    BY <1>4
  <2>2. last \in Nat \cup {NoMedia, Unregistered, Deleted}
    BY <1>4, <2>1
  <2>3. SettleCounters(files_processed + n + 1, files_to_import + n, last)
    BY <1>2, <1>3 DEF ImportSucceeded
  <2>4. QED
    BY <2>2, <2>3
<1>6. files_processed + n + 1 \in Nat /\ files_to_import + n \in Nat
  BY DEF IInv, TypeOK
<1>7. /\ files_to_import' \in Nat
      /\ files_processed' \in Nat
      /\ media_at_import' \in Nat \cup {NoMedia, Unregistered, Deleted}
  BY <1>5, <1>6, SettledType
<1>8. /\ media' = WithMedia(f, kept)
      /\ mediaID' = NextMediaID + kept
      /\ UNCHANGED <<index_last_normalized, diskVars>>
  BY <1>3 DEF ImportSucceeded
<1>9. /\ Ids' \subseteq Nat /\ media' \in [Ids' -> Medium] /\ mediaID' \in Nat
      /\ IdsContiguous' /\ ParentLinks' /\ NormalizedPrefix'
  BY <1>8, WithMediaInv
<1>10. TypeOK'
  BY <1>7, <1>8, <1>9 DEF IInv, TypeOK, diskVars
<1>11. QED
  BY <1>9, <1>10 DEF IInv

LEMMA OpenNextMediaInv ==
  ASSUME IInv, OpenNextMedia
  PROVE  IInv'
<1> DEFINE first == Min(DOMAIN toRead)
           e == toRead[first]
<1>1. first \in DOMAIN toRead
  <2>1. DOMAIN toRead # {} /\ DOMAIN toRead \subseteq Nat
    BY DEF OpenNextMedia, IInv, TypeOK
  <2>2. \E x \in DOMAIN toRead : \A y \in DOMAIN toRead : x <= y
    <3>1. \E x \in DOMAIN toRead : \A y \in DOMAIN toRead :
            <<y, x>> \notin OpToRel(<, Nat)
      BY <2>1, NatLessThanWellFounded, WFMin
    <3>2. \A x, y \in Nat : <<y, x>> \notin OpToRel(<, Nat) => x <= y
      BY DEF OpToRel
    <3>3. QED
      BY <2>1, <3>1, <3>2
  <2>3. QED
    BY <2>2 DEF Min
<1>2. e \in Element
  BY <1>1 DEF IInv, TypeOK
<1>3. e.file \in Files /\ e.segments \in Nat
  BY <1>2 DEF Element
<1>4. /\ media' = WithMedia(e.file, e.segments)
      /\ mediaID' = NextMediaID + e.segments
      /\ files_processed' = files_processed + 1
      /\ toRead' = [p \in DOMAIN toRead \ {first} |-> toRead[p]]
      /\ UNCHANGED <<index_last_normalized, files_to_import, media_at_import, xml>>
  BY DEF OpenNextMedia
<1>5. /\ Ids' \subseteq Nat /\ media' \in [Ids' -> Medium] /\ mediaID' \in Nat
      /\ IdsContiguous' /\ ParentLinks' /\ NormalizedPrefix'
  BY <1>3, <1>4, WithMediaInv
<1>6. DOMAIN toRead' \subseteq Nat /\ toRead' \in [DOMAIN toRead' -> Element]
  BY <1>4 DEF IInv, TypeOK
<1>7. TypeOK'
  BY <1>4, <1>5, <1>6 DEF IInv, TypeOK
<1>8. QED
  BY <1>5, <1>7 DEF IInv

LEMMA NormalizeInv ==
  ASSUME IInv, NEW needs \in BOOLEAN, NormalizeFeatures(needs),
         needs \/ index_last_normalized >= 0
  PROVE  IInv'
<1>1. /\ Ids' = Ids
      /\ \A i \in Ids : media'[i].file = media[i].file /\ media'[i].parent = media[i].parent
  BY DEF NormalizeFeatures, IInv, TypeOK, Medium
<1>2. mediaID \in Ids /\ mediaID \in Nat /\ index_last_normalized' = mediaID
  BY MaxIsNewest DEF NormalizeFeatures, IInv
<1>3. UNCHANGED <<mediaID, countVars, diskVars>>
  BY DEF NormalizeFeatures
<1>4. \A i \in Ids : media'[i] \in Medium
  BY DEF NormalizeFeatures, IInv, TypeOK, Medium, Prep
<1>5. media' = [i \in Ids' |-> media'[i]]
  BY DEF NormalizeFeatures
<1>6. TypeOK'
  BY <1>1, <1>2, <1>3, <1>4, <1>5 DEF IInv, TypeOK, countVars, diskVars
<1>7. IdsContiguous' /\ ParentLinks'
  BY <1>1, <1>3 DEF IInv, IdsContiguous, ParentLinks
<1>8. \A i \in Ids : media'[i].prep # "unset"
  <2>1. SUFFICES ASSUME NEW i \in Ids PROVE media'[i].prep # "unset"
    OBVIOUS
  <2>2. i \in Nat /\ media[i] \in Medium
    BY DEF IInv, TypeOK
  <2>3. CASE needs
    BY <2>3, <2>2 DEF NormalizeFeatures, Medium
  <2>4. CASE ~needs
    <3>1. index_last_normalized \in Ids /\ index_last_normalized \in Nat
      BY <2>4 DEF IInv, TypeOK, NormalizedPrefix
    <3>2. CASE i >= index_last_normalized
      BY <2>2, <2>4, <3>1, <3>2 DEF NormalizeFeatures, Medium
    <3>3. CASE i < index_last_normalized
      <4>1. media[i].prep # "unset"
        BY <2>2, <3>1, <3>3 DEF IInv, NormalizedPrefix
      <4>2. QED
        BY <2>2, <2>4, <3>1, <3>3, <4>1 DEF NormalizeFeatures, Medium
    <3>4. QED
      BY <2>2, <3>1, <3>2, <3>3
  <2>5. QED
    BY <2>3, <2>4
<1>9. NormalizedPrefix'
  BY <1>1, <1>2, <1>8 DEF NormalizedPrefix
<1>10. QED
  BY <1>6, <1>7, <1>9 DEF IInv

LEMMA CleanInv ==
  ASSUME IInv, CleanLibrary
  PROVE  IInv'
<1>1. Ids' = {} /\ media' = Empty /\ mediaID' = -1 /\ index_last_normalized' = -1
  BY DEF CleanLibrary, Empty
<1>2. media_at_import' \in Nat \cup {NoMedia, Unregistered, Deleted}
  BY DEF CleanLibrary, IInv, TypeOK
<1>3. TypeOK'
  BY <1>1, <1>2 DEF CleanLibrary, IInv, TypeOK, Empty, diskVars
<1>4. IdsContiguous' /\ ParentLinks' /\ NormalizedPrefix'
  BY <1>1 DEF IdsContiguous, ParentLinks, NormalizedPrefix
<1>5. QED
  BY <1>3, <1>4 DEF IInv

LEMMA SaveXMLInv ==
  ASSUME IInv, SaveXMLLibrary
  PROVE  IInv'
<1>1. PICK discarded \in SUBSET (Ids \cap Discardable) :
        xml' = [count |-> Cardinality(Ids \ discarded),
                element |-> [p \in {i \in Ids \ discarded : media[i].parent = NoMedia} |->
                  [file |-> media[p].file, segments |-> media[p].segments]]]
  BY ZenonT(30) DEF SaveXMLLibrary
<1>2. UNCHANGED <<media, mediaID, index_last_normalized, countVars, toRead>>
  BY DEF SaveXMLLibrary
<1>3. xml'.count \in Nat
  <2>1. mediaID \in Int /\ Ids = 0..mediaID
    BY DEF IInv, TypeOK, IdsContiguous
  <2>2. IsFiniteSet(Ids)
    BY <2>1, FS_Interval
  <2>3. IsFiniteSet(Ids \ discarded)
    BY <2>2, FS_Subset
  <2>4. QED
    BY <1>1, <2>3, FS_CardinalityType
<1> DEFINE saved == {i \in Ids \ discarded : media[i].parent = NoMedia}
<1>4. DOMAIN xml'.element = saved /\ saved \subseteq Nat
  BY <1>1 DEF IInv, TypeOK
<1>5. \A p \in saved : media[p].file \in Files /\ media[p].segments \in Nat
  BY DEF IInv, TypeOK, Medium
<1>6. xml'.element \in [saved -> Element]
  BY <1>1, <1>5 DEF Element
<1>7. TypeOK'
  BY <1>2, <1>3, <1>4, <1>6 DEF IInv, TypeOK, countVars
<1>8. QED
  BY <1>2, <1>7, MapUnchanged DEF IInv

\* Every call the core makes preserves the invariant.
LEMMA StepInv == IInv /\ [Next]_libraryVars => IInv'
<1> SUFFICES ASSUME IInv, [Next]_libraryVars PROVE IInv'
  OBVIOUS
<1>1. ASSUME NEW n \in 1..MaxCount, AddNumberOfFilesToImport(n) PROVE IInv'
  <2>1. TypeOK'
    BY <1>1, BoundsAssumption DEF AddNumberOfFilesToImport, IInv, TypeOK, diskVars
  <2>2. QED
    BY <1>1, <2>1, MapUnchanged DEF AddNumberOfFilesToImport, IInv
<1>2. ASSUME NEW f \in Files, ImportFile(f) PROVE IInv'
  BY <1>2, ImportSkippedInv, ImportFailedInv, ImportSucceededInv DEF ImportFile
<1>3. CASE NormalizeFeatures(TRUE)
  BY <1>3, NormalizeInv
<1>4. CASE index_last_normalized >= 0 /\ NormalizeFeatures(FALSE)
  BY <1>4, NormalizeInv
<1>5. CASE CleanLibrary
  BY <1>5, CleanInv
<1>6. CASE SaveXMLLibrary
  BY <1>6, SaveXMLInv
<1>7. CASE OpenCoreXMLLibrary
  <2>1. TypeOK'
    BY <1>7 DEF OpenCoreXMLLibrary, IInv, TypeOK
  <2>2. QED
    BY <1>7, <2>1, MapUnchanged DEF OpenCoreXMLLibrary, IInv
<1>8. CASE OpenNextMedia
  BY <1>8, OpenNextMediaInv
<1>9. CASE OpenNextMediaThrows
  <2>1. TypeOK'
    BY <1>9 DEF OpenNextMediaThrows, IInv, TypeOK, Empty
  <2>2. QED
    BY <1>9, <2>1, MapUnchanged DEF OpenNextMediaThrows, IInv
<1>10. CASE UNCHANGED libraryVars
  <2>1. TypeOK'
    BY <1>10 DEF libraryVars, IInv, TypeOK
  <2>2. QED
    BY <1>10, <2>1, MapUnchanged DEF libraryVars, IInv
<1>11. QED
  BY <1>1, <1>2, <1>3, <1>4, <1>5, <1>6, <1>7, <1>8, <1>9, <1>10 DEF Next

LEMMA Invariance == Spec => []IInv
<1>1. Init => IInv
  BY InitInv
<1>2. IInv /\ [Next]_libraryVars => IInv'
  BY StepInv
<1>3. QED
  BY <1>1, <1>2, PTL DEF Spec

\* The variables of the library keep their types.
THEOREM Typing == Spec => []TypeOK
<1>1. IInv => TypeOK
  BY DEF IInv
<1>2. QED
  BY <1>1, Invariance, PTL

\* The ids in use are always 0 .. mediaID.
THEOREM Contiguity == Spec => []IdsContiguous
<1>1. IInv => IdsContiguous
  BY DEF IInv
<1>2. QED
  BY <1>1, Invariance, PTL

\* Every segment hangs from a whole file of the library, its own.
THEOREM Parenthood == Spec => []ParentLinks
<1>1. IInv => ParentLinks
  BY DEF IInv
<1>2. QED
  BY <1>1, Invariance, PTL

\* Nothing up to the last normalised medium is left without normalisation.
THEOREM Normalization == Spec => []NormalizedPrefix
<1>1. IInv => NormalizedPrefix
  BY DEF IInv
<1>2. QED
  BY <1>1, Invariance, PTL

-----------------------------------------------------------------------------
(* With every public operation.                                            *)

\* What is left of the invariant when media can be deleted: the ids are bounded,
\* so that there is a highest one, a medium is what its fields are, and what is on
\* disk can be counted.
MapInv ==
  /\ Ids \subseteq 0..(MaxMedia - 1)
  /\ mediaID \in Nat \cup {-1}
  /\ \A i \in Ids :
       /\ media[i].segments \in Nat
       /\ media[i] = [file |-> media[i].file, parent |-> media[i].parent,
                      segments |-> media[i].segments, prep |-> media[i].prep]

Readable(elements) ==
  DOMAIN elements \subseteq Nat /\ \A p \in DOMAIN elements : elements[p].segments \in Nat

ApiInv == MapInv /\ Readable(xml.element) /\ Readable(toRead)

\* Of numbers that are bounded one is the highest, of any numbers one the lowest.
LEMMA Lowest ==
  ASSUME NEW S \in SUBSET Nat, S # {}
  PROVE  \E x \in S : \A y \in S : x <= y
<1>1. \E x \in S : \A y \in S : <<y, x>> \notin OpToRel(<, Nat)
  BY NatLessThanWellFounded, WFMin
<1>2. \A x, y \in Nat : <<y, x>> \notin OpToRel(<, Nat) => x <= y
  BY DEF OpToRel
<1>3. QED
  BY <1>1, <1>2

LEMMA Highest ==
  ASSUME NEW n \in Nat, NEW S \in SUBSET 0..n, S # {}
  PROVE  Max(S) \in S /\ \A y \in S : y <= Max(S)
<1> DEFINE bounds == {b \in Nat : \A y \in S : y <= b}
<1>1. n \in bounds
  OBVIOUS
<1>2. PICK b \in bounds : \A c \in bounds : b <= c
  <2>1. bounds \in SUBSET Nat /\ bounds # {}
    BY <1>1
  <2> HIDE DEF bounds
  <2>2. QED
    BY <2>1, Lowest
<1>3. b \in S
  <2>1. SUFFICES ASSUME b \notin S PROVE FALSE
    OBVIOUS
  <2>2. \A y \in S : y <= b - 1
    BY <2>1
  <2>3. b # 0
    <3>1. PICK y \in S : y <= b - 1
      BY <2>2
    <3>2. y \in Nat
      OBVIOUS
    <3>3. QED
      BY <3>1, <3>2
  <2>4. b - 1 \in bounds
    BY <2>2, <2>3
  <2>5. QED
    BY <1>2, <2>4
<1>4. b \in S /\ \A y \in S : b >= y
  BY <1>3
<1>5. \A x \in S : (\A y \in S : x >= y) => x = b
  BY <1>4
<1>6. QED
  BY <1>4, <1>5 DEF Max

\* No id in use is as high as the next one.
LEMMA NextIsNew ==
  ASSUME ApiInv
  PROVE  NextMediaID \in Nat /\ \A i \in Ids : i < NextMediaID
<1>1. CASE Ids = {}
  BY <1>1 DEF ApiInv, MapInv, NextMediaID
<1>2. CASE Ids # {}
  <2>1. MaxMedia - 1 \in Nat /\ Ids \in SUBSET 0..(MaxMedia - 1)
    BY <1>2, BoundsAssumption DEF ApiInv, MapInv
  <2>2. Max(Ids) \in Ids /\ \A i \in Ids : i <= Max(Ids)
    BY <1>2, <2>1, Highest
  <2>3. QED
    BY <1>2, <2>1, <2>2 DEF NextMediaID
<1>3. QED
  BY <1>1, <1>2

\* What NoOverwrite says of a step.
Kept == \A i \in Ids \cap Ids' :
  /\ media'[i].file = media[i].file
  /\ media'[i].parent = media[i].parent
  /\ media'[i].segments = media[i].segments
  /\ media[i].prep # "unset" => media'[i].prep # "unset"

\* Adding a file and its segments touches no medium that is there.
LEMMA WithMediaKept ==
  ASSUME ApiInv, NEW f, NEW k \in Nat, NextMediaID + k < MaxMedia,
         media' = WithMedia(f, k), mediaID' = NextMediaID + k
  PROVE  MapInv' /\ Kept
<1> DEFINE n == NextMediaID
<1>1. n \in Nat /\ n + k \in Nat /\ n + k <= MaxMedia - 1 /\ Ids \cap n..(n + k) = {}
  BY NextIsNew, BoundsAssumption DEF ApiInv, MapInv
<1> HIDE DEF n
<1>2. Ids' = Ids \cup n..(n + k)
  BY DEF WithMedia, n
<1>3. \A i \in Ids : media'[i] = media[i]
  BY <1>1, <1>2 DEF WithMedia, n
<1>4. \A i \in n..(n + k) : media'[i] = IF i = n THEN WholeFile(f, k) ELSE SegmentOf(f, n)
  BY <1>1, <1>2 DEF WithMedia, n
<1>5. ASSUME NEW i \in Ids'
      PROVE  /\ media'[i].segments \in Nat
             /\ media'[i] = [file |-> media'[i].file, parent |-> media'[i].parent,
                             segments |-> media'[i].segments, prep |-> media'[i].prep]
  <2>1. CASE i \in Ids
    BY <1>3, <2>1 DEF ApiInv, MapInv
  <2>2. CASE i \in n..(n + k)
    BY <1>4, <2>2 DEF WholeFile, SegmentOf
  <2>3. QED
    BY <1>2, <2>1, <2>2
<1>6. Ids' \subseteq 0..(MaxMedia - 1)
  BY <1>1, <1>2, BoundsAssumption DEF ApiInv, MapInv
<1>7. mediaID' \in Nat
  BY <1>1 DEF n
<1>8. QED
  BY <1>3, <1>5, <1>6, <1>7 DEF MapInv, Kept

\* A file that is imported, with its segments.
LEMMA ImportKept ==
  ASSUME ApiInv, NEW f, NEW segs \in Segmentations, ImportSucceeded(f, segs)
  PROVE  MapInv' /\ Kept
<1>1. PICK n \in Nat : segs \in [1..n -> BOOLEAN]
  BY BoundsAssumption DEF Segmentations
<1> DEFINE kept == Cardinality({i \in DOMAIN segs : segs[i]})
<1>2. kept \in Nat
  <2>1. IsFiniteSet(1..n) /\ DOMAIN segs = 1..n
    BY <1>1, FS_Interval
  <2>2. IsFiniteSet({i \in DOMAIN segs : segs[i]})
    BY <2>1, FS_Subset
  <2>3. QED
    BY <2>2, FS_CardinalityType
<1>3. NextMediaID + kept < MaxMedia /\ media' = WithMedia(f, kept) /\ mediaID' = NextMediaID + kept
  BY DEF ImportSucceeded
<1> HIDE DEF kept
<1>4. QED
  BY <1>2, <1>3, WithMediaKept

\* An element that is read from an XML library.
LEMMA ReadKept ==
  ASSUME ApiInv, OpenNextMedia
  PROVE  MapInv' /\ Kept /\ Readable(toRead')
<1> DEFINE first == Min(DOMAIN toRead)
<1>1. first \in DOMAIN toRead
  <2>1. DOMAIN toRead # {} /\ DOMAIN toRead \in SUBSET Nat
    BY DEF OpenNextMedia, ApiInv, MapInv, Readable
  <2>2. \E x \in DOMAIN toRead : \A y \in DOMAIN toRead : x <= y
    BY <2>1, Lowest
  <2>3. QED
    BY <2>2 DEF Min
<1>2. /\ NextMediaID + toRead[first].segments < MaxMedia
      /\ media' = WithMedia(toRead[first].file, toRead[first].segments)
      /\ mediaID' = NextMediaID + toRead[first].segments
      /\ toRead' = [p \in DOMAIN toRead \ {first} |-> toRead[p]]
  BY DEF OpenNextMedia
<1>3. toRead[first].segments \in Nat
  BY <1>1 DEF ApiInv, MapInv, Readable
<1> HIDE DEF first
<1>4. MapInv' /\ Kept
  BY <1>2, <1>3, WithMediaKept
<1>5. Readable(toRead')
  BY <1>2 DEF ApiInv, MapInv, Readable
<1>6. QED
  BY <1>4, <1>5

\* What a save writes can be read again.
LEMMA SaveReadable ==
  ASSUME ApiInv, SaveXMLLibrary
  PROVE  Readable(xml'.element)
<1>1. PICK discarded \in SUBSET (Ids \cap Discardable) :
        xml'.element = [p \in {i \in Ids \ discarded : media[i].parent = NoMedia} |->
                         [file |-> media[p].file, segments |-> media[p].segments]]
  BY DEF SaveXMLLibrary
<1>2. QED
  BY <1>1 DEF Readable, ApiInv, MapInv

\* Every public operation keeps what is said, and every medium that stays.
LEMMA ApiStep ==
  ASSUME ApiInv, [ApiNext]_libraryVars
  PROVE  ApiInv' /\ Kept
<1>1. ASSUME UNCHANGED <<media, mediaID>>
      PROVE  MapInv' /\ Kept
  BY <1>1 DEF ApiInv, MapInv, Kept
<1>2. ASSUME Ids' = Ids, UNCHANGED mediaID, NEW after,
             media' = [i \in Ids |-> [media[i] EXCEPT !.prep = after[i]]],
             \A i \in Ids : media[i].prep # "unset" => after[i] # "unset"
      PROVE  MapInv' /\ Kept
  <2>1. ASSUME NEW i \in Ids
        PROVE  /\ media[i].segments \in Nat
               /\ media'[i] = [file |-> media[i].file, parent |-> media[i].parent,
                               segments |-> media[i].segments, prep |-> after[i]]
    <3>1. /\ media[i].segments \in Nat
          /\ media[i] = [file |-> media[i].file, parent |-> media[i].parent,
                         segments |-> media[i].segments, prep |-> media[i].prep]
      BY DEF ApiInv, MapInv
    <3>2. media'[i] = [media[i] EXCEPT !.prep = after[i]]
      BY <1>2
    <3>3. QED
      BY <3>1, <3>2
  <2>2. QED
    BY <1>2, <2>1 DEF ApiInv, MapInv, Kept
<1>3. MapInv' /\ Readable(xml'.element) /\ Readable(toRead') => ApiInv'
  BY DEF MapInv, ApiInv
<1>4. ASSUME UNCHANGED diskVars
      PROVE  Readable(xml'.element) /\ Readable(toRead')
  BY <1>4 DEF ApiInv, diskVars
<1>5. CASE \E n \in 1..MaxCount : AddNumberOfFilesToImport(n)
  BY <1>1, <1>3, <1>4, <1>5 DEF AddNumberOfFilesToImport
<1>6. ASSUME NEW f \in Files, ImportFile(f)
      PROVE  ApiInv' /\ Kept
  <2>1. CASE ImportSkipped(f) \/ ImportFailed(f)
    BY <1>1, <1>3, <1>4, <2>1 DEF ImportSkipped, ImportFailed
  <2>2. ASSUME NEW segs \in Segmentations, ImportSucceeded(f, segs)
        PROVE  ApiInv' /\ Kept
    <3>1. UNCHANGED diskVars
      BY <2>2 DEF ImportSucceeded
    <3>2. QED
      BY <1>3, <1>4, <2>2, <3>1, ImportKept
  <2>3. QED
    BY <1>6, <2>1, <2>2 DEF ImportFile
<1>7. ASSUME NEW needs \in BOOLEAN, NormalizeFeatures(needs)
      PROVE  ApiInv' /\ Kept
  <2> DEFINE recompute == needs \/ index_last_normalized < 0
             start == IF needs THEN Ids
                      ELSE IF index_last_normalized \in Ids THEN {i \in Ids : i >= index_last_normalized}
                      ELSE {}
             after == [i \in Ids |-> IF i \in start THEN "current"
                                    ELSE IF recompute /\ media[i].prep = "current" THEN "stale"
                                    ELSE media[i].prep]
  <2>1. media' = [i \in Ids |-> [media[i] EXCEPT !.prep = after[i]]] /\ UNCHANGED <<mediaID, diskVars>>
    BY <1>7 DEF NormalizeFeatures
  <2>2. \A i \in Ids : media[i].prep # "unset" => after[i] # "unset"
    OBVIOUS
  <2> HIDE DEF after
  <2>3. Ids' = Ids
    BY <2>1
  <2>4. QED
    BY <1>2, <1>3, <1>4, <2>1, <2>2, <2>3
<1>8. CASE CleanLibrary
  <2>1. Ids' = {} /\ mediaID' = -1 /\ UNCHANGED diskVars
    BY <1>8 DEF CleanLibrary, Empty
  <2>2. QED
    BY <1>3, <1>4, <2>1 DEF MapInv, Kept
<1>9. CASE SaveXMLLibrary
  <2>1. UNCHANGED <<media, mediaID, toRead>>
    BY <1>9 DEF SaveXMLLibrary
  <2>2. QED
    BY <1>1, <1>3, <1>9, <2>1, SaveReadable DEF ApiInv, MapInv
<1>10. CASE OpenCoreXMLLibrary
  BY <1>1, <1>3, <1>10 DEF OpenCoreXMLLibrary, ApiInv, MapInv
<1>11. CASE OpenNextMedia
  <2>1. UNCHANGED xml
    BY <1>11 DEF OpenNextMedia
  <2>2. QED
    BY <1>3, <1>11, <2>1, ReadKept DEF ApiInv, MapInv
<1>12. CASE OpenNextMediaThrows
  BY <1>1, <1>3, <1>12 DEF OpenNextMediaThrows, ApiInv, MapInv, Readable, Empty
<1>13. ASSUME NEW i \in Ids, DeleteMedia(i)
       PROVE  ApiInv' /\ Kept
  <2>1. media' = [j \in Ids \ {i} |-> media[j]] /\ UNCHANGED <<mediaID, diskVars>>
    BY <1>13 DEF DeleteMedia
  <2>2. MapInv' /\ Kept
    BY <2>1 DEF ApiInv, MapInv, Kept
  <2>3. QED
    BY <1>3, <1>4, <2>1, <2>2
<1>14. CASE UNCHANGED libraryVars
  BY <1>1, <1>3, <1>4, <1>14 DEF libraryVars, diskVars
<1>15. QED
  BY <1>5, <1>6, <1>7, <1>8, <1>9, <1>10, <1>11, <1>12, <1>13, <1>14
  DEF ApiNext, Next

\* Whichever public operations are called, and in whatever order, a medium that
\* stays in the map stays the same medium, deletions or not: incrementMediaID
\* counts from the highest id of the map, not from how many there are.
THEOREM Preservation == ApiSpec => NoOverwrite
<1>1. Init => ApiInv
  BY BoundsAssumption DEF Init, ApiInv, MapInv, Readable, Empty
<1>2. ApiInv /\ [ApiNext]_libraryVars => ApiInv'
  BY ApiStep
<1>3. ApiInv /\ [ApiNext]_libraryVars => [Kept]_libraryVars
  BY ApiStep
<1> HIDE DEF Ids
<1>4. ApiSpec => [][Kept]_libraryVars
  BY <1>1, <1>2, <1>3, PTL DEF ApiSpec
<1>5. Kept => \A i \in Ids \cap Ids' :
                /\ media'[i].file = media[i].file
                /\ media'[i].parent = media[i].parent
                /\ media'[i].segments = media[i].segments
                /\ media[i].prep # "unset" => media'[i].prep # "unset"
  BY DEF Kept
<1>6. QED
  BY <1>4, <1>5, PTL DEF NoOverwrite
=============================================================================
