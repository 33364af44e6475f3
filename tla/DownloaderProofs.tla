--------------------------- MODULE DownloaderProofs ---------------------------
(***************************************************************************)
(* Theorems about Downloader, for any notices and attachments, any         *)
(* contents of archives and any number of failures and crashes.            *)
(***************************************************************************)
EXTENDS Downloader, Functions, FiniteSetTheorems, TLAPS

-------------------------------------------------------------------------------
(* Numbers of attachments and members.                                      *)

LEMMA Numbers ==
    ASSUME NEW S, IsFiniteSet(S), S \subseteq Nat
    PROVE  /\ \A i \in S : Number(S, i) \in 1 .. Cardinality(S)
           /\ \A i, j \in S : Number(S, i) = Number(S, j) => i = j
  <1> DEFINE Upto(i) == {k \in S : k <= i}
  <1>1. \A i \in S : IsFiniteSet(Upto(i)) /\ Cardinality(Upto(i)) <= Cardinality(S)
    BY FS_Subset
  <1>2. \A i \in S : i \in Upto(i)
    OBVIOUS
  <1>3. \A i \in S : Cardinality(Upto(i)) \in Nat /\ Cardinality(Upto(i)) # 0
    <2> TAKE i \in S
    <2>1. IsFiniteSet(Upto(i)) /\ Upto(i) # {}
      BY <1>1, <1>2
    <2> HIDE DEF Upto
    <2> QED BY <2>1, FS_CardinalityType, FS_EmptySet
  <1>4. Cardinality(S) \in Nat
    BY FS_CardinalityType
  <1>5. ASSUME NEW i \in S, NEW j \in S, i < j
        PROVE  Cardinality(Upto(i)) # Cardinality(Upto(j))
    <2>1. i \in Nat /\ j \in Nat /\ \A k \in S : k \in Nat
      OBVIOUS
    <2>2. (\A k \in S : k <= i => k <= j) /\ j <= j /\ ~(j <= i)
      BY <1>5, <2>1
    <2>3. Upto(i) \subseteq Upto(j) /\ j \in Upto(j) /\ j \notin Upto(i)
      BY <2>2
    <2>4. Upto(i) # Upto(j) /\ IsFiniteSet(Upto(j))
      BY <2>3, <1>1
    <2> HIDE DEF Upto
    <2> QED BY <2>3, <2>4, FS_Subset
  <1>6. \A i, j \in S : i # j => i < j \/ j < i
    OBVIOUS
  <1>7. \A i : Number(S, i) = Cardinality(Upto(i))
    BY DEF Number
  <1> HIDE DEF Upto
  <1> QED BY <1>1, <1>3, <1>4, <1>5, <1>6, <1>7

LEMMA Counted ==
    ASSUME NEW a \in Contents, NEW n \in Notices
    PROVE  /\ DOMAIN a[n] = 1 .. Len(a[n]) /\ Len(a[n]) \in Nat
           /\ IsFiniteSet(DOMAIN a[n])
           /\ IsFiniteSet(ApplyDedup(a[n])) /\ ApplyDedup(a[n]) \subseteq Nat \ {0}
           /\ ApplyDedup(a[n]) \subseteq DOMAIN a[n]
  <1>1. a[n] \in Seq({a[n][i] : i \in DOMAIN a[n]})
    BY NoticesAssumption
  <1>2. DOMAIN a[n] = 1 .. Len(a[n]) /\ Len(a[n]) \in Nat
    BY <1>1
  <1>3. IsFiniteSet(DOMAIN a[n])
    BY <1>2, FS_Interval
  <1>4. ApplyDedup(a[n]) \subseteq DOMAIN a[n]
    BY DEF ApplyDedup
  <1> QED BY <1>2, <1>3, <1>4, FS_Subset

LEMMA Unpacked ==
    ASSUME NEW a \in Contents, NEW n \in Notices, NEW i \in DOMAIN a[n], a[n][i].url # NoUrl
    PROVE  LET f == a[n][i]
               members == Payload[f.url].members
           IN  /\ IsFiniteSet(ArchiveMembers(f)) /\ ArchiveMembers(f) \subseteq Nat
               /\ \A m \in ArchiveMembers(f) : members[m].ext \in Supported
  <1> DEFINE f == a[n][i]
             members == Payload[f.url].members
  <1>1. members \in Seq({members[m] : m \in DOMAIN members})
    BY NoticesAssumption
  <1> HIDE DEF f
  <1>2. DOMAIN members = 1 .. Len(members) /\ Len(members) \in Nat
    BY <1>1
  <1>3. IsFiniteSet(DOMAIN members)
    BY <1>2, FS_Interval
  <1>4. ArchiveMembers(f) \subseteq Fit(members)
    BY DEF ArchiveMembers, SelectZipMembers
  <1>5. Fit(members) \subseteq DOMAIN members
    BY DEF Fit
  <1>6. \A m \in Fit(members) : members[m].ext \in Supported
    BY DEF Fit, IsDocument
  <1>7. IsFiniteSet(ArchiveMembers(f)) /\ ArchiveMembers(f) \subseteq Nat
    BY <1>2, <1>3, <1>4, <1>5, FS_Subset
  <1> QED BY <1>4, <1>6, <1>7 DEF f

-------------------------------------------------------------------------------
(* Keys.                                                                    *)

\* The kind of what the URL of an attachment delivers.
Kind(n, i) == PayloadKind(File(n, i))

LEMMA Kinds ==
    ASSUME NEW n, NEW i
    PROVE  Kind(n, i) \in {"drm", "zip", "plain"}
  BY DEF Kind, PayloadKind

LEMMA OwnKeys ==
    ASSUME attachments \in Contents,
           NEW n \in Notices, NEW i \in ApplyDedup(attachments[n]),
           NEW m \in Notices, NEW j \in ApplyDedup(attachments[m]),
           OwnKey(n, i)[1] = OwnKey(m, j)[1], OwnKey(n, i)[2] = OwnKey(m, j)[2]
    PROVE  n = m /\ i = j
  <1>1. n = m /\ DocNo(attachments[n], i) = DocNo(attachments[m], j)
    BY DEF OwnKey, Key
  <1>2. IsFiniteSet(ApplyDedup(attachments[n])) /\ ApplyDedup(attachments[n]) \subseteq Nat
    BY Counted
  <1>3. Number(ApplyDedup(attachments[n]), i) = Number(ApplyDedup(attachments[n]), j)
    BY <1>1 DEF DocNo
  <1> QED BY <1>1, <1>2, <1>3, Numbers

LEMMA ZipKey ==
    ASSUME attachments \in Contents,
           NEW n \in Notices, NEW i \in ApplyDedup(attachments[n]), Kind(n, i) = "zip"
    PROVE  /\ OwnKey(n, i) = Key(n, DocNo(attachments[n], i), 0, "zip")
           /\ OwnKey(n, i)[4] \notin Supported
  <1>1. i \in DOMAIN attachments[n]
    BY Counted
  <1>2. File(n, i).ext = "zip"
    BY DEF Kind, PayloadKind
  <1>3. File(n, i).dotted
    BY <1>1, <1>2, NoticesAssumption DEF File
  <1>4. KeyExt(File(n, i)) = "zip"
    BY <1>2, <1>3 DEF KeyExt
  <1>5. "zip" \notin Supported
    BY DEF Supported, DOC_EXT_PRIORITY
  <1> QED BY <1>4, <1>5 DEF OwnKey, Key

\* A document is named after its attachment, and after nothing else.
LEMMA DocumentKeys ==
    ASSUME attachments \in Contents,
           NEW n \in Notices, NEW i \in ApplyDedup(attachments[n]), NEW o \in DocumentsOf(n, i)
    PROVE  /\ o[1] = OwnKey(n, i)[1] /\ o[2] = OwnKey(n, i)[2]
           /\ o[4] \in Supported
           /\ File(n, i).url # NoUrl
           /\ Kind(n, i) = "plain" => o = OwnKey(n, i)
           /\ Kind(n, i) = "zip" => o[3] # 0
           /\ Kind(n, i) \in {"plain", "zip"}
  <1>1. i \in DOMAIN attachments[n] /\ File(n, i).url # NoUrl /\ Kind(n, i) # "drm"
    BY Counted DEF DocumentsOf, Kind
  <1>2. CASE Kind(n, i) = "zip"
    <2>1. PICK m \in ArchiveMembers(File(n, i)) : o = MemberKey(n, i, m)
      BY <1>1, <1>2 DEF DocumentsOf, Kind
    <2>2. /\ IsFiniteSet(ArchiveMembers(File(n, i))) /\ ArchiveMembers(File(n, i)) \subseteq Nat
          /\ Payload[File(n, i).url].members[m].ext \in Supported
      BY <1>1, <2>1, Unpacked DEF File
    <2>3. MemberNo(File(n, i), m) # 0
      BY <2>1, <2>2, Numbers, FS_CardinalityType DEF MemberNo
    <2> QED BY <1>1, <1>2, <2>1, <2>2, <2>3 DEF MemberKey, OwnKey, Key
  <1>3. CASE Kind(n, i) = "plain"
    <2>1. o = OwnKey(n, i) /\ KeyExt(File(n, i)) \in Supported
      BY <1>1, <1>3 DEF DocumentsOf, Kind
    <2> QED BY <1>1, <1>3, <2>1 DEF OwnKey, Key
  <1> QED BY <1>1, <1>2, <1>3, Kinds

-------------------------------------------------------------------------------
(* The inductive invariant, in named parts.                                 *)

StateOK ==
    /\ attachments \in Contents
    /\ expected = [n \in Notices |-> expected[n]]
    /\ left \subseteq Metadata
    /\ rows = [n \in Notices |-> rows[n]]
    /\ member \in Nat
    /\ phase \in Phases

\* Everything attachment i may lead to.
ObjectsOf(n, i) ==
    IF File(n, i).url = NoUrl \/ Kind(n, i) = "drm" THEN {}
    ELSE {OwnKey(n, i)} \union DocumentsOf(n, i)

ObjectsNamed ==
    \A o \in objects : \E n \in Notices : \E i \in ApplyDedup(attachments[n]) :
        o \in ObjectsOf(n, i)

ArchivesWhole ==
    \A n \in Notices : \A i \in ApplyDedup(attachments[n]) :
        (Kind(n, i) = "zip" /\ OwnKey(n, i) \in objects) => DocumentsOf(n, i) \subseteq objects

\* Of the archive the run is at, the members before the next one are stored.
UnpackedBefore(n, i) ==
    /\ Wanted(n, i) /\ Kind(n, i) = "zip"
    /\ \A m \in ArchiveMembers(File(n, i)) :
         MemberNo(File(n, i), m) < member => MemberKey(n, i, m) \in objects

Unpacking ==
    phase = "members" =>
        \A n \in Notices : \A i \in DOMAIN attachments[n] : At(n, i) => UnpackedBefore(n, i)

\* A row that is no failure is of an attachment whose documents are stored.
RowsTrue ==
    phase # "idle" =>
        \A n \in Notices : "failed" \notin rows[n] =>
            \A i \in ApplyDedup(attachments[n]) :
                <<n, i>> \notin left => DocumentsOf(n, i) \subseteq objects

\* Without a success or a failure in the rows of a notice, nothing of it can be stored.
RowsTell ==
    phase # "idle" =>
        \A n \in Notices : rows[n] \intersect {"success", "failed"} = {} =>
            \A i \in ApplyDedup(attachments[n]) : <<n, i>> \notin left => ~Storable(n, i)

\* The correction has been at the notices before the next one.
CorrectedBefore ==
    phase = "correct" =>
        \A q \in DOMAIN NoticeOrder :
            (q < pos /\ ~Held(NoticeOrder[q]))
            => expected[NoticeOrder[q]] = Cardinality(Documents(NoticeOrder[q]))

Ends ==
    /\ phase = "correct" => left = {} /\ pos \in Nat
    /\ outcome = "succeeded" => phase = "idle" /\ SucceededMeansStored /\ EstimateSettled

Counts == RowsTell /\ CorrectedBefore /\ CountNeverPartial

DownloadInv ==
    /\ StateOK /\ ObjectsNamed /\ ArchivesWhole /\ Unpacking /\ RowsTrue /\ Ends
    /\ Counts

LEMMA InitHolds == ASSUME Init PROVE DownloadInv
  <1>1. StateOK
    BY DEF Init, StateOK, Phases
  <1>2. ObjectsNamed /\ ArchivesWhole /\ Unpacking /\ RowsTrue /\ Ends
    BY DEF Init, ObjectsNamed, ArchivesWhole, Unpacking, RowsTrue, Ends
  <1>3. Counts
    BY DEF Init, Counts, RowsTell, CorrectedBefore, CountNeverPartial
  <1> QED BY <1>1, <1>2, <1>3 DEF DownloadInv

\* What an attachment is, and what it leads to, does not change.
LEMMA Fixed ==
    ASSUME UNCHANGED attachments
    PROVE  /\ \A n : ApplyDedup(attachments[n])' = ApplyDedup(attachments[n])
           /\ \A n, i : /\ File(n, i)' = File(n, i)
                        /\ Kind(n, i)' = Kind(n, i)
                        /\ Wanted(n, i)' = Wanted(n, i)
                        /\ OwnKey(n, i)' = OwnKey(n, i)
                        /\ DocumentsOf(n, i)' = DocumentsOf(n, i)
                        /\ ObjectsOf(n, i)' = ObjectsOf(n, i)
                        /\ Storable(n, i)' = Storable(n, i)
           /\ \A n, i, m : MemberKey(n, i, m)' = MemberKey(n, i, m)
           /\ \A n : Documents(n)' = Documents(n) /\ Estimate(n)' = Estimate(n)
           /\ Metadata' = Metadata
  BY DEF File, Kind, Wanted, OwnKey, DocumentsOf, ObjectsOf, Storable, MemberKey, Documents,
     Estimate, Metadata

LEMMA PlaceType == ASSUME NEW n \in Notices PROVE Place(n) \in Nat
  <1>1. \E p \in DOMAIN NoticeOrder : NoticeOrder[p] = n
    BY NoticesAssumption
  <1>2. NoticeOrder \in Seq(Notices)
    BY NoticesAssumption
  <1>3. DOMAIN NoticeOrder \subseteq Nat
    BY <1>2
  <1> QED BY <1>1, <1>3 DEF Place

\* The run is at one attachment.
LEMMA AtOne ==
    ASSUME attachments \in Contents,
           NEW n \in Notices, NEW i \in DOMAIN attachments[n], At(n, i),
           NEW m \in Notices, NEW j \in DOMAIN attachments[m], At(m, j)
    PROVE  n = m /\ i = j
  <1>1. i \in Nat /\ j \in Nat /\ Place(n) \in Nat /\ Place(m) \in Nat
    BY Counted, PlaceType
  <1>2. /\ Place(n) < Place(m) \/ (n = m /\ i <= j)
        /\ Place(m) < Place(n) \/ (m = n /\ j <= i)
    BY DEF At
  <1> QED BY <1>1, <1>2

\* Storing an archive when all of it is there, or anything else, keeps archives whole.
LEMMA StoringKeeps ==
    ASSUME DownloadInv, UNCHANGED attachments,
           NEW n \in Notices, NEW i \in ApplyDedup(attachments[n]),
           NEW o \in ObjectsOf(n, i), objects' = objects \union {o},
           (Kind(n, i) = "zip" /\ o = OwnKey(n, i)) => DocumentsOf(n, i) \subseteq objects'
    PROVE  ObjectsNamed' /\ ArchivesWhole'
  <1>1. /\ \A m : ApplyDedup(attachments[m])' = ApplyDedup(attachments[m])
        /\ \A m, j : /\ Kind(m, j)' = Kind(m, j) /\ OwnKey(m, j)' = OwnKey(m, j)
                     /\ DocumentsOf(m, j)' = DocumentsOf(m, j)
                     /\ ObjectsOf(m, j)' = ObjectsOf(m, j)
    BY Fixed
  <1>2. ObjectsNamed'
    BY <1>1 DEF ObjectsNamed, DownloadInv
  <1>3. ASSUME NEW m \in Notices, NEW j \in ApplyDedup(attachments[m]),
               Kind(m, j) = "zip", OwnKey(m, j) \in objects'
        PROVE  DocumentsOf(m, j) \subseteq objects'
    <2>1. attachments \in Contents
      BY DEF DownloadInv, StateOK
    <2>2. CASE OwnKey(m, j) \in objects
      BY <1>3, <2>2 DEF DownloadInv, ArchivesWhole
    <2>3. CASE OwnKey(m, j) = o
      <3>1. OwnKey(m, j)[4] \notin Supported
        BY <1>3, <2>1, ZipKey
      <3>2. o \notin DocumentsOf(n, i)
        BY <2>1, <2>3, <3>1, DocumentKeys
      <3>3. o = OwnKey(n, i)
        BY <3>2 DEF ObjectsOf
      <3>4. m = n /\ j = i
        BY <2>1, <2>3, <3>3, OwnKeys
      <3> QED BY <1>3, <3>3, <3>4
    <2> QED BY <1>3, <2>2, <2>3
  <1>4. ArchivesWhole'
    BY <1>1, <1>3 DEF ArchivesWhole
  <1> QED BY <1>2, <1>4

\* The row of an attachment is written.
LEMMA RowKeeps ==
    ASSUME DownloadInv, phase \in {"files", "members"},
           UNCHANGED <<attachments, expected, outcome>>,
           NEW n \in Notices, NEW i \in DOMAIN attachments[n], NEW status, Row(n, i, status),
           \A m \in Notices : \A j \in ApplyDedup(attachments[m]) :
               (m # n \/ j # i) /\ DocumentsOf(m, j) \subseteq objects
                   => DocumentsOf(m, j) \subseteq objects',
           (status # "failed" /\ i \in ApplyDedup(attachments[n]))
               => DocumentsOf(n, i) \subseteq objects',
           (status \notin {"success", "failed"} /\ i \in ApplyDedup(attachments[n]))
               => ~Storable(n, i),
           ObjectsNamed', ArchivesWhole'
    PROVE  DownloadInv'
  <1>1. /\ \A m : ApplyDedup(attachments[m])' = ApplyDedup(attachments[m])
        /\ \A m, j : DocumentsOf(m, j)' = DocumentsOf(m, j) /\ Storable(m, j)' = Storable(m, j)
        /\ \A m : Documents(m)' = Documents(m) /\ Estimate(m)' = Estimate(m)
        /\ Metadata' = Metadata
    BY Fixed
  <1>2. /\ rows' = [rows EXCEPT ![n] = @ \union {status}]
        /\ left' = left \ {<<n, i>>} /\ phase' = "files" /\ member' = 0
    BY DEF Row
  <1>3. StateOK'
    BY <1>1, <1>2 DEF DownloadInv, StateOK, Phases
  <1>4. Unpacking' /\ CountNeverPartial' /\ CorrectedBefore'
    BY <1>1, <1>2 DEF DownloadInv, Unpacking, Counts, CorrectedBefore, CountNeverPartial
  <1>5. Ends'
    BY <1>2 DEF DownloadInv, Ends
  <1>6. RowsTrue'
    <2> SUFFICES ASSUME NEW m \in Notices, "failed" \notin rows'[m],
                        NEW j \in ApplyDedup(attachments[m]), <<m, j>> \notin left'
                 PROVE  DocumentsOf(m, j) \subseteq objects'
      BY <1>1 DEF RowsTrue
    <2>1. "failed" \notin rows[m] /\ (m = n => status # "failed")
      BY <1>2 DEF DownloadInv, StateOK
    <2>2. CASE m = n /\ j = i
      BY <2>1, <2>2
    <2>3. CASE m # n \/ j # i
      <3>1. <<m, j>> \notin left
        BY <1>2, <2>3
      <3>2. DocumentsOf(m, j) \subseteq objects
        BY <2>1, <3>1 DEF DownloadInv, RowsTrue
      <3> QED BY <2>3, <3>2
    <2> QED BY <2>2, <2>3
  <1>7. RowsTell'
    <2> SUFFICES ASSUME NEW m \in Notices, rows'[m] \intersect {"success", "failed"} = {},
                        NEW j \in ApplyDedup(attachments[m]), <<m, j>> \notin left'
                 PROVE  ~Storable(m, j)
      BY <1>1 DEF RowsTell
    <2>1. /\ rows[m] \intersect {"success", "failed"} = {}
          /\ m = n => status \notin {"success", "failed"}
      BY <1>2 DEF DownloadInv, StateOK
    <2>2. CASE m = n /\ j = i
      BY <2>1, <2>2
    <2>3. CASE m # n \/ j # i
      <3>1. <<m, j>> \notin left
        BY <1>2, <2>3
      <3> QED BY <2>1, <3>1 DEF DownloadInv, Counts, RowsTell
    <2> QED BY <2>2, <2>3
  <1> QED BY <1>3, <1>4, <1>5, <1>6, <1>7 DEF DownloadInv, Counts

-------------------------------------------------------------------------------
(* The steps over the attachments.                                          *)

LEMMA NothingStored ==
    ASSUME DownloadInv, UNCHANGED <<attachments, objects>>
    PROVE  ObjectsNamed' /\ ArchivesWhole'
  BY Fixed DEF DownloadInv, ObjectsNamed, ArchivesWhole

\* What is skipped has no documents.
LEMMA SkipsKeep ==
    ASSUME DownloadInv, NEW n \in Notices, NEW i \in DOMAIN attachments[n],
           SkipUnwanted(n, i) \/ SkipPayload(n, i)
    PROVE  DownloadInv'
  <1>1. /\ phase = "files" /\ Row(n, i, "skipped")
        /\ UNCHANGED <<attachments, expected, objects, outcome>>
    BY DEF SkipUnwanted, SkipPayload, Fetched, AtFile
  <1>2. \/ ~Wanted(n, i)
        \/ Kind(n, i) = "drm"
        \/ Kind(n, i) = "zip" /\ ArchiveMembers(File(n, i)) = {}
    BY DEF SkipUnwanted, SkipPayload, Fetched, Kind
  <1>3. i \in ApplyDedup(attachments[n]) => DocumentsOf(n, i) = {}
    BY <1>2 DEF Wanted, DocumentsOf, Kind
  <1>4. i \in ApplyDedup(attachments[n]) => ~Storable(n, i)
    BY <1>2 DEF Wanted, Storable, Kind
  <1>5. ObjectsNamed' /\ ArchivesWhole'
    BY <1>1, NothingStored
  <1> QED BY <1>1, <1>3, <1>4, <1>5, RowKeeps

\* What is found is there in full.
LEMMA FindKeeps ==
    ASSUME DownloadInv, NEW n \in Notices, NEW i \in DOMAIN attachments[n], FindCached(n, i)
    PROVE  DownloadInv'
  <1>1. /\ phase = "files" /\ Row(n, i, "success")
        /\ UNCHANGED <<attachments, expected, objects, outcome>>
        /\ i \in ApplyDedup(attachments[n]) /\ OwnKey(n, i) \in objects
    BY DEF FindCached, AtFile, Wanted, Cached
  <1>2. attachments \in Contents
    BY DEF DownloadInv, StateOK
  <1>3. DocumentsOf(n, i) \subseteq objects
    <2>1. CASE Kind(n, i) = "zip"
      BY <1>1, <2>1 DEF DownloadInv, ArchivesWhole
    <2>2. CASE Kind(n, i) # "zip"
      <3>1. \A o \in DocumentsOf(n, i) : o = OwnKey(n, i)
        BY <1>1, <1>2, <2>2, DocumentKeys
      <3> QED BY <1>1, <3>1
    <2> QED BY <2>1, <2>2
  <1>4. ObjectsNamed' /\ ArchivesWhole'
    BY <1>1, NothingStored
  <1> QED BY <1>1, <1>3, <1>4, RowKeeps

LEMMA StorePlainKeeps ==
    ASSUME DownloadInv, NEW n \in Notices, NEW i \in DOMAIN attachments[n], StorePlain(n, i)
    PROVE  DownloadInv'
  <1>1. /\ phase = "files" /\ Row(n, i, "success")
        /\ UNCHANGED <<attachments, expected, outcome>>
        /\ objects' = objects \union {OwnKey(n, i)}
        /\ i \in ApplyDedup(attachments[n]) /\ File(n, i).url # NoUrl /\ Kind(n, i) = "plain"
    BY DEF StorePlain, Fetched, AtFile, Wanted, Kind
  <1>2. attachments \in Contents
    BY DEF DownloadInv, StateOK
  <1>3. DocumentsOf(n, i) \subseteq objects'
    <2>1. \A o \in DocumentsOf(n, i) : o = OwnKey(n, i)
      BY <1>1, <1>2, DocumentKeys
    <2> QED BY <1>1, <2>1
  <1>4. OwnKey(n, i) \in ObjectsOf(n, i)
    BY <1>1 DEF ObjectsOf
  <1>5. ObjectsNamed' /\ ArchivesWhole'
    BY <1>1, <1>4, StoringKeeps
  <1> QED BY <1>1, <1>3, <1>5, RowKeeps

LEMMA OpenKeeps ==
    ASSUME DownloadInv, NEW n \in Notices, NEW i \in DOMAIN attachments[n], OpenArchive(n, i)
    PROVE  DownloadInv'
  <1>1. /\ phase = "files" /\ phase' = "members" /\ member' = 1
        /\ At(n, i) /\ Wanted(n, i) /\ Kind(n, i) = "zip"
        /\ UNCHANGED <<attachments, expected, objects, left, rows, outcome>>
    BY DEF OpenArchive, Fetched, AtFile, Kind
  <1>2. attachments \in Contents
    BY DEF DownloadInv, StateOK
  <1>3. /\ \A m : ApplyDedup(attachments[m])' = ApplyDedup(attachments[m])
        /\ \A m, j : /\ DocumentsOf(m, j)' = DocumentsOf(m, j) /\ Kind(m, j)' = Kind(m, j)
                     /\ Wanted(m, j)' = Wanted(m, j) /\ File(m, j)' = File(m, j)
                     /\ Storable(m, j)' = Storable(m, j)
        /\ \A m : Documents(m)' = Documents(m) /\ Estimate(m)' = Estimate(m)
        /\ Metadata' = Metadata
    BY <1>1, Fixed
  <1>4. StateOK'
    BY <1>1, <1>3 DEF DownloadInv, StateOK, Phases
  <1>5. RowsTrue' /\ Ends' /\ Counts'
    BY <1>1, <1>3 DEF DownloadInv, RowsTrue, Ends, Counts, RowsTell, CorrectedBefore,
       CountNeverPartial
  <1>6. Unpacking'
    <2> SUFFICES ASSUME NEW m \in Notices, NEW j \in DOMAIN attachments[m], At(m, j)'
                 PROVE  UnpackedBefore(m, j)'
      BY <1>1 DEF Unpacking
    <2>1. At(m, j)
      BY <1>1 DEF At
    <2>2. m = n /\ j = i
      BY <1>1, <1>2, <2>1, AtOne
    <2>3. /\ IsFiniteSet(ArchiveMembers(File(n, i))) /\ ArchiveMembers(File(n, i)) \subseteq Nat
      BY <1>1, <1>2, Unpacked DEF File, Wanted
    <2>4. \A k \in ArchiveMembers(File(n, i)) : ~(MemberNo(File(n, i), k) < 1)
      BY <2>3, Numbers, FS_CardinalityType DEF MemberNo
    <2> QED BY <1>1, <1>3, <2>2, <2>4 DEF UnpackedBefore
  <1>7. ObjectsNamed' /\ ArchivesWhole'
    BY <1>1, NothingStored
  <1> QED BY <1>4, <1>5, <1>6, <1>7 DEF DownloadInv

LEMMA StoreMemberKeeps ==
    ASSUME DownloadInv, NEW n \in Notices, NEW i \in DOMAIN attachments[n], StoreMember(n, i)
    PROVE  DownloadInv'
  <1>1. /\ phase = "members" /\ phase' = "members" /\ member' = member + 1 /\ At(n, i)
        /\ UNCHANGED <<attachments, expected, left, rows, outcome>>
    BY DEF StoreMember, AtMembers
  <1>2. PICK k \in ArchiveMembers(File(n, i)) :
            /\ MemberNo(File(n, i), k) = member
            /\ objects' = objects \union {MemberKey(n, i, k)}
    BY DEF StoreMember
  <1>3. UnpackedBefore(n, i) /\ attachments \in Contents /\ member \in Nat
    BY <1>1 DEF DownloadInv, StateOK, Unpacking
  <1>4. i \in ApplyDedup(attachments[n]) /\ File(n, i).url # NoUrl /\ Kind(n, i) = "zip"
    BY <1>3 DEF UnpackedBefore, Wanted
  <1>5. /\ MemberKey(n, i, k) \in DocumentsOf(n, i)
        /\ MemberKey(n, i, k) \in ObjectsOf(n, i)
    BY <1>2, <1>4 DEF DocumentsOf, ObjectsOf, Kind
  <1>6. MemberKey(n, i, k) # OwnKey(n, i)
    <2>1. OwnKey(n, i)[4] \notin Supported
      BY <1>3, <1>4, ZipKey
    <2>2. MemberKey(n, i, k)[4] \in Supported
      BY <1>3, <1>4, <1>5, DocumentKeys
    <2> QED BY <2>1, <2>2
  <1>7. ObjectsNamed' /\ ArchivesWhole'
    BY <1>1, <1>2, <1>4, <1>5, <1>6, StoringKeeps
  <1>8. /\ \A m : ApplyDedup(attachments[m])' = ApplyDedup(attachments[m])
        /\ \A m, j : /\ DocumentsOf(m, j)' = DocumentsOf(m, j) /\ Kind(m, j)' = Kind(m, j)
                     /\ Wanted(m, j)' = Wanted(m, j) /\ File(m, j)' = File(m, j)
                     /\ Storable(m, j)' = Storable(m, j)
        /\ \A m, j, l : MemberKey(m, j, l)' = MemberKey(m, j, l)
        /\ \A m : Documents(m)' = Documents(m) /\ Estimate(m)' = Estimate(m)
        /\ Metadata' = Metadata
    BY <1>1, Fixed
  <1>9. StateOK'
    BY <1>1, <1>3, <1>8 DEF DownloadInv, StateOK, Phases
  <1>10. RowsTrue' /\ Ends' /\ Counts'
    BY <1>1, <1>2, <1>8 DEF DownloadInv, RowsTrue, Ends, Counts, RowsTell, CorrectedBefore,
       CountNeverPartial
  <1>11. Unpacking'
    <2> SUFFICES ASSUME NEW m \in Notices, NEW j \in DOMAIN attachments[m], At(m, j)'
                 PROVE  UnpackedBefore(m, j)'
      BY <1>1 DEF Unpacking
    <2>1. At(m, j)
      BY <1>1 DEF At
    <2>2. m = n /\ j = i
      BY <1>1, <1>3, <2>1, AtOne
    <2>3. IsFiniteSet(ArchiveMembers(File(n, i))) /\ ArchiveMembers(File(n, i)) \subseteq Nat
      BY <1>3, <1>4, Unpacked DEF File
    <2>4. ASSUME NEW l \in ArchiveMembers(File(n, i)), MemberNo(File(n, i), l) < member + 1
          PROVE  MemberKey(n, i, l) \in objects'
      <3>1. MemberNo(File(n, i), l) \in Nat
        BY <2>3, Numbers, FS_CardinalityType DEF MemberNo
      <3>2. CASE MemberNo(File(n, i), l) < member
        BY <1>2, <1>3, <3>2 DEF UnpackedBefore
      <3>3. CASE MemberNo(File(n, i), l) = member
        <4>1. l = k
          BY <1>2, <2>3, <3>3, Numbers DEF MemberNo
        <4> QED BY <1>2, <4>1
      <3> QED BY <1>3, <2>4, <3>1, <3>2, <3>3
    <2> QED BY <1>1, <1>3, <1>8, <2>2, <2>4 DEF UnpackedBefore
  <1> QED BY <1>7, <1>9, <1>10, <1>11 DEF DownloadInv

LEMMA StoreArchiveKeeps ==
    ASSUME DownloadInv, NEW n \in Notices, NEW i \in DOMAIN attachments[n], StoreArchive(n, i)
    PROVE  DownloadInv'
  <1>1. /\ phase = "members" /\ At(n, i) /\ Row(n, i, "success")
        /\ member > Cardinality(ArchiveMembers(File(n, i)))
        /\ objects' = objects \union {OwnKey(n, i)}
        /\ UNCHANGED <<attachments, expected, outcome>>
    BY DEF StoreArchive, AtMembers
  <1>2. UnpackedBefore(n, i) /\ attachments \in Contents /\ member \in Nat
    BY <1>1 DEF DownloadInv, StateOK, Unpacking
  <1>3. i \in ApplyDedup(attachments[n]) /\ File(n, i).url # NoUrl /\ Kind(n, i) = "zip"
    BY <1>2 DEF UnpackedBefore, Wanted
  <1>4. IsFiniteSet(ArchiveMembers(File(n, i))) /\ ArchiveMembers(File(n, i)) \subseteq Nat
    BY <1>2, <1>3, Unpacked DEF File
  <1>5. \A k \in ArchiveMembers(File(n, i)) : MemberNo(File(n, i), k) < member
    <2> TAKE k \in ArchiveMembers(File(n, i))
    <2>1. MemberNo(File(n, i), k) \in 1 .. Cardinality(ArchiveMembers(File(n, i)))
      BY <1>4, Numbers DEF MemberNo
    <2>2. Cardinality(ArchiveMembers(File(n, i))) \in Nat
      BY <1>4, FS_CardinalityType
    <2> QED BY <1>1, <1>2, <2>1, <2>2
  <1>6. DocumentsOf(n, i) \subseteq objects'
    BY <1>1, <1>2, <1>3, <1>5 DEF DocumentsOf, UnpackedBefore, Kind
  <1>7. OwnKey(n, i) \in ObjectsOf(n, i)
    BY <1>3 DEF ObjectsOf
  <1>8. ObjectsNamed' /\ ArchivesWhole'
    BY <1>1, <1>3, <1>6, <1>7, StoringKeeps
  <1> QED BY <1>1, <1>6, <1>8, RowKeeps

\* An upload that breaks off destroys no other document.
LEMMA FailureKeeps ==
    ASSUME DownloadInv, NEW n \in Notices, NEW i \in DOMAIN attachments[n],
           AttachmentFails(n, i)
    PROVE  DownloadInv'
  <1>1. /\ phase \in {"files", "members"} /\ Row(n, i, "failed")
        /\ UNCHANGED <<attachments, expected, outcome>>
    BY DEF AttachmentFails, AtFile, AtMembers
  <1>2. CASE UNCHANGED objects
    <2>1. ObjectsNamed' /\ ArchivesWhole'
      BY <1>1, <1>2, NothingStored
    <2> QED BY <1>1, <1>2, <2>1, RowKeeps
  <1>3. CASE ~UNCHANGED objects
    <2>1. /\ objects' = objects \ {OwnKey(n, i)}
          /\ i \in ApplyDedup(attachments[n]) /\ Kind(n, i) = "plain"
      BY <1>3 DEF AttachmentFails, Fetched, Wanted, Kind
    <2>2. attachments \in Contents
      BY DEF DownloadInv, StateOK
    <2>3. ASSUME NEW m \in Notices, NEW j \in ApplyDedup(attachments[m]), m # n \/ j # i
          PROVE  OwnKey(n, i) \notin DocumentsOf(m, j)
      <3>1. ASSUME NEW o \in DocumentsOf(m, j), o = OwnKey(n, i)
            PROVE  m = n /\ j = i
        <4>1. o[1] = OwnKey(m, j)[1] /\ o[2] = OwnKey(m, j)[2]
          BY <2>2, DocumentKeys
        <4> QED BY <2>1, <2>2, <3>1, <4>1, OwnKeys
      <3> QED BY <2>3, <3>1
    <2>4. /\ \A m : ApplyDedup(attachments[m])' = ApplyDedup(attachments[m])
          /\ \A m, j : /\ Kind(m, j)' = Kind(m, j) /\ OwnKey(m, j)' = OwnKey(m, j)
                       /\ DocumentsOf(m, j)' = DocumentsOf(m, j)
                       /\ ObjectsOf(m, j)' = ObjectsOf(m, j)
      BY <1>1, Fixed
    <2>5. ObjectsNamed'
      BY <2>1, <2>4 DEF DownloadInv, ObjectsNamed
    <2>6. ArchivesWhole'
      <3> SUFFICES ASSUME NEW m \in Notices, NEW j \in ApplyDedup(attachments[m]),
                          Kind(m, j) = "zip", OwnKey(m, j) \in objects'
                   PROVE  DocumentsOf(m, j) \subseteq objects'
        BY <2>4 DEF ArchivesWhole
      <3>1. m # n \/ j # i
        BY <2>1
      <3>2. DocumentsOf(m, j) \subseteq objects
        BY <2>1 DEF DownloadInv, ArchivesWhole
      <3> QED BY <2>1, <2>3, <3>1, <3>2
    <2>7. \A m \in Notices : \A j \in ApplyDedup(attachments[m]) :
              (m # n \/ j # i) /\ DocumentsOf(m, j) \subseteq objects
                  => DocumentsOf(m, j) \subseteq objects'
      BY <2>1, <2>3
    <2> QED BY <1>1, <2>5, <2>6, <2>7, RowKeeps
  <1> QED BY <1>2, <1>3

-------------------------------------------------------------------------------
(* The beginning and the end of a run.                                      *)

LEMMA StartKeeps == ASSUME DownloadInv, StartRun PROVE DownloadInv'
  <1>1. /\ phase' = "files" /\ left' = Metadata /\ rows' = [n \in Notices |-> {}]
        /\ outcome' = "none"
        /\ UNCHANGED <<attachments, expected, objects, member>>
    BY DEF StartRun
  <1>2. /\ \A m : ApplyDedup(attachments[m])' = ApplyDedup(attachments[m])
        /\ \A m, j : DocumentsOf(m, j)' = DocumentsOf(m, j) /\ Storable(m, j)' = Storable(m, j)
        /\ \A m : Documents(m)' = Documents(m) /\ Estimate(m)' = Estimate(m)
        /\ Metadata' = Metadata
    BY <1>1, Fixed
  <1>3. StateOK'
    BY <1>1, <1>2 DEF DownloadInv, StateOK, Phases
  <1>4. Unpacking' /\ Ends' /\ CountNeverPartial' /\ CorrectedBefore'
    BY <1>1, <1>2 DEF DownloadInv, Unpacking, Ends, Counts, CorrectedBefore, CountNeverPartial
  <1>5. RowsTrue' /\ RowsTell'
    <2>1. \A n \in Notices : \A i \in ApplyDedup(attachments[n]) : <<n, i>> \in Metadata
      BY DEF Metadata, ApplyDedup
    <2> QED BY <1>1, <1>2, <2>1 DEF RowsTrue, RowsTell
  <1>6. ObjectsNamed' /\ ArchivesWhole'
    BY <1>1, NothingStored
  <1> QED BY <1>3, <1>4, <1>5, <1>6 DEF DownloadInv, Counts

LEMMA OrderType ==
    /\ DOMAIN NoticeOrder = 1 .. Len(NoticeOrder) /\ Len(NoticeOrder) \in Nat
    /\ \A q \in DOMAIN NoticeOrder : NoticeOrder[q] \in Notices
  <1>1. NoticeOrder \in Seq(Notices)
    BY NoticesAssumption
  <1> QED BY <1>1

\* When every row is written, the objects of a notice without failure are its documents.
LEMMA AllThere ==
    ASSUME DownloadInv, phase = "correct", NEW n \in Notices, "failed" \notin rows[n]
    PROVE  /\ Documents(n) \subseteq objects
           /\ {o \in objects : o[1] = n /\ o[4] \in Supported} = Documents(n)
  <1>1. attachments \in Contents /\ left = {}
    BY DEF DownloadInv, StateOK, Ends
  <1>2. Documents(n) \subseteq objects
    BY <1>1 DEF DownloadInv, RowsTrue, Documents
  <1>3. \A o \in Documents(n) : o[1] = n /\ o[4] \in Supported
    <2> SUFFICES ASSUME NEW i \in ApplyDedup(attachments[n]), NEW o \in DocumentsOf(n, i)
                 PROVE  o[1] = n /\ o[4] \in Supported
      BY DEF Documents
    <2>1. o[1] = OwnKey(n, i)[1] /\ o[4] \in Supported
      BY <1>1, DocumentKeys
    <2> QED BY <2>1 DEF OwnKey, Key
  <1>4. ASSUME NEW o \in objects, o[1] = n, o[4] \in Supported
        PROVE  o \in Documents(n)
    <2>1. PICK m \in Notices : \E i \in ApplyDedup(attachments[m]) : o \in ObjectsOf(m, i)
      BY DEF DownloadInv, ObjectsNamed
    <2>2. PICK i \in ApplyDedup(attachments[m]) : o \in ObjectsOf(m, i)
      BY <2>1
    <2>3. /\ File(m, i).url # NoUrl /\ Kind(m, i) # "drm"
          /\ o = OwnKey(m, i) \/ o \in DocumentsOf(m, i)
      BY <2>2 DEF ObjectsOf
    <2>4. o \in DocumentsOf(m, i)
      <3>1. CASE o = OwnKey(m, i)
        <4>1. Kind(m, i) = "plain"
          BY <1>1, <1>4, <2>3, <3>1, ZipKey, Kinds
        <4>2. KeyExt(File(m, i)) \in Supported
          BY <1>4, <3>1 DEF OwnKey, Key
        <4> QED BY <2>3, <3>1, <4>1, <4>2 DEF DocumentsOf, Kind
      <3> QED BY <2>3, <3>1
    <2>5. m = n
      <3>1. o[1] = OwnKey(m, i)[1]
        BY <1>1, <2>4, DocumentKeys
      <3> QED BY <1>4, <3>1 DEF OwnKey, Key
    <2> QED BY <2>2, <2>4, <2>5 DEF Documents
  <1> QED BY <1>2, <1>3, <1>4

LEMMA EndsKeep ==
    ASSUME DownloadInv,
           FilesDone \/ Correct \/ Finish \/ Crash \/ \E n \in Notices : Recollect(n)
    PROVE  DownloadInv'
  <1>1. UNCHANGED <<attachments, objects, rows>>
    BY DEF FilesDone, Correct, Finish, Crash, Recollect
  <1>2. /\ \A m : ApplyDedup(attachments[m])' = ApplyDedup(attachments[m])
        /\ \A m, j : DocumentsOf(m, j)' = DocumentsOf(m, j) /\ Storable(m, j)' = Storable(m, j)
        /\ \A m : Documents(m)' = Documents(m) /\ Estimate(m)' = Estimate(m)
        /\ Metadata' = Metadata
    BY <1>1, Fixed
  <1>3. ObjectsNamed' /\ ArchivesWhole'
    BY <1>1, NothingStored
  <1>4. CASE FilesDone
    <2>1. /\ phase = "files" /\ left = {} /\ phase' = "correct" /\ pos' = 1
          /\ UNCHANGED <<expected, left, member, outcome>>
      BY <1>4 DEF FilesDone
    <2>2. StateOK' /\ Unpacking' /\ RowsTrue' /\ Ends' /\ CountNeverPartial' /\ RowsTell'
      BY <1>1, <1>2, <2>1 DEF DownloadInv, StateOK, Phases, Unpacking, RowsTrue, Ends, Counts,
         CountNeverPartial, RowsTell
    <2>3. CorrectedBefore'
      <3>1. \A q \in DOMAIN NoticeOrder : ~(q < 1)
        BY OrderType
      <3> QED BY <2>1, <3>1 DEF CorrectedBefore
    <2> QED BY <1>3, <2>2, <2>3 DEF DownloadInv, Counts
  <1>5. CASE Correct
    <2> DEFINE n == NoticeOrder[pos]
    <2>1. /\ phase = "correct" /\ pos' = pos + 1 /\ pos \in Nat
          /\ expected' = IF Held(n) THEN expected ELSE [expected EXCEPT ![n] = CountSupported(n)]
          /\ UNCHANGED <<phase, left, member, outcome>>
      BY <1>5 DEF Correct, DownloadInv, Ends
    <2>2. n \in Notices /\ ~Held(n) => CountSupported(n) = Cardinality(Documents(n))
      <3> SUFFICES ASSUME n \in Notices, "failed" \notin rows[n]
                   PROVE  CountSupported(n) = Cardinality(Documents(n))
        BY DEF Held
      <3>1. {o \in objects : o[1] = n /\ o[4] \in Supported} = Documents(n)
        BY <2>1, AllThere
      <3> QED BY <3>1 DEF CountSupported
    <2>3. StateOK' /\ Unpacking' /\ RowsTrue' /\ Ends' /\ RowsTell'
      BY <1>1, <1>2, <2>1 DEF DownloadInv, StateOK, Phases, Unpacking, RowsTrue, Ends,
         Counts, RowsTell
    <2>4. CountNeverPartial'
      <3> HIDE DEF n
      <3> QED BY <1>1, <1>2, <2>1, <2>2 DEF DownloadInv, StateOK, Counts, CountNeverPartial
    <2>5. CorrectedBefore'
      <3> SUFFICES ASSUME NEW q \in DOMAIN NoticeOrder, q < pos + 1, ~Held(NoticeOrder[q])
                   PROVE  expected'[NoticeOrder[q]] = Cardinality(Documents(NoticeOrder[q]))
        BY <1>1, <1>2, <2>1 DEF CorrectedBefore, Held
      <3>1. NoticeOrder[q] \in Notices /\ q \in Nat
        BY OrderType
      <3>2. CASE NoticeOrder[q] = n
        <4>1. expected' = [expected EXCEPT ![n] = Cardinality(Documents(n))]
          BY <2>1, <2>2, <3>1, <3>2
        <4> HIDE DEF n
        <4> QED BY <3>1, <3>2, <4>1 DEF DownloadInv, StateOK
      <3>3. CASE NoticeOrder[q] # n
        <4>1. q < pos
          BY <2>1, <3>1, <3>3
        <4>2. expected[NoticeOrder[q]] = Cardinality(Documents(NoticeOrder[q]))
          BY <2>1, <4>1 DEF DownloadInv, Counts, CorrectedBefore
        <4>3. expected'[NoticeOrder[q]] = expected[NoticeOrder[q]]
          <5> HIDE DEF n
          <5> QED BY <2>1, <3>1, <3>3 DEF DownloadInv, StateOK
        <4> QED BY <4>2, <4>3
      <3> QED BY <3>2, <3>3
    <2> QED BY <1>3, <2>3, <2>4, <2>5 DEF DownloadInv, Counts
  <1>6. CASE Finish
    <2>1. /\ phase = "correct" /\ phase' = "idle" /\ pos > Len(NoticeOrder)
          /\ outcome' = "succeeded" => \A n \in Notices : "failed" \notin rows[n]
          /\ UNCHANGED <<expected, left, member>>
      BY <1>6 DEF Finish
    <2>2. outcome' = "succeeded" => \A n \in Notices : Documents(n) \subseteq objects
      BY <2>1, AllThere
    <2>3. outcome' = "succeeded" =>
            \A n \in Notices :
                (\E i \in ApplyDedup(attachments[n]) : Storable(n, i))
                => expected[n] = Cardinality(Documents(n))
      <3> SUFFICES ASSUME NEW n \in Notices, "failed" \notin rows[n],
                          NEW i \in ApplyDedup(attachments[n]), Storable(n, i)
                   PROVE  expected[n] = Cardinality(Documents(n))
        BY <2>1
      <3>1. left = {} /\ pos \in Nat
        BY <2>1 DEF DownloadInv, Ends
      <3>2. ~Held(n)
        BY <2>1, <3>1 DEF DownloadInv, Counts, RowsTell, Held
      <3>3. PICK q \in DOMAIN NoticeOrder : NoticeOrder[q] = n
        BY NoticesAssumption
      <3>4. q < pos
        BY <2>1, <3>1, OrderType
      <3> QED BY <2>1, <3>2, <3>3, <3>4 DEF DownloadInv, Counts, CorrectedBefore
    <2>4. StateOK' /\ Unpacking' /\ RowsTrue' /\ Counts'
      BY <1>1, <1>2, <2>1 DEF DownloadInv, StateOK, Phases, Unpacking, RowsTrue, Counts,
         RowsTell, CorrectedBefore, CountNeverPartial
    <2>5. Ends'
      BY <1>1, <1>2, <2>1, <2>2, <2>3 DEF Ends, SucceededMeansStored, EstimateSettled
    <2> QED BY <1>3, <2>4, <2>5 DEF DownloadInv
  <1>7. CASE Crash
    <2>1. /\ phase' = "idle" /\ left' = {} /\ member' = 0 /\ outcome' = "crashed"
          /\ UNCHANGED expected
      BY <1>7 DEF Crash
    <2>2. StateOK' /\ Unpacking' /\ RowsTrue' /\ Ends' /\ Counts'
      BY <1>1, <1>2, <2>1 DEF DownloadInv, StateOK, Phases, Unpacking, RowsTrue, Ends, Counts,
         RowsTell, CorrectedBefore, CountNeverPartial
    <2> QED BY <1>3, <2>2 DEF DownloadInv
  <1>8. ASSUME NEW n \in Notices, Recollect(n)
        PROVE  DownloadInv'
    <2>1. /\ phase = "idle" /\ expected' = [expected EXCEPT ![n] = Estimate(n)]
          /\ outcome' = "none"
          /\ UNCHANGED <<phase, left, member>>
      BY <1>8 DEF Recollect
    <2>2. StateOK' /\ Unpacking' /\ RowsTrue' /\ Ends' /\ Counts'
      BY <1>1, <1>2, <2>1 DEF DownloadInv, StateOK, Phases, Unpacking, RowsTrue, Ends, Counts,
         RowsTell, CorrectedBefore, CountNeverPartial
    <2> QED BY <1>3, <2>2 DEF DownloadInv
  <1> QED BY <1>4, <1>5, <1>6, <1>7, <1>8

LEMMA DownloadStep == ASSUME DownloadInv, [Next]_vars PROVE DownloadInv'
  <1>1. CASE UNCHANGED vars
    <2>1. UNCHANGED <<attachments, expected, objects, phase, left, pos, member, rows, outcome>>
      BY <1>1 DEF vars
    <2>2. /\ \A m : ApplyDedup(attachments[m])' = ApplyDedup(attachments[m])
          /\ \A m, j : /\ DocumentsOf(m, j)' = DocumentsOf(m, j) /\ Kind(m, j)' = Kind(m, j)
                       /\ Wanted(m, j)' = Wanted(m, j) /\ File(m, j)' = File(m, j)
                       /\ Storable(m, j)' = Storable(m, j)
          /\ \A m, j, l : MemberKey(m, j, l)' = MemberKey(m, j, l)
          /\ \A m : Documents(m)' = Documents(m) /\ Estimate(m)' = Estimate(m)
          /\ Metadata' = Metadata
          /\ \A m : ApplyDedup(attachments[m])' = ApplyDedup(attachments[m])
      BY <2>1, Fixed
    <2>3. ObjectsNamed' /\ ArchivesWhole'
      BY <2>1, NothingStored
    <2>4. StateOK' /\ RowsTrue' /\ Ends' /\ Counts'
      BY <2>1, <2>2 DEF DownloadInv, StateOK, RowsTrue, Ends, SucceededMeansStored,
         EstimateSettled, Counts, RowsTell, CorrectedBefore, Held, CountNeverPartial
    <2>5. Unpacking'
      BY <2>1, <2>2 DEF DownloadInv, Unpacking, UnpackedBefore, At
    <2> QED BY <2>3, <2>4, <2>5 DEF DownloadInv
  <1>2. CASE Next
    <2>1. ASSUME NEW n \in Notices, NEW i \in DOMAIN attachments[n],
                 \/ SkipUnwanted(n, i) \/ FindCached(n, i) \/ SkipPayload(n, i)
                 \/ StorePlain(n, i) \/ OpenArchive(n, i) \/ StoreMember(n, i)
                 \/ StoreArchive(n, i) \/ AttachmentFails(n, i)
          PROVE  DownloadInv'
      BY <2>1, SkipsKeep, FindKeeps, StorePlainKeeps, OpenKeeps, StoreMemberKeeps,
         StoreArchiveKeeps, FailureKeeps
    <2> QED BY <1>2, <2>1, StartKeeps, EndsKeep DEF Next, RunStep, FileStep
  <1> QED BY <1>1, <1>2

THEOREM Invariance == Spec => []DownloadInv
  <1>1. Init => DownloadInv
    BY InitHolds
  <1>2. DownloadInv /\ [Next]_vars => DownloadInv'
    BY DownloadStep
  <1> QED BY <1>1, <1>2, PTL DEF Spec

\* An archive in S3 has all its members beside it, and a run that ends in success has left
\* every document in S3, wherever runs fail and die; for any notices, attachments, archives
\* and failures.
THEOREM StoredMeansStoredHolds == Spec => []StoredMeansStored
  <1>1. DownloadInv => StoredMeansStored
    <2> SUFFICES ASSUME DownloadInv PROVE StoredMeansStored
      OBVIOUS
    <2>1. attachments \in Contents
      BY DEF DownloadInv, StateOK
    <2>2. ASSUME NEW n \in Notices, NEW i \in ApplyDedup(attachments[n]),
                 Key(n, DocNo(attachments[n], i), 0, "zip") \in objects
          PROVE  DocumentsOf(n, i) \subseteq objects
      <3> DEFINE key == Key(n, DocNo(attachments[n], i), 0, "zip")
      <3>1. "zip" \notin Supported
        BY DEF Supported, DOC_EXT_PRIORITY
      <3>2. /\ key[1] = OwnKey(n, i)[1] /\ key[2] = OwnKey(n, i)[2]
            /\ key[4] \notin Supported
        BY <3>1 DEF OwnKey, Key
      <3> HIDE DEF key
      <3>3. PICK m \in Notices : \E j \in ApplyDedup(attachments[m]) : key \in ObjectsOf(m, j)
        BY <2>2 DEF DownloadInv, ObjectsNamed, key
      <3>4. PICK j \in ApplyDedup(attachments[m]) : key \in ObjectsOf(m, j)
        BY <3>3
      <3>5. key = OwnKey(m, j)
        BY <2>1, <3>2, <3>4, DocumentKeys DEF ObjectsOf
      <3>6. m = n /\ j = i
        BY <2>1, <3>2, <3>5, OwnKeys
      <3>7. OwnKey(n, i) \in objects
        BY <2>2, <3>5, <3>6 DEF key
      <3>8. CASE Kind(n, i) = "zip"
        BY <3>7, <3>8 DEF DownloadInv, ArchivesWhole
      <3>9. CASE Kind(n, i) # "zip"
        <4>1. \A o \in DocumentsOf(n, i) : o = OwnKey(n, i)
          BY <2>1, <3>9, DocumentKeys
        <4> QED BY <3>7, <4>1
      <3> QED BY <3>8, <3>9
    <2>3. ArchiveComplete
      BY <2>2 DEF ArchiveComplete
    <2>4. SucceededMeansStored
      BY DEF DownloadInv, Ends, SucceededMeansStored
    <2> QED BY <2>3, <2>4 DEF StoredMeansStored
  <1> QED BY <1>1, Invariance, PTL

\* Of a notice whose attachments are all plain and have a dot in their names, each kept
\* document is one object.
LEMMA EstimateCounts ==
    ASSUME attachments \in Contents, NEW n \in Notices,
           \A i \in DOMAIN attachments[n] :
               /\ File(n, i).url # NoUrl /\ File(n, i).dotted
               /\ Kind(n, i) = "plain"
    PROVE  Estimate(n) = Cardinality(Documents(n))
  <1> DEFINE files == attachments[n]
             kept == {i \in ApplyDedup(files) : IsDocument(files[i])}
  <1>1. IsFiniteSet(kept) /\ ApplyDedup(files) \subseteq DOMAIN files
    <2>1. IsFiniteSet(ApplyDedup(files)) /\ ApplyDedup(files) \subseteq DOMAIN files
      BY Counted
    <2> QED BY <2>1, FS_Subset
  <1>2. Estimate(n) = Cardinality(kept)
    <2>1. \A i \in DOMAIN files :
             (\A j \in 1 .. i - 1 :
                 ~Outranked(files, j) => files[j].url = NoUrl \/ files[j].url # files[i].url)
             <=> ~Seen(files, i)
      BY DEF Seen, File
    <2>2. kept = {i \in DOMAIN files :
                    /\ IsDocument(files[i])
                    /\ ~Outranked(files, i)
                    /\ \A j \in 1 .. i - 1 :
                         ~Outranked(files, j) => files[j].url = NoUrl \/ files[j].url # files[i].url}
      BY <2>1 DEF ApplyDedup
    <2> QED BY <2>2 DEF Estimate, EffectiveExpectedCount
  <1>3. Documents(n) = {OwnKey(n, i) : i \in kept}
    <2>1. \A i \in ApplyDedup(files) :
             DocumentsOf(n, i) = IF IsDocument(files[i]) THEN {OwnKey(n, i)} ELSE {}
      BY <1>1 DEF DocumentsOf, Kind, KeyExt, IsDocument, File
    <2> QED BY <2>1 DEF Documents
  <1> DEFINE f == [i \in kept |-> OwnKey(n, i)]
  <1>4. \A i, j \in kept : OwnKey(n, i) = OwnKey(n, j) => i = j
    BY OwnKeys
  <1>5. f \in Bijection(kept, Documents(n))
    BY <1>3, <1>4 DEF Bijection, Injection, Surjection, IsInjective
  <1>6. ExistsBijection(kept, Documents(n))
    BY <1>5 DEF ExistsBijection
  <1> QED BY <1>1, <1>2, <1>6, FS_Bijection

\* The number merging waits for is the estimate of to_curated or the final one, never one
\* that a failure or a crash has left too low; the two copies of the attachment rules
\* agree; and a successful run has made it the final one wherever anything of the notice
\* can be stored.  For any notices, attachments, archives and failures.
THEOREM CountTrustedHolds == Spec => []CountTrusted
  <1>1. DownloadInv => CountTrusted
    <2> SUFFICES ASSUME DownloadInv PROVE CountTrusted
      OBVIOUS
    <2>1. attachments \in Contents /\ CountNeverPartial /\ EstimateSettled
      BY DEF DownloadInv, StateOK, Counts, Ends, EstimateSettled
    <2>2. EstimateExact
      <3> SUFFICES ASSUME NEW n \in Notices,
                          \A i \in DOMAIN attachments[n] :
                              /\ File(n, i).url # NoUrl /\ File(n, i).dotted
                              /\ Kind(n, i) = "plain"
                   PROVE  expected[n] = Cardinality(Documents(n))
        BY DEF EstimateExact, File, Kind
      <3>1. Estimate(n) = Cardinality(Documents(n))
        BY <2>1, EstimateCounts
      <3> QED BY <2>1, <3>1 DEF CountNeverPartial
    <2> QED BY <2>1, <2>2 DEF CountTrusted
  <1> QED BY <1>1, Invariance, PTL

===============================================================================
