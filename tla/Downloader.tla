------------------------------ MODULE Downloader ------------------------------
(***************************************************************************)
(* ingestion/json_file_download_daily.py: a run goes through the           *)
(* attachments of the notices collected recently, downloads what S3 does   *)
(* not hold yet, unpacks archives, and then corrects expected_file_count   *)
(* of each notice to the number of documents that are really there.        *)
(*                                                                         *)
(* Runs follow one another (max_active_runs = 1 in the DAG) and every run  *)
(* selects the same notices; which notices a run selects is the subject of *)
(* DailyDag.  Notices have a curated file, a folder and an order of their  *)
(* own; an object is named by notice, docNo, memberNo (0: the attachment   *)
(* itself) and extension.                                                  *)
(***************************************************************************)
EXTENDS AttachmentRules

CONSTANTS
    Notices,
    NoticeOrder,   \* the order in which the listing returns them
    Contents,      \* the attachments the notices may have, by notice
    MaxFaults      \* failures and crashes (bound)

\* A name without a dot has no extension.
ASSUME NoticesAssumption ==
    /\ NoticeOrder \in Seq(Notices)
    /\ {NoticeOrder[p] : p \in DOMAIN NoticeOrder} = Notices
    /\ Len(NoticeOrder) = Cardinality(Notices)
    /\ \A content \in Contents, n \in Notices :
         /\ content[n] \in Seq({content[n][i] : i \in DOMAIN content[n]})
         /\ \A i \in DOMAIN content[n] :
              LET f == content[n][i]
              IN  /\ ~f.dotted => f.ext = ""
                  /\ f.url # NoUrl =>
                       LET members == Payload[f.url].members
                       IN  members \in Seq({members[m] : m \in DOMAIN members})
    /\ MaxFaults \in Nat

VARIABLES
    attachments,   \* of each notice; they do not change under the same order
    expected,      \* expected_file_count in the curated JSON
    objects,       \* S3 objects with content
    remnants,      \* S3 objects of 0 bytes, left by interrupted uploads
    phase,
    left,          \* metadata: the attachments the run has no row of yet
    pos,           \* notice whose number it is correcting
    member,        \* number of the archive member it is at
    rows,          \* download states in the rows of each notice
    outcome,       \* of the last run
    faults

vars == <<attachments, expected, objects, remnants, phase, left, pos, member, rows,
          outcome, faults>>

Phases == {"idle", "files", "members", "correct"}
DownloadOutcomes == {"none", "succeeded", "failed", "crashed"}
DownloadStatuses == {"success", "skipped", "failed"}

Key(n, d, k, ext) == <<n, d, k, ext>>
Estimate(n) == EffectiveExpectedCount(attachments[n])

File(n, i) == attachments[n][i]
OwnKey(n, i) == Key(n, DocNo(attachments[n], i), 0, KeyExt(File(n, i)))
MemberKey(n, i, m) ==
    Key(n, DocNo(attachments[n], i), MemberNo(File(n, i), m), Payload[File(n, i).url].members[m].ext)

\* metadata: the attachments of all notices, one after the other.
Metadata == UNION {{n} \X DOMAIN attachments[n] : n \in Notices}

Place(n) == CHOOSE p \in DOMAIN NoticeOrder : NoticeOrder[p] = n

\* The attachment the run is at: the first it has no row of.
At(n, i) ==
    /\ <<n, i>> \in left
    /\ \A x \in left : Place(n) < Place(x[1]) \/ (n = x[1] /\ i <= x[2])

\* _count_supported_objects
CountSupported(n) == Cardinality({o \in objects : o[1] = n /\ o[4] \in Supported})

TypeOK ==
    /\ attachments \in Contents
    /\ expected \in [Notices -> Nat]
    /\ objects \intersect remnants = {}
    /\ phase \in Phases
    /\ left \subseteq Metadata
    /\ pos \in 1 .. 1 + Len(NoticeOrder)
    /\ member \in Nat
    /\ rows \in [Notices -> SUBSET DownloadStatuses]
    /\ outcome \in DownloadOutcomes
    /\ faults \in 0 .. MaxFaults

Init ==
    /\ attachments \in Contents
    /\ expected = [n \in Notices |-> Estimate(n)]
    /\ objects = {}
    /\ remnants = {}
    /\ phase = "idle"
    /\ left = {}
    /\ pos = 1
    /\ member = 0
    /\ rows = [n \in Notices |-> {}]
    /\ outcome = "none"
    /\ faults = 0

-------------------------------------------------------------------------------
(* One attachment: upload_attachment and the loop of run.                   *)

StartRun ==
    /\ phase = "idle"
    /\ phase' = "files"
    /\ left' = Metadata
    /\ rows' = [n \in Notices |-> {}]
    /\ outcome' = "none"
    /\ UNCHANGED <<attachments, expected, objects, remnants, pos, member, faults>>

AtFile(n, i) == phase = "files" /\ At(n, i)
AtMembers(n, i) == phase = "members" /\ At(n, i)

\* The row of the attachment is written and the loop goes on.
Row(n, i, status) ==
    /\ rows' = [rows EXCEPT ![n] = @ \union {status}]
    /\ left' = left \ {<<n, i>>}
    /\ phase' = "files"
    /\ member' = 0

\* Neither a duplicate nor without URL.
Wanted(n, i) == i \in ApplyDedup(attachments[n]) /\ File(n, i).url # NoUrl

\* Mutated form: an object of 0 bytes counts as present.
CachedOfAnySize(n, i) == File(n, i).dotted /\ OwnKey(n, i) \in objects \union remnants

\* find_existing_object; predict_s3_key has no key for a name without a dot, so such a
\* file is downloaded in every run.
Cached(n, i) == File(n, i).dotted /\ OwnKey(n, i) \in objects

SkipUnwanted(n, i) ==
    /\ AtFile(n, i)
    /\ ~Wanted(n, i)
    /\ Row(n, i, "skipped")
    /\ UNCHANGED <<attachments, expected, objects, remnants, pos, outcome, faults>>

FindCached(n, i) ==
    /\ AtFile(n, i)
    /\ Wanted(n, i)
    /\ Cached(n, i)
    /\ Row(n, i, "success")
    /\ UNCHANGED <<attachments, expected, objects, remnants, pos, outcome, faults>>

\* The URL is asked for its content.
Fetched(n, i, kind) ==
    /\ AtFile(n, i)
    /\ Wanted(n, i)
    /\ ~Cached(n, i)
    /\ PayloadKind(File(n, i)) = kind

\* A protected document, or an archive with nothing that could be stored.
SkipPayload(n, i) ==
    /\ \/ Fetched(n, i, "drm")
       \/ Fetched(n, i, "zip") /\ ArchiveMembers(File(n, i)) = {}
    /\ Row(n, i, "skipped")
    /\ UNCHANGED <<attachments, expected, objects, remnants, pos, outcome, faults>>

StorePlain(n, i) ==
    /\ Fetched(n, i, "plain")
    /\ objects' = objects \union {OwnKey(n, i)}
    /\ remnants' = remnants \ {OwnKey(n, i)}
    /\ Row(n, i, "success")
    /\ UNCHANGED <<attachments, expected, pos, outcome, faults>>

\* Mutated form: the archive itself is stored before its members.
OpenArchiveStoringIt(n, i) ==
    /\ Fetched(n, i, "zip")
    /\ ArchiveMembers(File(n, i)) # {}
    /\ phase' = "members"
    /\ member' = 1
    /\ objects' = objects \union {OwnKey(n, i)}
    /\ UNCHANGED <<attachments, expected, remnants, left, pos, rows, outcome, faults>>

OpenArchive(n, i) ==
    /\ Fetched(n, i, "zip")
    /\ ArchiveMembers(File(n, i)) # {}
    /\ phase' = "members"
    /\ member' = 1
    /\ UNCHANGED <<attachments, expected, objects, remnants, left, pos, rows, outcome, faults>>

StoreMember(n, i) ==
    /\ AtMembers(n, i)
    /\ \E m \in ArchiveMembers(File(n, i)) :
         /\ MemberNo(File(n, i), m) = member
         /\ objects' = objects \union {MemberKey(n, i, m)}
    /\ member' = member + 1
    /\ UNCHANGED <<attachments, expected, remnants, phase, left, pos, rows, outcome, faults>>

StoreArchive(n, i) ==
    /\ AtMembers(n, i)
    /\ member > Cardinality(ArchiveMembers(File(n, i)))
    /\ objects' = objects \union {OwnKey(n, i)}
    /\ Row(n, i, "success")
    /\ UNCHANGED <<attachments, expected, remnants, pos, outcome, faults>>

\* A call for this attachment raises: run notes it and goes on.  An upload may
\* leave an object of 0 bytes behind.
AttachmentFails(n, i) ==
    /\ faults < MaxFaults
    /\ faults' = faults + 1
    /\ (AtFile(n, i) /\ Wanted(n, i)) \/ AtMembers(n, i)
    /\ Row(n, i, "failed")
    /\ \/ UNCHANGED <<objects, remnants>>
       \/ /\ Fetched(n, i, "plain")
          /\ objects' = objects \ {OwnKey(n, i)}
          /\ remnants' = remnants \union {OwnKey(n, i)}
    /\ UNCHANGED <<attachments, expected, pos, outcome>>

-------------------------------------------------------------------------------
(* The end of a run: correct_expected_counts and put_manifest.              *)

FilesDone ==
    /\ phase = "files"
    /\ left = {}
    /\ phase' = "correct"
    /\ pos' = 1
    /\ UNCHANGED <<attachments, expected, objects, remnants, left, member, rows, outcome, faults>>

\* Mutated form: a failed download does not hold the correction back.
HeldWithoutKey(n) == "success" \notin rows[n]

\* A download of the notice failed, or no row of it names an object.
Held(n) == "failed" \in rows[n] \/ "success" \notin rows[n]

Correct ==
    /\ phase = "correct"
    /\ pos <= Len(NoticeOrder)
    /\ LET n == NoticeOrder[pos] IN
       expected' = IF Held(n) THEN expected
                   ELSE [expected EXCEPT ![n] = CountSupported(n)]
    /\ pos' = pos + 1
    /\ UNCHANGED <<attachments, objects, remnants, phase, left, member, rows, outcome, faults>>

\* Mutated form: failures are in the manifest only.
FinishWithoutRaising ==
    /\ phase = "correct"
    /\ pos > Len(NoticeOrder)
    /\ outcome' = "succeeded"
    /\ phase' = "idle"
    /\ pos' = 1
    /\ UNCHANGED <<attachments, expected, objects, remnants, left, member, rows, faults>>

Finish ==
    /\ phase = "correct"
    /\ pos > Len(NoticeOrder)
    /\ outcome' = IF \E n \in Notices : "failed" \in rows[n] THEN "failed" ELSE "succeeded"
    /\ phase' = "idle"
    /\ pos' = 1
    /\ UNCHANGED <<attachments, expected, objects, remnants, left, member, rows, faults>>

\* The task is killed, or S3 fails outside the loop over the attachments.
Crash ==
    /\ phase # "idle"
    /\ faults < MaxFaults
    /\ faults' = faults + 1
    /\ phase' = "idle"
    /\ left' = {}
    /\ pos' = 1
    /\ member' = 0
    /\ outcome' = "crashed"
    /\ UNCHANGED <<attachments, expected, objects, remnants, rows>>

\* The collector writes the curated JSON of a notice again, with its estimate.
Recollect(n) ==
    /\ phase = "idle"
    /\ expected' = [expected EXCEPT ![n] = Estimate(n)]
    /\ outcome' = "none"
    /\ UNCHANGED <<attachments, objects, remnants, phase, left, pos, member, rows, faults>>

-------------------------------------------------------------------------------

FileStep ==
    \E n \in Notices : \E i \in DOMAIN attachments[n] :
        \/ SkipUnwanted(n, i)
        \/ FindCached(n, i)
        \/ SkipPayload(n, i)
        \/ StorePlain(n, i)
        \/ OpenArchive(n, i)
        \/ StoreMember(n, i)
        \/ StoreArchive(n, i)

RunStep == FileStep \/ FilesDone \/ Correct \/ Finish

Next ==
    \/ StartRun
    \/ RunStep
    \/ \E n \in Notices : \E i \in DOMAIN attachments[n] : AttachmentFails(n, i)
    \/ Crash
    \/ \E n \in Notices : Recollect(n)

Spec == Init /\ [][Next]_vars

\* The DAG starts a run every five minutes, and a run gets on.
FairSpec == Spec /\ WF_vars(StartRun) /\ WF_vars(RunStep)

-------------------------------------------------------------------------------
(* Properties                                                               *)

\* The documents attachment i of notice n amounts to.
DocumentsOf(n, i) ==
    LET f == File(n, i)
    IN  IF f.url = NoUrl \/ PayloadKind(f) = "drm" THEN {}
        ELSE IF PayloadKind(f) = "zip" THEN {MemberKey(n, i, m) : m \in ArchiveMembers(f)}
        ELSE {o \in {OwnKey(n, i)} : KeyExt(f) \in Supported}

Documents(n) == UNION {DocumentsOf(n, i) : i \in ApplyDedup(attachments[n])}

\* An archive in S3, which keeps later runs from opening it again, has all its
\* members beside it (docstring of _expand_archive).
ArchiveComplete ==
    \A n \in Notices : \A i \in ApplyDedup(attachments[n]) :
        Key(n, DocNo(attachments[n], i), 0, "zip") \in objects => DocumentsOf(n, i) \subseteq objects

\* expected_file_count is the estimate or the final number, never a number
\* some failure or crash has left too low: a bid would be merged for good
\* without the rest of its documents.
CountNeverPartial ==
    \A n \in Notices : expected[n] \in {Estimate(n), Cardinality(Documents(n))}

\* A run that ends in success has left every document in S3.
SucceededMeansStored ==
    outcome = "succeeded" => \A n \in Notices : Documents(n) \subseteq objects

\* What later runs take for stored is stored: the archive that keeps them from
\* opening it again, and the success that lets the DAG go on.
StoredMeansStored == ArchiveComplete /\ SucceededMeansStored

\* The attachment rules and their copy in schema.py agree: of a notice whose
\* attachments are all plain and have a dot in their names, the estimate is the final
\* number.
EstimateExact ==
    \A n \in Notices :
        (\A i \in DOMAIN attachments[n] :
             LET f == attachments[n][i] IN f.url # NoUrl /\ f.dotted /\ PayloadKind(f) = "plain")
        => expected[n] = Cardinality(Documents(n))

\* Something of attachment i can be stored, a document or not.
Storable(n, i) ==
    LET f == File(n, i)
    IN  /\ f.url # NoUrl
        /\ PayloadKind(f) # "drm"
        /\ PayloadKind(f) = "zip" => ArchiveMembers(f) # {}

\* A successful run has replaced the estimate by the final number, of protected documents
\* and archives too, except where nothing at all can be stored: such a notice keeps its
\* estimate for good.
EstimateSettled ==
    outcome = "succeeded" =>
        \A n \in Notices :
            (\E i \in ApplyDedup(attachments[n]) : Storable(n, i))
            => expected[n] = Cardinality(Documents(n))

\* The count merging waits for: no failure leaves it too low, the estimate of to_curated
\* is right where it can be, and where it is not a successful run corrects it.
CountTrusted == CountNeverPartial /\ EstimateExact /\ EstimateSettled

\* After the last failure everything gets stored, what an interrupted upload
\* left at 0 bytes included.
EventuallyStored ==
    <>[](\A n \in Notices : Documents(n) \subseteq objects)

\* What the test on protected documents asks for, a notice of nothing else included: a
\* successful run has taken them out of the expectation.  It does not hold.
SkippedNotExpected ==
    outcome = "succeeded" => \A n \in Notices : expected[n] = Cardinality(Documents(n))

===============================================================================
