---------------------------- MODULE AttachmentRules ----------------------------
(***************************************************************************)
(* Which attachments of a notice are downloaded and what becomes of them:  *)
(* ingestion/attachment_rules.py, ingestion/archive_rules.py and the       *)
(* estimate of ingestion/schema.py.                                        *)
(*                                                                         *)
(* An attachment is the record [url, stem, ext, dotted]; the stem and the  *)
(* extension are those of split_ext, NoStem and "" where they are empty,   *)
(* and dotted says that there is a dot in the name.  A member of an        *)
(* archive is [stem, ext, content]; the content is what its first bytes    *)
(* are.  What a URL delivers is a constant: [kind, type, refused,          *)
(* members], where type is the extension guessed from its content type and *)
(* refused says that guard_archive or the limit on the archive itself      *)
(* rejects it.                                                             *)
(***************************************************************************)
EXTENDS Naturals, Sequences, FiniteSets

CONSTANTS
    NoUrl,
    NoStem,
    Payload,       \* what each URL delivers
    MaxMembers     \* archive_rules.MAX_MEMBERS

ASSUME MaxMembersAssumption == MaxMembers \in Nat \ {0}

DOC_EXT_PRIORITY == <<"hwpx", "hwp", "pdf">>

Supported == {DOC_EXT_PRIORITY[p] : p \in DOMAIN DOC_EXT_PRIORITY}

Rank(ext) == CHOOSE p \in DOMAIN DOC_EXT_PRIORITY : DOC_EXT_PRIORITY[p] = ext

IsDocument(f) == f.ext \in Supported

\* Another file of the same name is there in a preferred format.
Outranked(files, i) ==
    /\ IsDocument(files[i])
    /\ files[i].stem # NoStem
    /\ \E j \in DOMAIN files :
         /\ IsDocument(files[j])
         /\ files[j].stem = files[i].stem
         /\ Rank(files[j].ext) < Rank(files[i].ext)

\* seen_urls: an attachment before this one that is not dropped has the same URL.  Of
\* those with one URL only the first that is not outranked is kept, and it is seen by all
\* that follow.
Seen(files, i) ==
    /\ files[i].url # NoUrl
    /\ \E j \in 1 .. i - 1 : files[j].url = files[i].url /\ ~Outranked(files, j)

\* The attachments apply_dedup keeps, by index.
ApplyDedup(files) == {i \in DOMAIN files : ~Seen(files, i) /\ ~Outranked(files, i)}

\* How many of the chosen indexes there are up to i.
Number(chosen, i) == Cardinality({j \in chosen : j <= i})

DocNo(files, i) == Number(ApplyDedup(files), i)

\* Mutated form: the URL of an unsupported attachment is not remembered.
EffectiveExpectedCountForgetful(files) ==
    Cardinality({i \in DOMAIN files :
        /\ IsDocument(files[i])
        /\ ~Outranked(files, i)
        /\ \A j \in 1 .. i - 1 :
             (IsDocument(files[j]) /\ ~Outranked(files, j)) =>
                 files[j].url = NoUrl \/ files[j].url # files[i].url})

\* The copy of the same rules in schema.py, which counts supported names only, but
\* remembers the URLs of the others too.
EffectiveExpectedCount(files) ==
    Cardinality({i \in DOMAIN files :
        /\ IsDocument(files[i])
        /\ ~Outranked(files, i)
        /\ \A j \in 1 .. i - 1 :
             ~Outranked(files, j) => files[j].url = NoUrl \/ files[j].url # files[i].url})

\* detect_payload_kind: a zip is an archive only under the extension zip.
PayloadKind(f) ==
    IF Payload[f.url].kind = "drm" THEN "drm"
    ELSE IF Payload[f.url].kind = "zip" /\ f.ext = "zip" THEN "zip" ELSE "plain"

\* guess_ext: a name without a dot leaves the extension to the content type.
KeyExt(f) == IF f.dotted THEN f.ext ELSE Payload[f.url].type

\* The extraction can read a member, by its content.  Every other zip is taken for hwpx.
DetectMemberKind(content) ==
    LET kinds == [ole |-> "hwp", zip |-> "hwpx", pdf |-> "pdf", hwpml |-> "hwpml"]
    IN  IF content \in DOMAIN kinds THEN kinds[content] ELSE "unreadable"

\* The members of an archive that pass the three steps of select_zip_members, by index.
Fit(members) ==
    {i \in DOMAIN members :
        /\ IsDocument(members[i])
        /\ members[i].stem # NoStem
        /\ ~Outranked(members, i)
        /\ DetectMemberKind(members[i].content) # "unreadable"}

\* Those that are stored: as many as MaxMembers, the first ones.
SelectZipMembers(members) ==
    {i \in Fit(members) : Number(Fit(members), i) <= MaxMembers}

\* The members _expand_archive stores of what f delivers, and their memberNo.
ArchiveMembers(f) == IF Payload[f.url].refused THEN {}
                     ELSE SelectZipMembers(Payload[f.url].members)

MemberNo(f, i) == Number(ArchiveMembers(f), i)

===============================================================================
