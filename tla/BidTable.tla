-------------------------------- MODULE BidTable -------------------------------
(* The rows of bid_table and bid_attachments that hold what the API says of a *)
(* notice, and the programs that write them: the loaders of daily and of past *)
(* notices, and two scripts that correct a column of rows loaded before.      *)
(* The collectors rewrite the JSONs meanwhile.  A column added to the curated *)
(* JSON by a release is absent from those written before it.                  *)
EXTENDS Naturals, FiniteSets

CONSTANTS
    Bids,           \* numbers, in the order of their bid_id
    Versions,       \* what the API says of a notice: 1..n
    FilesAt,        \* entries of a version's attachments that have a URL, by number
    OldEstimate,    \* expected_file_count of a version, as it was first computed
    Estimate,       \* _effective_expected_count
    KindAt,         \* ntceKindNm of a version, or SqlNull
    NoOrder,        \* versions without bid_ntce_ord
    MaxLoads,       \* loads (bound)
    CountLimit,     \* --limit of backfill_expected_file_count.py, 300 if not given
    SqlNull,
    Off

ASSUME BidsAssumption == Bids \subseteq Nat /\ CountLimit \in Nat \ {0}

Sources == {"daily", "backfill"}

VARIABLES
    release,        \* curated JSONs have ntce_kind_nm and the corrected estimate
    said,           \* the version the API gives of a notice
    json,           \* the JSONs of a source: what each of its notices says
    bidRows,           \* bid_table, as [Bids -> row or SqlNull]
    atts,           \* bid_attachments of a notice, by file_seq
    loader,         \* the run of each loader, or Off
    counting,       \* the run of backfill_expected_file_count.py, or Off
    naming,         \* the run of backfill_ntce_kind_nm.py, or Off
    loads

tableVars == <<release, said, json, bidRows, atts, loader, counting, naming, loads>>

TableInit ==
    /\ release = FALSE
    /\ said = [b \in Bids |-> 1]
    /\ json = [s \in Sources |-> [b \in {} |-> SqlNull]]
    /\ bidRows = [b \in Bids |-> SqlNull]
    /\ atts = [b \in Bids |-> [i \in {} |-> SqlNull]]
    /\ loader = [s \in Sources |-> Off]
    /\ counting = Off
    /\ naming = Off
    /\ loads = 0

Having(f, b, value) == [x \in DOMAIN f \union {b} |-> IF x = b THEN value ELSE f[x]]

\* Something else was written while the count script was running.
Disturbed == counting' = IF counting = Off THEN Off ELSE [counting EXCEPT !.alone = FALSE]

-------------------------------------------------------------------------------
(* Around the table.                                                        *)

Release ==
    /\ ~release
    /\ release' = TRUE
    /\ UNCHANGED <<said, json, bidRows, atts, loader, counting, naming, loads>>

\* The notice is amended.
Amend(b) ==
    /\ said[b] + 1 \in Versions
    /\ said' = [said EXCEPT ![b] = @ + 1]
    /\ UNCHANGED <<release, json, bidRows, atts, loader, counting, naming, loads>>

\* What a curated JSON has of a version.
Curated(v) ==
    [version |-> v,
     expected |-> IF release THEN Estimate[v] ELSE OldEstimate[v],
     kind |-> IF release THEN KindAt[v] ELSE SqlNull]

\* A collector stores the raw JSON and the curated one.
CollectJson(s, b) ==
    /\ json' = [json EXCEPT ![s] = Having(@, b, Curated(said[b]))]
    /\ json' # json
    /\ Disturbed
    /\ UNCHANGED <<release, said, bidRows, atts, loader, naming, loads>>

\* The merge batch judges the notice: SUCCESS, FAILED, or a human verifies it.
Judge(b) ==
    /\ bidRows[b] # SqlNull
    /\ bidRows[b].open
    /\ bidRows' = [bidRows EXCEPT ![b].open = FALSE]
    /\ Disturbed
    /\ UNCHANGED <<release, said, json, atts, loader, naming, loads>>

Statuses == <<"collected", "extracted", "qualifications">>

\* Code outside the repository, the merging by the comments of the loader, writes how far
\* a document has come.
AdvanceFile(b, i) ==
    /\ i \in DOMAIN atts[b]
    /\ \E k \in 1..2 : /\ atts[b][i].status = Statuses[k]
                       /\ atts' = [atts EXCEPT ![b][i].status = Statuses[k + 1]]
    /\ UNCHANGED <<release, said, json, bidRows, loader, counting, naming, loads>>

-------------------------------------------------------------------------------
(* The loaders.                                                             *)

\* list_json_keys with a limit, list_recent_json_keys with the times of a run.
StartLoad(s) ==
    /\ loader[s] = Off
    /\ loads < MaxLoads
    /\ loads' = loads + 1
    /\ \E keys \in (SUBSET DOMAIN json[s]) \ {{}} :
        loader' = [loader EXCEPT ![s] = [todo |-> keys, built |-> [b \in {} |-> SqlNull]]]
    /\ UNCHANGED <<release, said, json, bidRows, atts, counting, naming>>

\* build_bid_row raises an error when one of the required fields is missing.
Buildable(doc) == doc.version \notin NoOrder

\* build_attachment_rows: the number of an entry counts those without URL too.
FileRows(doc) == [i \in FilesAt[doc.version] |-> [version |-> doc.version, status |-> "collected"]]

\* build_rows
BuildRow(s, b) ==
    /\ loader[s] # Off
    /\ b \in loader[s].todo
    /\ Buildable(json[s][b])
    /\ loader' = [loader EXCEPT ![s] = [todo |-> @.todo \ {b}, built |-> Having(@.built, b, json[s][b])]]
    /\ UNCHANGED <<release, said, json, bidRows, atts, counting, naming, loads>>

\* A missing field, a JSON that cannot be read, a dry run, an answer other than yes,
\* a rollback: nothing of the run is written.
EndLoad(s) ==
    /\ loader[s] # Off
    /\ loader' = [loader EXCEPT ![s] = Off]
    /\ UNCHANGED <<release, said, json, bidRows, atts, counting, naming, loads>>

\* The upsert of what build_bid_row takes from a JSON, NULL for the columns it lacks; the
\* status of the merge is not among them.
BidRow(s, b, doc) ==
    [source |-> s, version |-> doc.version, expected |-> doc.expected, kind |-> doc.kind,
     open |-> bidRows[b] = SqlNull \/ bidRows[b].open]

\* Mutated form: the status is written with every row.
AttachmentRowsAnew(old, doc) ==
    [i \in DOMAIN old \union FilesAt[doc.version] |->
        IF i \in FilesAt[doc.version] THEN FileRows(doc)[i] ELSE old[i]]

\* The upsert of bid_attachments: the status is written with a new row only.  No row
\* is ever removed.
AttachmentRows(old, doc) ==
    [i \in DOMAIN old \union FilesAt[doc.version] |->
        IF i \notin FilesAt[doc.version] THEN old[i]
        ELSE IF i \notin DOMAIN old THEN FileRows(doc)[i]
        ELSE [FileRows(doc)[i] EXCEPT !.status = old[i].status]]

\* write_rows: both tables in one transaction.
WriteRows(s) ==
    /\ loader[s] # Off
    /\ loader[s].todo = {}
    /\ LET built == loader[s].built
       IN  /\ bidRows' = [b \in Bids |-> IF b \in DOMAIN built THEN BidRow(s, b, built[b]) ELSE bidRows[b]]
           /\ atts' = [b \in Bids |-> IF b \in DOMAIN built
                                      THEN AttachmentRows(atts[b], built[b]) ELSE atts[b]]
    /\ loader' = [loader EXCEPT ![s] = Off]
    /\ Disturbed
    /\ UNCHANGED <<release, said, json, naming, loads>>

-------------------------------------------------------------------------------
(* backfill_expected_file_count.py.                                         *)

Daily(b) == bidRows[b] # SqlNull /\ bidRows[b].source = "daily"

OpenDaily == {b \in Bids : Daily(b) /\ bidRows[b].open}

\* SELECT_TARGETS_SQL: ORDER BY bid_id LIMIT, whatever earlier runs have settled.
CountTargets == {b \in OpenDaily : Cardinality({c \in OpenDaily : c < b}) < CountLimit}

\* fetch_targets
StartCounting ==
    /\ counting = Off
    /\ counting' = [todo |-> CountTargets,
                    was |-> [b \in Bids |-> IF Daily(b) THEN bidRows[b].expected ELSE 0],
                    new |-> [b \in {} |-> 0], alone |-> TRUE]
    /\ counting'.todo # {}
    /\ UNCHANGED <<release, said, json, bidRows, atts, loader, naming, loads>>

OnlyLower(old, new) == new # 0 /\ new < old

\* The skip reasons zero_expected and unchanged.
Changes(old, new) == new # 0 /\ new # old

\* compute_new_expected, from the curated JSON of today.
ComputeExpected(b) ==
    /\ counting # Off
    /\ b \in counting.todo
    /\ LET new == Estimate[json["daily"][b].version]
       IN  counting' = [counting EXCEPT
                !.todo = @ \ {b},
                !.new = IF Changes(counting.was[b], new) THEN Having(@, b, new) ELSE @]
    /\ UNCHANGED <<release, said, json, bidRows, atts, loader, naming, loads>>

\* The curated JSON cannot be read, or has no list of attachments.
CountFetchFails(b) ==
    /\ counting # Off
    /\ b \in counting.todo
    /\ counting' = [counting EXCEPT !.todo = @ \ {b}, !.alone = FALSE]
    /\ UNCHANGED <<release, said, json, bidRows, atts, loader, naming, loads>>

\* UPDATE_SQL repeats that the row is a daily one.
WriteExpected ==
    /\ counting # Off
    /\ counting.todo = {}
    /\ bidRows' = [b \in Bids |-> IF b \in DOMAIN counting.new /\ Daily(b)
                               THEN [bidRows[b] EXCEPT !.expected = counting.new[b]] ELSE bidRows[b]]
    /\ counting' = Off
    /\ UNCHANGED <<release, said, json, atts, loader, naming, loads>>

\* A dry run, or the end of the program.
EndCounting ==
    /\ counting # Off
    /\ counting' = Off
    /\ UNCHANGED <<release, said, json, bidRows, atts, loader, naming, loads>>

-------------------------------------------------------------------------------
(* backfill_ntce_kind_nm.py.                                                *)

Unnamed(b) == bidRows[b] # SqlNull /\ bidRows[b].kind = SqlNull

\* SELECT_TARGETS_SQL; which of the notices are live is a matter of the date.
StartNaming ==
    /\ naming = Off
    /\ \E live \in (SUBSET {b \in Bids : Unnamed(b)}) \ {{}} :
        naming' = [todo |-> live, source |-> [b \in live |-> bidRows[b].source],
                   kind |-> [b \in {} |-> SqlNull]]
    /\ UNCHANGED <<release, said, json, bidRows, atts, loader, counting, loads>>

Kinds(b) == {KindAt[json[naming.source[b]][b].version], SqlNull}

\* read_ntce_kind_nm, from the raw JSON the row named when it was selected; nothing
\* when that cannot be read.
ReadKind(b) ==
    /\ naming # Off
    /\ b \in naming.todo
    /\ \E kind \in Kinds(b) :
        naming' = [naming EXCEPT !.todo = @ \ {b},
                                 !.kind = IF kind = SqlNull THEN @ ELSE Having(@, b, kind)]
    /\ UNCHANGED <<release, said, json, bidRows, atts, loader, counting, loads>>

AnyRow(b) == bidRows[b] # SqlNull

\* UPDATE_SQL repeats that the column is NULL.
StillUnnamed(b) == Unnamed(b)

WriteKinds ==
    /\ naming # Off
    /\ naming.todo = {}
    /\ bidRows' = [b \in Bids |-> IF b \in DOMAIN naming.kind /\ StillUnnamed(b)
                               THEN [bidRows[b] EXCEPT !.kind = naming.kind[b]] ELSE bidRows[b]]
    /\ naming' = Off
    /\ Disturbed
    /\ UNCHANGED <<release, said, json, atts, loader, loads>>

EndNaming ==
    /\ naming # Off
    /\ naming' = Off
    /\ UNCHANGED <<release, said, json, bidRows, atts, loader, counting, loads>>

-------------------------------------------------------------------------------

Loading == \E s \in Sources : WriteRows(s)

TableNext ==
    \/ Release
    \/ \E b \in Bids :
        \/ Amend(b) \/ Judge(b)
        \/ BuildRow("daily", b) \/ BuildRow("backfill", b)
        \/ ComputeExpected(b) \/ CountFetchFails(b) \/ ReadKind(b)
        \/ \E s \in Sources : CollectJson(s, b)
        \/ \E i \in UNION {FilesAt[v] : v \in Versions} : AdvanceFile(b, i)
    \/ \E s \in Sources : StartLoad(s) \/ EndLoad(s)
    \/ Loading
    \/ StartCounting \/ WriteExpected \/ EndCounting
    \/ StartNaming \/ WriteKinds \/ EndNaming

TableSpec == TableInit /\ [][TableNext]_tableVars

-------------------------------------------------------------------------------
(* Properties.                                                              *)

\* Whatever is loaded between the SELECT and the UPDATE of a correction, the
\* correction never replaces a kind a loader has written, and never touches the count
\* of a past notice, a notice that became one in between included (the conditions
\* both UPDATE statements repeat).
LoadedValuesStay ==
    [][\A b \in Bids :
        (bidRows[b] # SqlNull /\ ~Loading) =>
            /\ bidRows[b].kind # SqlNull => bidRows'[b].kind = bidRows[b].kind
            /\ bidRows[b].source = "backfill" => bidRows'[b].expected = bidRows[b].expected]_tableVars

\* A correction of the counts no other program disturbs leaves the first CountLimit of
\* the open daily notices with the estimate of their JSON, whichever code computed the
\* count before, and whether it rises or falls (compute_new_expected, UPDATE_SQL).
CountsRepaired ==
    [][(WriteExpected /\ counting.alone) =>
        \A b \in CountTargets :
            LET now == Estimate[json["daily"][b].version]
            IN  now # 0 => bidRows'[b].expected = now]_tableVars

Rank(status) == CHOOSE k \in 1..3 : Statuses[k] = status

\* However the loads of a notice from two JSONs and its merging overlap, the rows of
\* the attachments it names come from the JSON its own row comes from, and no load
\* takes an attachment back to an earlier status, or removes it (write_rows in one
\* transaction, ATTACHMENT_NO_REGRESS_COLUMNS).
AttachmentsFollow ==
    [][\A b \in Bids :
        /\ \A i \in DOMAIN atts[b] :
              i \in DOMAIN atts'[b] /\ Rank(atts[b][i].status) <= Rank(atts'[b][i].status)
        /\ bidRows'[b] # SqlNull =>
              \A i \in FilesAt[bidRows'[b].version] :
                  i \in DOMAIN atts'[b] /\ atts'[b][i].version = bidRows'[b].version]_tableVars

===============================================================================
