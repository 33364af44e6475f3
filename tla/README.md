# bidmate-pipeline: a TLA+ verification project

TLA+ models, TLC checks and TLAPS proofs for the bid document pipeline of this
repository: from the notice API to `bid_table`, the search index and the tags, with
the programs that repair, measure and train beside it. Paths are relative to the
repository's root; `realtime/` abbreviates `pipeline/realtime/src/`.

Contents: [1 The system](#1-the-system), [2 The modules](#2-the-modules),
[3 The runs](#3-the-runs), [4 The proofs](#4-the-proofs),
[5 What the checks found](#5-what-the-checks-found),
[6 Limits](#6-limits), [7 Plan](#7-plan).

## 1. The system

```
  G2B OpenAPI                       Airflow, every 5 minutes
      |        collect -> download -> stats -> mark_success -> RDS load -> mark_rds_success
      v                                                                        |
  S3 raw/, curated/, downloads/  --S3 events-->  SQS per format (pdf, hwp, hwpx)|
                                                     |                         v
                                              extraction Lambda            bid_table
                                          text -> S3 extracted/             ^     |
                                            |               |               |     v
                                         LLM queue      embedding queue     |  bid_tags
                                            |               |               |     ^
                              S3 qualifications/       S3 vectors/        merge Lambda
                                            |               |            (every 5 min)
                                            |          index queue          |     ^
                                            |               v               |     |
                                            |           OpenSearch          |  model files
                                            +-------------------------------+  (clustering/)
```

The components communicate through S3 objects, SQS messages, two Airflow
variables and the rows of two tables. None holds a lock, and none tells another
that it has failed: every component looks at what is stored and does what seems
to be missing. Its correctness is therefore a relation between stored things.

### Inventory

| component | state it keeps | operations | what is hard | what makes it correct |
|---|---|---|---|---|
| Collection DAG (`ingestion/dags/bidding_daily_dag.py`, `ingestion/raw_json_daily.py`, `db/load_curated_daily_to_rds.py`) | collection cursor, RDS cursor, gap manifests | plan a window, collect each category, download, mark success, load, mark loaded, record a failed window | retries of one task, runs skipped or late, midnight, long gaps | a cursor passes only what was done or what a manifest leaves to the backfill; everything arrives within a bounded time |
| Downloader (`ingestion/json_file_download_daily.py`, `attachment_rules.py`, `archive_rules.py`) | attachments, manifests, `expected_file_count` in the curated JSON | find recent curated files, upload, unpack archives, correct counts | partial failure, an archive cut off between its members, objects of 0 bytes | an archive that is there is complete; a count is the estimate or the final number; success means everything is stored |
| Download statistics (`ingestion/daily_stats.py`) | one object per 5 minutes, one per hour, for each service | write, merge, finalise | late, failed and repeated windows, manifests of other attempts | nothing counts twice, services agree, an undisturbed hour is final and complete |
| Hangul and PDF documents (`parsing/`, `realtime/extractors/`) | none | detect the format, walk the tree, number pictures, cut into pages | three formats, nested tables, halves of a page, a tool that dies half way | words, tables and pictures reach the chunker once, in order |
| Text stage (`realtime/handlers/extract_{pdf,hwp,hwpx,llm}.py`, `common/sqs.py`, `common/s3.py`) | `extracted/`, `qualifications/`, three extraction queues, the LLM queue | check, extract, store, forward, ask the model, store | at-least-once delivery, a crash between two effects | a document is never unaccounted for, only moves forward, and settles |
| Vector stage (`realtime/handlers/embed_chunks.py`, `index_opensearch.py`, `pipeline/realtime/scripts/backfill_title_vectors.py`) | `vectors/`, embedding and index queues, OpenSearch | chunk, add the title, embed, store, forward, index; write all titles anew | partly rejected bulk requests, an index that does not exist yet, two writers of a title | what was sent is searchable in full or on show in a dead-letter queue; a title backfill repairs titles |
| Chunker (`realtime/embedding/chunker.py`) | none | sections, windows, tables, merging of short chunks | boundaries | no line is lost, order is kept |
| Merge batch (`realtime/handlers/merge_qualifications.py`, `merge/db.py`, `merge/inventory.py`) | qualification columns of `bid_table`, a warm connection | tag, select, list, merge, update | stale selections, overlapping invocations, one bid failing, a transaction left failed | rows only gain documents, merged is final, people's rows stay, one failure spares the rest |
| Fields (`realtime/extractors/llm/schema.py`, `realtime/merge/logic.py`, `loading/qual_merge.py`) | none | validate and demote an answer; union, first value, conflicts, `or_group` offsets | order of the documents, groups falling together, two mergers | the row says what the documents say, nothing else and nothing less in silence |
| Rows of `bid_table` (`db/load_curated_*_to_rds.py`, `db/backfill_*.py`) | notices, attachments with their progress | upsert from daily and past JSONs, correct counts and kinds | loads between the SELECT and the UPDATE of a correction, a notice from two sources | corrections never replace what a loader wrote, progress never goes back |
| Backfill of notices and files (`ingestion/raw_json_backfill.py`, `json_file_download_backfill.py`) | the objects they write, manifests by month | a day at a time, concurrent requests | a failed page in the middle of a day, the call budget | what failed is in the exit status |
| Backfill of text and qualifications (`backfill_lambda/`, `pipeline/backfill/`, `loading/load_qualifications.py`) | the objects under `extracted/`, `qualifications/backfill/`, S3 Batch jobs | write a manifest; per task: skip, read, extract, store, classify the failure; load | tasks repeated by S3 Batch, overlapping jobs | no document is lost between Temporary and Permanent; a finished one is not paid for twice |
| Tagging (`realtime/tagging/`, `pipeline/realtime/scripts/retag_all.py`) | `bid_tags` | sweep notices without tag, decide all anew | titles, codes, models and thresholds change under stored tags | a retagging settles every tag; a stored guess can be judged by the threshold of the day |
| Model selection (`clustering/22_dataset.py` to `25_deploy.py`) | ranking of representations, a saved model, two model files | split, search, evaluate, convert, pick thresholds, install | rows gain and lose codes between the programs | what is measured is measured on notices not learned from; the grid is left only where what lies past its end was tried; the two files belong together |
| Tagging experiments (`clustering/11_*.py`, `14_*.py`, `15_*.py`, `16_*.py`, `_record.py`) | a grid of settings, files of predictions, lines of `metrics.jsonl` | search all settings, split up the gain, let a language model tag the test set, recover numbers from files | four programs share files and read `bid_table` on different days; calls that fail half way | nothing is measured on titles learned from or chosen on; an answer stays with its title, a file with its model |
| Status report (`pipeline/realtime/scripts/pipeline_status.py`) | none | list, look at each file, search logs | the Lambdas go on meanwhile | each verdict was true at some moment of the report |
| Heartbeat (`ingestion/heartbeat.py`), statistics views (`ingestion/dags/bid_stats_refresh_dag.py`) | none of their own | one metric, two REFRESH | nothing: failure is swallowed or raised | - |
| Earlier code (`app/`, `alembic/`, parts of `parsing/`, `pipeline/s3_runner.py`), other experiments (`clustering/`, `experiments/`, `embedding/`) | - | - | not part of the running pipeline | - |

`PROJECT.json` lists every component with its files and its status, and under
`hazards` each place where this code is hard to test, with the properties that
would notice.

## 2. The modules

| module | role | uses |
|---|---|---|
| `SqsMessage` | one message of an SQS queue with a redrive policy | - |
| `DocumentProgress` | abstract: how far a document has come | - |
| `ExtractPipeline` | the text stage | `SqsMessage`, `DocumentProgress` as a refinement |
| `VectorStage` | the vector stage and the title backfill | `SqsMessage` |
| `BidRow` | abstract: what a reader of `bid_table` relies on | - |
| `MergeBatch` | the merge Lambda | `BidRow` as a refinement |
| `DailyDag` | the collection DAG and what its tasks do to a notice | - |
| `AttachmentRules` | pure: duplicates, formats, archives, the estimate | - |
| `Downloader` | one downloader run after another, file by file | `AttachmentRules` |
| `HourlyStats` | the statistics tasks | - |
| `DocumentText` | a Hangul document on its way to the chunker | - |
| `PdfPage` | one page of a PDF becomes text | - |
| `Chunker` | a text becomes chunks | - |
| `LlmSchema` | pure: validation and demotion of an answer | - |
| `MergeLogic` | pure: the merge of the Lambda | - |
| `QualMerge` | pure: the merge of the backfill loader | - |
| `QualificationFields` | answers arrive, a row is merged again and again | the three above |
| `History` | the collector and the downloader of past notices | - |
| `BidTable` | the loaders and correction scripts of `bid_table` | - |
| `BackfillJobs` | S3 Batch jobs of both stages and their loader | - |
| `Tagging` | rules, sweep and retagging | - |
| `ModelSelection` | the tagger's model from data to installation | - |
| `TagExperiments` | the experiments the tagger came from | - |
| `StatusReport` | the report beside the running Lambdas | - |
| `ExtractPipelineProofs`, `VectorStageProofs`, `DailyDagProofs`, `DownloaderProofs`, `BackfillJobsProofs` | theorems | the module each is named after |
| `MergeProofs` | theorems | `MergeBatch`, `QualificationFields`, `Chunker` |
| `MonitoringProofs` | theorems | `HourlyStats`, `StatusReport` |
| `NoticeProofs` | theorems | `History`, `BidTable`, `Tagging`, `ModelSelection`, `TagExperiments` |
| `MC*` | sets and functions of the TLC instances | the modules they name |

A component's module holds its variables, its initial state, one action per
operation and one per way of failing, and, at the end, its properties. Operators
marked *Mutated form* belong to no specification: they are plausible slips of
the code, kept to show that each property can fail.

`MCDocuments` (documents, fields, past notices), `MCMonitoring` (statistics, report, rows of
`bid_table`) and `MCTagging` (tagging, model, experiments) put several components into one run.
Those components hand each other what they make but share no variable, so that interleaving them
would show nothing that each of them alone does not: a variable `moving` says which of them a behaviour is about, the others stand still.

### SqsMessage

A message is a status and a receive count. `Received`, `Deleted` and `Returned`
are what the event source mapping does; `Returned` sends the message to the
dead-letter queue after `MaxReceive` deliveries (`maxReceiveCount`, 3 in
`template.yaml`). No step takes a message from a running invocation: every
queue's visibility timeout exceeds the timeout of the Lambda that reads it (720 s
against 120 or 300 s, 1800 s against 900 or 300 s). Concurrency comes from
repeated notifications, each a message of its own.

### ExtractPipeline

| variable | in the code |
|---|---|
| `raw`, `extracted`, `qualifications` | S3 objects under `raw/downloads/`, `extracted/`, `qualifications/` |
| `extractQ`, `llmQ` | the queues, one message per S3 notification |
| `extractPc`, `llmPc` | the line an invocation of `_process` has reached |
| `embedSent` | what arrived at the embedding queue (its consumer is `VectorStage`) |
| `dropped` | history only: hand-overs that an invocation left undone |

`ExtractReceive`, `ExtractCheck` (`object_exists`), `ExtractStore`, `ExtractForward`,
`ExtractEmbed` (whose error the handler swallows) and `ExtractAck` are the lines of
`_process` in their order; between any two of them another invocation may run or this
one die (`ExtractFail`). The three extraction handlers are the same program apart
from the extractor. The LLM Lambda has no duplicate check: `LlmStore` overwrites.
A batch size of 1 makes a delivery one message. `ExtractRedrive` and `LlmRedrive`
are an operator moving messages back.

### VectorStage

Requests of the embedding queue; each delivery may send one message to the index
queue. `EmbedRead` reads text and title, `EmbedStore` writes the vectors,
`EmbedSend` sends the key, `IndexRead` reads what is stored *now*, `IndexBulk` upserts
everything, `IndexFail` may have upserted any part of it. `SetupIndex` is the
script that has to be run once; before it the index Lambda raises. A title is a
number that grows each time the collector writes another one (`Retitle`); 0 is none.

`ListTitles`, `SelectTitles`, `WriteTitles` and `TitlesWritten` are
`backfill_title_vectors.py` run without `--limit`: it lists the curated objects, leaves out
what is written already and upserts the rest, possibly only a part before it dies
(`TitlesFail`). `calm` is history: no message was under way, and no title changed,
since the list was read.

### MergeBatch

| variable | in the code |
|---|---|
| `status`, `expected`, `verified` | columns `qual_status`, `expected_file_count`, `is_human_verified` |
| `content` | how many documents the qualification columns were merged from |
| `tagged`, `arrived` | rows of `bid_tags`, objects under `qualifications/daily/` |
| `phase`, `targets`, `seen`, `inventory` | locals of one invocation of the handler |
| `contested` | history only: bids that two batches have had in hand at a time |
| `conn` | the module-level connection a warm environment keeps: closed, ok, inside a failed transaction, or dropped by the server unnoticed |

`Work` is the handler: `Start` (`get_connection`), `SweepTags`, `SelectTargets`,
`BuildInventory`, `MergeTarget` per bid, `Finish`. The failure paths are actions
of their own because they differ: the sweep rolls back, a failed SELECT is
not rolled back and leaves the warm connection in a failed transaction
(`SelectFails`), a failing bid is rolled back and passed over (`TargetRaises`), a
failing rollback ends the batch (`RollbackFails`). `MergeTarget` includes what the
handler does with the outcome: the counter it increments has no entry for
`"pending"`. The sweep takes the newest bids without a tag (`Untagged`, `ORDER BY bid_id
DESC LIMIT`); where the tag of one of them does not fit `bid_tags.tag`, its INSERT fails
each time (`Refused`, `Untaggable`), which is no fault of the moment and has no bound. The
`LIMIT` of the merge takes any subset of the matching bids, for its query states no order.

### DailyDag

Time is in minutes. `StartRun` and `EndRun` are Airflow with `max_active_runs = 1`
and no catch-up; `Ready`, `Succeed` and `Fail` are what it does with a task,
retries and failure callback included. A retry may come any time later. One
action per task and one per way it may fail (`PlanFails`, `CollectFails`, ...)
with the effects it may have had by then; `PutManifests` writes the manifests of windows
given up, whose error the DAG swallows, so that each of them is in S3 (`marked`) or in Airflow's
log only (`onlyLogged`), and the cursor moves either way; the collector goes through its categories
one after another (`category`). A notice is curated (`curated[n].at` is the
object's `LastModified`), downloaded (`files`) and loaded (`rows`); `Recent` and
`Modified` are the two windows that select by `LastModified` inside partitions named by
day of notice, which is the reason why time and midnight are in the model. What a
successful download did not look at because it came late or after midnight is in `outside`
(`Unreached`); what a load no longer lists because its object was written after the day of the
notice is `PastMidnight`; `loadedFrom` is where the first load began that was marked.
The statistics tasks share nothing with the others; they are `HourlyStats`.

### AttachmentRules and Downloader

`AttachmentRules` has the rules that exist twice (`attachment_rules.py` and
`schema.py`) as two operators, and the selection of archive members, whose kind is found by
their content (`DetectMemberKind`). A rule yields the positions it keeps (`ApplyDedup`,
`ArchiveMembers`), and the number in an object's name is how many of them come no later
(`Number`). `Downloader` goes
through the attachments of all notices in the order of the listing (`left` are those
without a row in the manifest yet, `At(n, i)` is the next of them): the
duplicate, the cached, the protected, the plain and the archive are one action each. A name
either has a dot or not (`dotted`), which need not agree with whether it has a stem: without a dot
there is no key before the download, so that such a file is downloaded in every run (`Cached`), and
its object's extension is found by its content (`KeyExt`). An
archive is stored member by member and itself last. `correct_expected_counts`
is one action per notice at the end of a run. `AttachmentFails` and `Crash` come
between any two of these; an interrupted upload may leave an object of 0 bytes.

Assumed: runs follow one another, so that reading and writing a curated file
is one step; each run selects the same notices (which ones is `DailyDag`'s
subject); the attachments of a notice do not change under the same order number.

### HourlyStats

`StartRun` plans a window from the cursor, as `DailyDag` does; the manifest a download
writes stays behind also when the attempt fails (`DownloadFails`, `DownloadAgain`), and the
five-minute task takes the newest one since the run began
(`FindLatestDownloadManifest`). `MergeService` and `FinalizeService` go through
the services, one object each, so that a failure leaves some of them written.
`tally` and `disturbed` are history.

### DocumentText, PdfPage and Chunker

`DocumentText` starts with what a file is called and what it contains. `Dispatch` is
`dispatch` with the detection of the format; `Render` takes one paragraph after another as
the walks of `hwp_extractor.py`, `hwpx_extractor.py` and `hwpml_extractor.py` do, which
differ in what they make of boxes, headers and tables; `Register` is the numbering of
pictures with its registry; `Hwp5procDies` ends the walk of an hwp file early, at the end of a
paragraph, with `partial` set; `AddLine` is `paginate`. `ExtractItems` is what the
chunker makes of the joined pages. Words are tokens with a length: only lengths decide
where a page ends. The hwpx extractor reads sections in the order of their names, which is the
order of their numbers as long as there are fewer than eleven. Whether the words of a page
header get to the chunker differs between the formats and from the comments, so that
`DocumentReachesChunker` leaves them open; `HeadersLeftOut` states the comments (section 5).

`PdfPage` starts with the rectangles PyMuPDF finds. `StartPart` takes the page or a half of
a landscape page, `AddTable`, `AddImages` and `AddBlock` are the loops of
`pdf_extractor.py` with the grid index, the pictures in cells and the boxes, `EndPart` the
sorting from top to bottom.

`Chunker` has the real limits and real lengths of lines. Each of its actions is one turn of a loop:
`TakeItem` of `chunk`, `CutSection` and `CutSubSection` of `_split_text`, `FillWindow` and
`EndWindow` of `_sliding_window` and, for a table, of `_split_block`; `Drop`, `LookAt`,
`Absorb`, `MergeBack` and `Keep` are the loop of `_merge_short_chunks`. What a loop has still to do is in
variables (`rest`, `uncut`, `section`, `unfilled`), so that an invariant can say where each line is.

### LlmSchema, MergeLogic, QualMerge, QualificationFields

One field stands for each rule: scalars, a Boolean, objects with a key, licences with
groups, a list of names. The documents of a bid are a function from their numbers, and a merged list
holds its items by the places they come from (document, position), so that "the first
of each key" is a set of places (`FirstOfEachKey`) and no loop. `Document` (`LlmSchema`) is what `schema.py` makes of an answer:
values without evidence fall and are counted. `Merge` is `merge_qualification_documents`
of the Lambda, `MergeDocs` the merge of the backfill loader. In `QualificationFields`
answers are stored in any order (`Store`), and `ProcessTarget` merges what is there,
unless the merge raises (`Raises`).

### History, BidTable and BackfillJobs

`History`: the collector of past notices day by day with pages, retries, a budget of calls
and its exit code, and the downloader with its outcomes, the manifests by
month and its exit code. The operator goes on with the day after an exit code 0
and repeats anything else.

`BidTable`: the JSONs of two sources (daily and past), what each says of a notice, its row
and its attachments. A loader reads all rows before it writes them in one
transaction (`BuildRow`, `EndLoad`); `backfill_expected_file_count.py` (`counting`) and
`backfill_ntce_kind_nm.py` (`naming`) read, compute and write in three steps. The former takes
the first open daily rows by `bid_id` up to its `--limit` (`CountTargets`, `CountLimit`, 300 if
not given), whatever earlier runs have settled.
`AdvanceFile` is the progress of an attachment, which code outside the repository sets (the merge, by the comments of the loader).

`BackfillJobs`: `Slots` are jobs that may run at a time, each with a stage. A manifest is
written from what is there (`StartJob`); a task looks, works and stores, and
S3 Batch repeats what failed temporarily. The loader keeps a local copy of what it read
and writes in batches; a person may verify a row in between. What fails whatever is tried is in
`hopeless`, fixed at the start: files no extractor reads, texts the model refuses or answers
against the schema (at temperature 0, so on every repeat), and sets of documents whose merge or UPDATE
raises. `Reject` and `LoadStops` are what becomes of them; they need no fault and have no bound.
`FailPermanently`, `FailTemporarily` and `LoadFails` are what goes wrong once.

### Tagging and ModelSelection

`Tagging`: `Decide` is `decide_tag` with all its rules; `SweepDecides` and `SweepWrites`
are the two halves of the sweep, `RetagReads` and `RetagWrites` those of
`retag_all.py`, a batch at a time. The rows, codes, models and thresholds change in
between. A confidence has one digit more than the column it is stored in.

`ModelSelection`: the programs of `clustering/` each read `bid_table` anew, while notices get
codes and lose them. `Groups` is the union of notices by title and number (`Joined` is one pass of
`build_groups`, row after row as a recursive function; `Chains` is what the groups are meant to be), `Test` and `Pool` the
split over time. `RankRepresentations` takes a stored ranking as it is; `SaveBest` runs over all
outcomes the scores may have, and where the best setting of a classifier is at an end of `C_GRID`
takes the values past it in (`Past`, `Extension`); what scored better past the end a
saved setting is at is `PassedOver`; `Evaluate`, `Rolling` and `Attribution` are
`24_evaluate.py`; `Export`, `Verify`, `PickThresholds`, `CopyWeights` and
`CopyVocabulary` are `25_deploy.py`. Each program may die between any two of its steps.

`TagExperiments`: `14_hparam_search.py` (`SearchLoad`, `SearchGrid`, `SearchRecord`),
`15_tuning_gain_breakdown.py` (`BreakdownLoad`, `BreakdownRecord`), `11_llm_title_tagging.py`
(`LabelLoad`, one `Ask`, `AskAgain` or `AskGivesUp` per call, `LabelSave`, `LabelRecord`) and
`16_recover_llm_metrics.py` (`Recover`) share `grid`, `predictions` and `metrics`, while rows gain and
lose their code. The split by titles is in the model, with its fixed seed; what a setting
scores is given by the rows it is tried on.

### StatusReport

The left half are the Lambdas as the report sees them (`Upload`, `Deliver`, `StoreText`,
`StartLlm`, `StoreFields`, each with what it logs). `ListRawFiles`, `HeadText`, `Classify`,
`FetchLogs` and `EndReport` are the report: text and qualifications of a file are
looked at in two requests, its logs in a third. `logs` are sets of events with their times: the
report looks for the existence and the time of an event, never for how often it came.

## 3. The runs

All constants are given in the `.cfg`; sets and functions they name are in
the `MC` module. State counts are distinct states.

| run | states | properties | question |
|---|---|---|---|
| `extract_stage` | 614,392 | `NothingVanishes`, `EmbeddingAccounted`, `ImplementsProgress`, `EventuallySettled` | Is every uploaded document accounted for on both branches, whatever fails and however often S3 repeats a notification, and does it settle? |
| `extract_acked` | violation | `AckedWasForwarded` | Once nothing is in transit, does an acknowledged message stand for a document that was forwarded? |
| `vector_stage` | 114,156 | `NothingLost`, `TitlesRepaired`, `EventuallySettled` | Does a partly rejected bulk request or a missing index ever pass for success, and does the title backfill repair titles? |
| `merge_batch` | 561,760 | `StatusBacked`, `ProtectedStays`, `OnlyZeroEndsBatch`, `ImplementsBidRow`, `CompleteRowsMerge`, `EveryBidTagged` | Do batches one after another only add to rows, what ends a batch for the bids behind, and is what can be finished and tagged finished and tagged? |
| `merge_zero` | violation | `FailureIsolated` | Does one bid's failure spare the other targets, as the handler's docstring says, when an estimate is 0? |
| `dag_windows` | 12,351,753 | `CursorsCover`, `DeliveredInTime` | Do the cursors pass only what was done or left out for a cause that can be named, and is a notice delivered within a bounded time when a retry succeeds? |
| `download_runs` | 175,484 | `StoredMeansStored`, `CountTrusted`, `EventuallyStored` | Are archives and expected counts right after any interruption? |
| `documents` | 1,283,062 | `DocumentReachesChunker`, `PageReachesText`, `ChunksHoldDocument`, `RowIsTrue`, `GoneOnIsComplete`, `LaterDocumentsAdd` | From its bytes to chunks and to fields: is anything of a document lost, doubled or invented? And does exit code 0 of the programs over past notices mean that nothing is left behind? |
| `fields_licenses` | violation | `LicensesKeepMeaning` | Do merged licences ask for what the documents ask for? |
| `monitoring` | 4,878,550 | `NeverCountedTwice`, `ServicesAgree`, `QuietHourFinal`, `ReportTrue`, `LoadedValuesStay`, `CountsRepaired`, `AttachmentsFollow` | Can the statistics and the status report be believed while what they count and look at goes on, and do loads and corrections of `bid_table` keep each other's work? |
| `backfill_jobs` | 310,123 | `StoredOncePerSlot`, `VerifiedRowsStay`, `EventuallyLoaded` | Is a document paid for once per job, and what does repeating the programs load, and what never? |
| `tagging` | 4,568,770 | `ExperimentsHold`, `Rejudged`, `RetagSettles`, `TestIsFair`, `EndsExplored`, `InstalledTogether` | Do tags follow rules and thresholds, is the model behind them chosen, measured and installed as its authors mean it, and can the experiments it came from be believed? |

### Bounds, and why they are enough

**Text stage.** Two documents and three notifications: a document announced
twice, so that two messages about it interleave in both Lambdas, and a
document no extractor can read, which takes the dead-letter path.
Documents share nothing, so that a third adds no behaviour. `MaxReceive = 2`
(3 in `template.yaml`) has a delivery that is retried and one that is the last.
Failures need no bound: every one uses up a delivery. For all values, see section 4.

**Vector stage.** One attachment of no, one or two chunks, one request of two deliveries: a
second delivery can send a second message to the index queue, which is all the
duplication there is, and the two may carry different titles. Two titles, for one
that is replaced. The theorems hold for any number of all of them.

**Merge batch.** Two bids. The second fails in every batch and cannot be tagged
(`Poisoned`, `Untaggable`), to see that the other gets through; the first is the newer one, so that
a sweep that is stuck with the second has to get through when the first is loaded. `MaxTags = 1` makes the sweep
leave something to the next batch. Estimates of 0 and 2 with
`MaxDocs = 3`: a row may be pending, partial and merged with a document to spare, and end the
batch. `MaxFaults = 2` are needed for a failed SELECT that leaves a failed transaction and a
failure of the batch that inherits it. One batch at a time; batches that overlap are covered by the
theorems, the refinement among them. `merge_zero` has neither faults nor bids that fail for
another reason, so that its counterexample is the estimate of 0.

**DAG.** A period and a collection window of a minute, a download window and a gap threshold
of two stand for the 5, 5, 15 and 30 minutes of the code; `Lookback` is 1, as in the code. A day
has four minutes, so that nine of them hold two midnights. A run may start a minute late and last
two, which is as long as the download window: attempts that come too late for their
window happen, and runs that are skipped, and gaps below and above the threshold. Two failed attempts exhaust
`Retries = 1`; two categories let a run fail between them. The notice is published by minute 3 and
what follows a second failed attempt is followed to minute 6 (`EarlyEnough`). `DeliveredInTime` speaks of
behaviours with at most `Retries` faults, and its deadline of 9 is met by a notice of minute 0.
The theorems have no such limits.

**Downloader.** Every list of one or two attachments out of twenty-three kinds (plain,
archive, protected or without URL; six names, two of them the same document
in two formats, one an archive's, one that begins with its dot, one without any dot and one empty), the
lists of three whose rules depend on one another, and a second notice beside, to see that failures do
not spread. The archive has seven members of which the selection drops some: two
formats of a name, two nobody can read, and one more than `MaxMembers = 2`
allows. Two failures: one leaves an object of 0 bytes or half an archive, another
interrupts the repair.

**Documents.** Hangul documents of up to three paragraphs, in which tables, boxes, headers
and pictures are nested two deep, of each format and of none, under either extension; lengths around `PageChars`.
PDF pages with one or two tables, merged and missed cells, pictures in and beside them, a box, a
landscape page. Texts of up to four items for the chunker, whose lines have lengths around
`MaxChars`, `MaxTokens` and `MinTokens`. Two or three answers that differ in one field at a time,
for merging goes field by field; every order of arrival. Past notices: three days in two months, one
with a second page, a notice without a page, an attachment that is dropped; three failures
exhaust `MAX_RETRY`, a budget of 4 calls ends a run early.

**Monitoring.** Hours of two windows, for one that is merged first and one that finalises;
One service beside "all"; `MaxTime` has two hours and the time in which a late run can reopen the first. Two faults
leave a service behind in one run and meet the repair of the next. The report: four files (two of them
under one key, one of the backfill, one of a wrong name), two of which are written; a
stall threshold of 1 in a clock of 2 has files on both sides of it, and one that crosses it meanwhile.

Rows: one notice in three versions, of which the second has a file more and the third has
lost its first file and its order number; two loads overlap each other and both corrections. A second
notice is there to be counted: with `CountLimit = 1` the correction takes one of the two and leaves
the other as it is. What else might happen to it is cut off (`SecondOnlyCounted`), for rows share
nothing but the limit.

**Backfill.** Three documents of two bids, two of them from earlier jobs; six cases of
what fails for ever (`Troubles`): nothing, the new document at either stage, two older ones that
stay before it in every manifest, the merge of either bid. A text job and two overlapping
qualification jobs; batches of one row, so that a load stops in the middle; one fault beside.

**Tagging.** A service, an item bought abroad and a building work; two models, two sets of
thresholds that cross, a confidence the column rounds up to a threshold; batches of two of three
notices. Four notices with codes: two linked by title, two by number, so that a chain leads
over the border between pool and test set, and one whose title normalises to nothing; two saves, one
lost code; two folds, two thresholds and two targets; scores up to 2 give every order of settings,
ties and a failed fold; values past either end of the grid.
Experiments: nine notices with five titles, one of which loses and regains its code; as it
comes, titles move between the three parts of the split. Two settings, which tie on one state
of the rows; two language models, samples and examples of three titles, calls of two titles and two
attempts, so that a call fails before and after one that does not; old files of two sizes, one of
them overwritten; two lines of `metrics.jsonl`, for the properties relate two.

### Fairness

| specification | assumed | because |
|---|---|---|
| `ExtractPipeline!FairSpec` | weak fairness of `ExtractLambda(n)` and `LlmLambda(n)` per message | SQS offers a visible message again until it is deleted or moved, and an invocation ends within its timeout |
| `VectorStage!FairSpec` | weak fairness of `EmbedLambda(r) \/ EmbedFail(r)` and the same per index message | the same; the disjunction has an invocation end without promising that it ends well |
| `MergeBatch!FairSpec` | weak fairness of `Work(e)` | EventBridge starts the Lambda every 5 minutes; faults of the moment are bounded by `MaxFaults` and owe nothing, a bid or a tag that always fails is part of `Work` |
| `Downloader!FairSpec` | weak fairness of `StartRun` and `RunStep` | the DAG starts every 5 minutes |
| `BackfillJobs!Spec` | weak fairness of tasks, the loader's steps and arrivals; strong fairness of starting a job, with the manifest of each format and with that of the pending texts without a limit | S3 Batch works through its manifest; that files arrive and that the operator repeats manifests, jobs and loads until nothing is left is an assumption about people, and `EventuallyLoaded` says what it buys |
| `DailyDag` | none | deadlines are minutes: `DeliveredInTime` is a safety property of the clock |
| all others | none | their properties are safety properties |

In the first four nothing makes S3 upload, a person verify, an operator redrive or a
fault happen.

Deadlock is checked in the downloader's run. Elsewhere the system may stop (every
message deleted or dead, every bid merged, a document done) or the clock reaches its bound.

## 4. The proofs

`tlapm` checks every step. What the theorems rest on besides are the `ASSUME`s on constants, which
TLC evaluates in the runs, and where a theorem needs more, its own hypothesis, named in this section.
The `ASSUME`s give types and say:

| module | assumption beyond types |
|---|---|
| `SqsMessage` | `MaxReceive` is positive |
| `MergeBatch` | the limits of the queries are positive; estimates lie between 0 and `MaxDocs`; bids differ in their `bid_id` |
| `DailyDag` | the collection window is not longer than the gap threshold |
| `AttachmentRules`, `Downloader` | `MAX_MEMBERS` is positive; attachments are lists, archives list their members, a notice is listed once, a name without a dot has no extension |
| `BackfillJobs` | the number of jobs at a time is finite; a document belongs to one bid |
| `BidTable` | the limit of the count script is positive; bids are numbers |
| `HourlyStats` | the period divides the hour and is, like the collection window, within the gap threshold; "all" is a service |
| `QualificationFields` | answers are numbered, finitely many, their lists are sequences; a value that is no null has a length in JSON |
| `Chunker` | the lines of a document are numbered as they stand in it; `OVERLAP_LINES` is positive (0 would repeat the whole window: `current[-0:]`); the value for "none" is no chunk |
| `StatusReport` | the threshold for a stopped file is a number |
| `History` | days have a finite number of pages; an attachment belongs to one notice |
| `Tagging` | notices are finitely many; confidences and thresholds are numbers, batches not empty |
| `ModelSelection` | rows are finitely many numbers; scores are bounded numbers, thresholds and targets numbers; the grid has two ends, and the values past them are not in it; the value for "none" is neither a threshold nor a file |
| `TagExperiments` | rows are finitely many numbers; for each size of a set there is one shuffle, a permutation; each tag is listed once, among them `Other` and all of the table; finitely many settings are best; a batch is not empty |

Where the number of faults has a bound at all it is a constant of any value.

### ExtractPipelineProofs

For every set of documents and notifications, every `maxReceiveCount`, and
any number of failures and redrives:

| theorem | states |
|---|---|
| `TypeCorrect` | `Spec => []TypeOK` |
| `NothingVanishesHolds` | `Spec => []NothingVanishes` |
| `EmbeddingAccountedHolds` | `Spec => []EmbeddingAccounted` |
| `Refinement` | `Spec => ImplementsProgress` |

`NothingVanishes` is not inductive: it does not say why a document whose last
message is deleted has qualifications. `IInv` adds what each line of `_process` may
rely on. `ExtractRuns` and `LlmRuns` tie the line an invocation has reached to
its message being in flight; `RawAnnounced`, `TextBehind` and
`QualificationsBehind` say that what is stored has a message or an invocation that
stands for it; `Nested` that later stages contain earlier ones; `DeliveriesLeft`
that a message can be delivered only while deliveries remain; `SentOnce` that a
message about to be sent has not been sent. The heart is `HandedOn`: a stored text
was handed to the LLM queue, is about to be, or the invocation that stored it died
(`"llm" \in dropped[d]`). The check `object_exists` skips a document because of
*another* invocation's put, so that the part must speak about all messages of a
document at once. `InitIInv` and `StepIInv` (one step per action) give
`Invariance`; the other theorems follow from it, `Refinement` with `StageMoves`,
which reduces a step of the stage map to what happened to the three sets.

The disjunct `"llm" \in dropped[d]` is not vacuous: `extract_acked` shows the state
in which it alone holds, with nothing in transit: a crash between `ExtractStore` and
`ExtractForward`, and a redelivery that skips. The theorem says that this is the *only* way to
lose a document.

### VectorStageProofs

For every set of documents, bids and requests, any number of chunks and titles, every
`maxReceiveCount`, and the title backfill run at any moment and any number of times:

| theorem | states |
|---|---|
| `TypeCorrect` | `Spec => []TypeOK` |
| `MessagesHaveVectorsHolds` | `Spec => []MessagesHaveVectors`: whoever holds an indexing message finds its vectors |
| `NothingLostHolds` | `Spec => []NothingLost` |
| `TitlesRepairedHolds` | `Spec => []TitlesRepaired` |

`IInv` has four parts. `Bookkeeping` ties invocations to messages: `DeliveriesLeft`, `Runs`, and
`SlotsFree`, by which a delivery that has still to send finds its place in the index queue
empty. `Owing` says which message answers for what is missing: `StoredBehind` for vectors
not sent, `MessagesHaveVectors`, `RequestKept` for a request not finished, `BodyKept` and
`TitleKept` for OpenSearch documents not written, `TitlesKnown` that a title once read does exist.
`CalmWork` is the argument for the backfill: while it is calm no Lambda holds a title, so that
what the script has read stays the newest. `NothingLost` needs `Owing` because a partly
rejected bulk request leaves a document that is neither searchable nor untouched: only the
message that returns to the queue explains it.

What both stages use about a message is the lemma `MessageSteps` at the head of either proof.

### MergeProofs

*Batches.* For any number of bids and of batches, overlapping or not, any estimates (0 included), bids
that always fail and tags that never fit; no theorem has a hypothesis of its own:

| theorem | states | from |
|---|---|---|
| `TypeCorrect`, `StatusBackedHolds` | `Spec => []TypeOK`, `Spec => []StatusBacked` | `BaseInv` |
| `ProtectedStaysHolds` | `Spec => ProtectedStays` | `BaseInv` |
| `OnlyZeroEndsBatchHolds` | `Spec => OnlyZeroEndsBatch` | `BaseInv` |
| `Refinement` | `Spec => ImplementsBidRow`: rows only gain documents, merged is final, until two batches have had the bid in hand at a time | `BaseInv`, `RowInv` |

`BaseInv` adds to `StatusBacked` what makes it inductive: `InventoryBehind` (a listing is never ahead of
S3), `Listed` (a bid being merged was listed with a document) and `Waiting` (a batch that is idle
holds nothing). `OnlyZeroEndsBatch` is about a step: a target leaves a batch because it was written,
failed by itself or needs nothing, or because the batch ended; `StepIsolated` shows it, with
`PendingMeansZero` for the one outcome that has no counter: with a document listed only an estimate
of 0 as the batch has *seen* it gives `"pending"`.

`RowInv` is about bids that are not `contested`: `Alone` (one batch at most has it in hand), `TargetsOpen` and
`TargetsBehind` (it is still incomplete and holds no more documents than the listing). For a contested bid
the refinement promises nothing, and cannot: a batch with an old listing takes a merged row back
to partial. The code does not exclude that: the Lambda's timeout (300 s) equals the rate of its schedule, no
concurrency limit or lock keeps a second invocation out, and EventBridge may deliver an event twice.
`BidRow` therefore has `contested` as part of its state. A failed invocation is not
repeated (`MaximumRetryAttempts: 0`).

*Fields.* For any answers of the language model, any number of documents and any order of arrival:

| theorem | states |
|---|---|
| `RowIsTrueHolds` | `FieldsSpec => []RowIsTrue` |
| `LaterDocumentsAddHolds` | `FieldsSpec => LaterDocumentsAdd` |

`FieldsInv` says that a row is the merge of documents that are stored and do not raise. The rest is about
the operators: of finitely many places the first with a key exists (`FirstKept`, from the
well-foundedness of the natural numbers), so that of every object one with its key is kept (`ObjectsKept`) and one
that differs is a conflict (`ObjectsMissed`). `~Raises` is needed there: an item that is no object has the key
of an object whose key is such an item. A merge of more documents is compared with one of fewer in
`MoreDocuments`. For the loader, a scalar that `schema.py` lets through has evidence (`ValueHasEvidence`), so
that its rule "evidence first" chooses among all; and a document that fills the award line is among the best by
`BestExists`: finitely many documents compared two by two have one that no other beats.

*Chunks.* For any document, any lengths of its lines, headers anywhere, and any limits:

| theorem | states |
|---|---|
| `ChunksHoldDocumentHolds` | `ChunkSpec => []ChunksHoldDocument` |

`ChunksHoldDocument` speaks of the end only. `ChunkInv` says the same on the way: `Placed` that each line is
in the document still, in what is left of an item, in a chunk, in what is merged, or dropped; `ToBeCut` that what is
cut later stands behind what is cut; `Follows` how a chunk stands to one after it: rows are behind all
before them, and of text, what goes back behind a line of the earlier chunk is in that chunk, as an
overlap is (`Known`). That is what the merging needs, for whichever way a short chunk goes, over a table or not, its lines
come at the end of those of its type (`LinesOfMore`, `LinesOfJoined`): `NextGoesOn` shows by `ChunkBehind` and
`RowsBehind` that they may. `LinesOf`, a recursive function over positions, is followed by induction over numbers
(`CollectedIs`, `SameUpTo`, `LinesAre`); `strip()` and the cuts before headers by the least and the greatest of finitely many
positions (`StripIs`, `CutInTwo`).

### DailyDagProofs

For any notices, categories, retries and faults, any minutes of the constants, runs of any length and
any number of midnights:

| theorem | assumes | states |
|---|---|---|
| `TypeCorrect` | - | `Spec => []TypeOK` |
| `CursorCoversHolds` | `CursorSet` | `Spec => []CursorCovers` |
| `CursorsCoverHolds` | `CursorSet` | `Spec => []CursorsCover` |
| `DeliveredInTimeHolds` | `CursorSet`, `Reach + Gap + 2 * RunLimit < Deadline` | `Spec => []DeliveredInTime` |

`CursorSet`: Airflow has the collection cursor; a first run without it starts at its own window. The RDS cursor
may be missing. That nothing in the code bounds the length of a run, that a download may come after midnight and
that S3 may refuse a manifest are in the model, and the properties name what becomes of a notice
then: `LeftOut` is what a manifest names, what only the log names, and what a late download did not look
at; `PastMidnight` and `loadedFrom` what a load does not list. The theorems say that there is no other cause.

`Base` (types, `Clock`, `InRun`) says that all times lie behind the clock and how far a run can be when
a task has succeeded. `Covering` is what the collection cursor needs: everything before it is `Covered` (done or
`LeftOut`), everything of the plan's window is *written* as soon as the collector has succeeded (`WindowWritten`)
and downloaded or `outside` as soon as the downloader has. It holds because an object is never moved or removed,
and a window that starts at a cursor begins where the last one ended (`PlanIs`). That the downloader sees what the
collector has written, though it selects by `LastModified` and counts its window from its own start, unless it comes so
late that `Unreached` says otherwise, is `InReach`. `ManifestsPut` is the only thing that is used about
`PutManifests`: each window given up is in `marked` or in `onlyLogged`. `Loading` is the same for the RDS
cursor, from `Begin` on, where the first load that was marked began.
`Timely` counts minutes: a notice that is owed is either in a run's window (`InHand`) or behind
a cursor that is at most `Gap` old (`Pace`); with no more faults than retries no run fails, so that it is
delivered by this run or the next (`Late`). The deadline is the sum of the longest times from a window to its run
(`Reach`), from a cursor to the next run (`Gap`) and of two runs (`RunLimit`, which the theorem takes as given
and no timeout enforces).

### DownloaderProofs

For any notices, lists of attachments, archives and `MAX_MEMBERS`, any number of failures and crashes:

| theorem | states |
|---|---|
| `Invariance` | `Spec => []DownloadInv` |
| `StoredMeansStoredHolds` | `Spec => []StoredMeansStored`: archives are whole, and success means every document is there |
| `CountTrustedHolds` | `Spec => []CountTrusted`: a count is the estimate or the final number, both copies of the rules agree, and a successful run has made it the final number of every notice something can be stored of |

`DownloadInv` has, besides the state's shape: `ObjectsNamed`, every object is one an attachment leads
to (so that nothing but an archive is found under an archive's name); `ArchivesWhole`; `Unpacking`,
the members before the next one are stored; `RowsTrue`, a manifest row that is no failure has its documents in S3; `Counts`,
by which a notice whose rows are all of skipped attachments has nothing that could be stored (`RowsTell`), and one
behind the correction, unless the script leaves it alone, has its final number (`CorrectedBefore`), with
`CountNeverPartial`; `Ends`, what a finished run may claim, `EstimateSettled` included. The part that is not
bookkeeping is about names: `DocumentKeys` shows that no two attachments, no two members, and no
attachment and member share an object's name, from `Numbers`, by which the positions of a finite set are
numbered without repetition. `EstimateCounts` proves the two copies of the rules equal by a bijection
between what each keeps.

### BackfillJobsProofs

| theorem | states |
|---|---|
| `Invariance`, `TypeCorrect` | the inductive invariant and the types |
| `StoredOncePerSlotHolds` | `Spec => []StoredOncePerSlot`: a document is stored at most once per job that runs at a time |
| `VerifiedRowsStayHolds` | `Spec => VerifiedRowsStay`: no loader writes a verified row |

The count is bounded by `Budget`: the writes so far and the jobs that have looked and found nothing
(`Writers`) are together no more than the jobs there may be; a write takes one
from the latter, and a job looks again only after something is stored (`WrittenIsStored`).

### MonitoringProofs

| theorem | states |
|---|---|
| `TypeCorrect` | `Spec => []TypeOK` of `HourlyStats` |
| `CountedOnce` | `Spec => []NeverCountedTwice` |
| `QuietHourHolds` | `Spec => []QuietHourFinal` |
| `ServicesAgreeHolds` | `Spec => []ServicesAgree` |
| `ReportTrueHolds` | `ReportSpec => []ReportTrue` |

`NeverCountedTwice` needs `Tallied`: what an hour's object holds and what the window just
finished still owes it (`Due`) are together no more than the manifests ever said (`tally`). For `QuietHourFinal` the invariant
`Quiet` follows an undisturbed hour from window to window: `SeenWindows` which are merged, `MergedSoFar` and
`Closed` how far the loops over the services have come; the windows' arithmetic (`HourOf`, multiples of
the period) is in lemmas. `ServicesAgree` compares "all" with a sum, a fold over a finite set: `SumAdds`
shows by induction over finite sets what a fold does when one number grows. `ReportInv` says for each
variable of the report which moment it is true of (`HeadTrue`, `AllStatusesTrue`, `TracesTrue`), with
`LookedAt` and `Complete` for which files it has covered; `LambdasStep` shows that the Lambdas only go
`Onward`, so that what was true of a moment stays so.

### NoticeProofs

| theorem | states |
|---|---|
| `GoneOnIsCompleteHolds` | `Spec => []GoneOnIsComplete` of `History` |
| `LoadedValuesStayHolds`, `CountsRepairedHolds`, `AttachmentsFollowHolds` | the three properties of `BidTable` |
| `TypeCorrect`, `RejudgedHolds`, `RetagSettlesHolds` | `Tagging`: types, stored guesses judged anew, what a retagging leaves behind |
| `EndsExploredHolds`, `InstalledTogetherHolds` | `ModelSelection`: nothing past the end a saved setting is at was left untried or scored better, the installed files belong together |
| `TestIsFairHolds` | `ModelSelection`: a model is judged, and its thresholds are picked, by what is linked to nothing it has learned |
| `ExperimentsHoldHolds` | `TagExperiments`: the experiments measure what they have not seen, repeat each other and keep their predictions |

`HistoryInv`: every day before the one a run is at is complete unless a page failed (`Collected`); an outcome is what
became of the attachment (`OutcomesTrue`); what exit code 0 has passed is stored or in a manifest (`NothingSkipped`).
`TableInv`: a correction under way knows of each row what it read (`CountsKnown`, `NewAreCounted`), and a row's attachments
come from the JSON of the row (`RowHasFiles`). `CountsRepaired` speaks of a correction that was alone and of the
rows its limit takes, whatever the limit, so that `CountsKnown` has
to carry what follows from that from the SELECT to the end. Of `Tagging`, `RoundingKeepsSide` is the arithmetic behind
`Rejudged`: rounding to the column's digits never carries a confidence over a threshold that has
those digits, it may only reach it. `Settling` says of a retagging what is written, read or still to come; a batch
of the size asked for exists by `SubsetOfSize`. `NonePassedOver` is about the second round of the
search: a setting that is saved at an end of the grid, being best of all, was best of its classifier before, so that C was
taken past that end (`PastTheGrid`), and what was found there is among the candidates;
`Installing` says which files may be of different models at which step.

*The fair test.* The largest proof, for it needs what union-find computes. The parents are a `Forest`, in which each row
hangs under a smaller one, so that a root is found by recursion over numbers (`FindExists`, `FindUnique`, `RootIs`) and a
union joins two trees and no others (`UnionIs`, `UnionJoins`). One pass puts rows of one key under one root and joins no
rows that are not of one key (`JoinedIs`); two passes give `GroupsAre`: rows alike are in one group, and a group lies
inside or outside whatever set is closed under being alike. From that `ChainsAre`: the groups are the chains of titles and
numbers. `SidesApart` and `OldPoolUnseen` compare the splits of two moments: a test row that is chained to a row of an older
pool was not in a group with it then, which only a notice that has lost its code since explains. The invariant is
`LearnedOld`: whatever a model has learned from, or was ranked on, was the pool of some rows that are coded still or were
lost. `TestIsFair` alone is not inductive, for it says nothing of a model before it is evaluated. `PicksInOrder`
is the arithmetic of the thresholds: a higher target leaves fewer candidates, so that the least of them is not smaller.

*The experiments.* `ExpInv` says of each line of `metrics.jsonl` which program wrote it and from which rows (`SearchLine`,
`BreakdownLine`, `LabelLine`, `RecoveredLine`), of each file whose answers it holds (`FileOK`), and of a labelling
under way that its answers are about its titles (`IsLabelling`) and that what is to be recorded is saved (`Saved`). That
sides share no title is `PartsApart`, for any shuffle; that a sample has no gaps, `ShuffledOnce`: a permutation
of finitely many places takes each. `TagsShown` is a counting argument (`OneEachAtMost`): if a tag with rows had no turn, no
other would have had a second, and fewer examples would have been shown than there are tags.

### Only model-checked

- Liveness (`EventuallySettled` of both stages, `CompleteRowsMerge`, `EveryBidTagged`, `EventuallyStored`,
  `EventuallyLoaded`): fairness and `ENABLED` are beyond the proof system.
- `DocumentReachesChunker`, `PageReachesText`: walks over trees and folds over lists whose results
  are compared with a recursive reference. That would need induction over data with an operator as a
  parameter. Numbers and finite sets are the exception: the library's induction over natural numbers in its set
  form gives `NumberInduction`, which carries the proof about the chunks, and `SetInduction`, which the proofs about sums use.

## 5. What the checks found

| run | property | where | what |
|---|---|---|---|
| `extract_acked` | `AckedWasForwarded` | `realtime/handlers/extract_pdf.py:37` (hwp, hwpx alike) | A crash after the text is stored and before it is sent: the redelivery finds the text, takes the document for processed, as the comment on line 36 says, and acknowledges. Nothing is in transit any more, and it has not reached the LLM queue. |
| `merge_zero` | `FailureIsolated` | `realtime/handlers/merge_qualifications.py:121` | A bid with documents and `expected_file_count` 0 comes out as `"pending"`, for which `counts` has no entry; the `KeyError` ends the batch for the targets behind it, although the docstring on lines 10-11 promises that one bid does not stop the others. The bid is selected again by the next batch. `OnlyZeroEndsBatch` says that nothing else does this. |
| `fields_licenses` | `LicensesKeepMeaning` | `realtime/merge/logic.py:228` | One item is kept per name and code: where one document asks for licence A and another for A or B, the row asks for A and B, against the meaning of `or_group` in `realtime/extractors/llm/schema.py:27`. |

`PROJECT.json` quotes the lines that say otherwise.

The same models show more disagreements, which no run repeats:

| to see it | property | where | what |
|---|---|---|---|
| `Downloader` as it is | `SkippedNotExpected` | `ingestion/json_file_download_daily.py:417` | A notice with nothing but protected documents keeps its estimate and stays open for good; the test at `tests/test_ingestion_archive.py:346` asks for the contrary, and tries it only beside a stored document. `EstimateSettled` therefore speaks of notices of which something can be stored. |
| `DocumentText` as it is | `HeadersLeftOut` | `parsing/hwp_hwpx/hwpx_extractor.py`, `hwp_extractor.py` | The comment at `hwpml_extractor.py:23-25` says that the extractors of hwp and hwpx do not put page headers into the body either, and the one at `hwp_extractor.py:201` that only top-level paragraphs are taken; neither extractor has a list of elements to skip, and both walk into headers. |
| `HourlyStats` with `Lateness = 1`, `MaxFaults = 0` | `PassedHourFinal` | `ingestion/daily_stats.py:364` | Only a run whose window ends at minute 0 makes an hour final; when that run is late, its window ends later and the hour stays open, against the comment on lines 362-363. |
| `TagExperiments` as it is | `ChosenUnseen` | `clustering/15_tuning_gain_breakdown.py:74` | The best setting is read from a grid of an earlier day, the split is made from today's rows: a title that chose the setting may be tested, against `clustering/14_hparam_search.py:17`, which keeps Test unseen. |
| `TagExperiments` as it is | `HandOfSameModel` | `clustering/16_recover_llm_metrics.py:56` | Results copied by hand go by the number of examples, so that those of the first model are compared with every model's file; line 32 rules that out for the one file it names. |
| `Chunker` as it is | `OnlyLongLinesOver` | `realtime/embedding/chunker.py:313` | A section of 769 characters counts as 512 tokens and passes although it has several lines; the docstring on lines 83-87 says that only a single long line can be over the limit. |

And by reading: the docstring at `clustering/23_search.py:15-16` takes settings within one standard deviation for
ties and the simpler of them for the winner, while `fit_and_save_final` takes the first row of the sorted
results. The model has what the code does; deviations are not in it.

## 6. Limits

What more the models show, or reading for them has shown:

*Text and vector stage*
- Two notifications may forward a document twice; the second LLM answer overwrites
  the first.
- A document cut into fewer chunks than before leaves the surplus chunks of its earlier
  text in the index. A slow delivery can put an older title over a newer one until the
  title backfill is run.

*Documents*
- hwp walks boxes and headers twice, so their words and pictures come twice; hwpml drops
  text under elements it does not know. Page headers: section 5.
- `paginate` keeps a table whole only if it holds no other: the inner `[/표]` ends
  `in_table`, and the chunker's pattern ends an outer table at the inner close. No word is lost;
  `TablesStayWhole` speaks of tables without tables.
- A picture that overlaps a table in a PDF with its centre in no cell is lost in silence; a picture
  over the middle of a landscape page appears in both halves.

*Fields, rows and tags*
- `award_cutline` may take its type and its value from different documents
  (`MergersAgree` leaves it out of the comparison where documents differ).
- `or_group` 0 of a later document falls on the largest group before it; an evidence item
  without `"field"` passes `schema.py` and raises in the merge; a list in an unchecked scalar too.
- A row a person verifies between the SELECT and the UPDATE of a batch is
  overwritten, for the UPDATE does not look (history variable
  `overwritten`; this is why `ProtectedStays` speaks of rows no batch holds).
- One curated JSON without `bid_ntce_ord` makes `build_bid_row` raise
  (`load_curated_backfill_to_rds.py:222-228`): the whole daily load fails and its cursor stays until
  the JSON is gone. An upsert sets columns an older JSON lacks to NULL.
- `bid_attachments` are numbered by position: an attachment inserted before others shifts them while
  their status stays. `has_failed_attachment` can never be true, as `merge/db.py:99` says itself.
- An earlier decided, later written tag replaces a newer one; the sweep never takes a tagged
  notice again, so that codes a merge finds later count only after `retag_all.py`. One
  `main_cnstty_nm` of more than 50 characters makes a sweep fail, and the next, which selects it again
  as long as no newer bids fill the limit (`Refused`): the bids behind it get no tag, and `EveryBidTagged` makes
  that exception.
- `backfill_expected_file_count.py` takes the first 300 open daily rows by `bid_id` unless `--limit` says
  otherwise, settled ones included: the rows behind are corrected by no run as long as those stay open.
  `CountsRepaired` speaks of the rows the limit takes.
- The loader of past notices has `--attachment-limit`, off by default, which cuts the list of attachment rows of all
  notices at a number: then a row is written without all of its attachments, and `AttachmentsFollow` does not
  hold. It is not in the model.
- A bid whose merge raises, or whose UPDATE does with a value longer than its column (`region_basis`), stops
  `load_qualifications.py` at its batch, and so does the next load: the bids behind it are not loaded until somebody
  removes the cause (`HeldUp`, an exception of `EventuallyLoaded`). A text the model refuses, or answers against the
  schema at temperature 0, is tried in every job and never loaded (`hopeless`).

*Statistics, report and model*
- Each failed attempt of a download writes its manifest before it raises; the search takes the newest
  one since the run began, so that an attempt counts instead of its run, never twice.
- The report calls a file stopped after thirty minutes, as the LLM "times out after 3 minutes"
  (`pipeline_status.py:9-12`); `template.yaml` has 900 s and three deliveries 1800 s
  apart, so that such a file may be between attempts. A query not over after 20 looks counts as empty, and
  "no trace in the logs" may then be wrong (`givenUp`). Two attachments of one name with
  different extensions share a key: the second is skipped as a duplicate, and both are
  reported as qualified. A name that does not begin with its bid ends the report.
- The report of causes in `24_evaluate.py` can only say "unseen title" (`WrongIsUnseen`;
  `results_evaluate.txt` has 0, 118 and 0). The extension of the grid compares with `C_GRID`, so that
  LogReg's own lower end (0.3; `C_GRID` begins at 0.1) is never extended. A stored ranking is used on whatever rows there are now.
  The accuracy of the threshold curve need not grow with the threshold: a picked threshold
  reaches its target, a higher one may not. `THRESHOLD` is edited by hand after the installation.
  A program that dies between the two copies leaves a mixed pair, which `InstalledTogether` allows (`torn`) until
  the next complete installation.

*DAG and counts*
- Where the loader writes another estimate, a row may be merged against one that the downloader raises a
  moment later.
- `put_gap_manifest` swallows an error of S3 and the cursor moves all the same: the window is named in Airflow's log
  only (`onlyLogged`), and no program reads that.
- The download window is counted from the start of the attempt. An attempt that begins so late that its window lies behind the
  plan's sees no curated file, succeeds with nothing, and the cursor moves on; one after midnight looks into the
  wrong partition (`outside`). No manifest names those minutes.
- Objects of the last minutes of a day that are written, or corrected, after midnight lie in the old day's partition, which the next
  load does not list (`PastMidnight`): such a row is missing or keeps its estimate.
- Without an RDS cursor, and with more failures in a row than `Retries` absorbs, loads that fail before the
  first success are forgotten: the first load that is marked takes its own window only (`loadedFrom`).

What the models leave out:

- *Time* is in whole minutes; visibility timeouts are not modelled, as they
  exceed the Lambdas' timeouts.
- *Downloader*: what lies beyond `MAX_MEMBERS` is dropped without a trace, and the
  model does the same; `--force` is not modelled, nor the downloader of past notices inside an archive.
- *Merge batch*: `DRY_RUN` is `"false"`. Which of the matching targets the `LIMIT` of the merge takes is
  free, so that a starving bid is possible in principle; `MaxTargets` covers all bids in
  the liveness run. `bid_tags` exists.
- *Vector stage*: `--limit` of the title backfill; the embedding service answers with as many vectors
  as it was given texts.
- *Documents*: characters are lengths; patterns that find headers and tables in a text, page
  numbers and captions are part of the input; pages marked as scanned, which nothing reads.
- *Backfill*: the order of concurrent requests inside a day. Which documents and bids fail for ever is fixed at the
  start; that somebody mends one is not modelled.
- *Status report*: numbers of queued messages, durations, layout; what happens after it has ended.
- *Model selection*: stages whose results nothing reads (baseline, reduce, trees, optimism, confusion);
  nothing enforces that the test set is opened once. Scores are any outcome of a fold.
- *Not modelled at all*, for the reasons `PROJECT.json` gives: heartbeat, statistics views (no state of
  their own), logs and result types, two scripts started by hand, the API prototype,
  earlier parsers and the local runner, notebooks and offline studies (nothing in the pipeline reads
  what they write). Partly: the language model adapter (prompts and calls of the providers are
  text handling and I/O) and the renaming of fields by `schema.py` (data conversion no modelled property
  tells apart).

## 7. Plan

In this order:

1. Theorems about `DocumentText` and `PdfPage`: their walks would have to become actions or recursive functions
   over positions, as those of `Chunker` are, to be reasoned about by induction over numbers.
2. An abstract notice, published to tagged, that `DailyDag`, `ExtractPipeline`, `MergeBatch` and
   `Tagging` implement together; today each refines or guarantees its own part.
3. `--force` and the archives of past notices in `Downloader`.
