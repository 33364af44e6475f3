-------------------------------- MODULE History --------------------------------
(* Past notices, collected by programs run by hand: raw_json_backfill.py    *)
(* fetches them day by day, json_file_download_backfill.py downloads their  *)
(* attachments and keeps a record of it in manifests.                       *)
(* A page of the API holds one notice <<day, query, page>> here, and a      *)
(* query is one business division of one institution.                       *)
EXTENDS Naturals, FiniteSets, FiniteSetsExt

CONSTANTS
    Days,               \* 1..n
    MonthOf,
    Queries,
    MaxPages,
    PageCount,          \* pages of a query on a day, from totalCount
    AttachmentsOf,      \* of each notice
    Skipped,            \* attachments without a URL, or dropped by apply_dedup
    MAX_RETRY,
    CALL_BUDGET,
    MaxRuns,            \* downloads, each with a manifest of its own name
    MaxFaults,
    Idle

Notices == {n \in Days \X Queries \X (1..MaxPages) : n[3] <= PageCount[n[1]][n[2]]}

\* The key of an attachment begins with that of its notice.
ASSUME HistoryAssumption ==
    /\ Days \subseteq Nat \ {0}
    /\ MaxPages \in Nat
    /\ PageCount \in [Days -> [Queries -> Nat]]
    /\ MAX_RETRY \in Nat \ {0} /\ CALL_BUDGET \in Nat
    /\ \A m, n \in Notices : AttachmentsOf[m] \intersect AttachmentsOf[n] # {} => m = n

Attachments == UNION {AttachmentsOf[n] : n \in Notices}

VARIABLES
    next,           \* the day the operator continues with: all before it is done
    collector,      \* the run of the collector, or Idle
    curated,        \* notices under raw/curated/backfill/
    downloader,     \* the run of the downloader, or Idle
    files,          \* attachments under raw/downloads/backfill/
    manifests,      \* outcomes by attachment, for each month and run
    runs,           \* downloads started
    faults

vars == <<next, collector, curated, downloader, files, manifests, runs, faults>>

Init ==
    /\ next = 1
    /\ collector = Idle
    /\ curated = {}
    /\ downloader = Idle
    /\ files = {}
    /\ manifests = [key \in {} |-> {}]
    /\ runs = 0
    /\ faults = 0

-------------------------------------------------------------------------------
(* The collector.                                                           *)

Collecting == UNCHANGED <<downloader, files, manifests, runs>>

\* python raw_json_backfill.py --start next --end last
StartCollect(last) ==
    /\ collector = Idle
    /\ next <= last
    /\ collector' = [day |-> next, last |-> last, calls |-> 0, failed |-> FALSE]
    /\ UNCHANGED <<next, curated, faults>> /\ Collecting

\* fetch_page: what came of it and the calls it took.  An error response of the
\* API ends it at once, any other failure after MAX_RETRY calls.
Fetches == {[ok |-> TRUE, calls |-> c] : c \in 1..MAX_RETRY}
           \union {[ok |-> FALSE, calls |-> 1], [ok |-> FALSE, calls |-> MAX_RETRY]}

Clean == [ok |-> TRUE, calls |-> 1]

PagesOf(day) == {x \in Queries \X (1..MaxPages) : x[2] = 1 \/ x[2] <= PageCount[day][x[1]]}

\* The further pages of a query are known from its first page.
Asked(day, fetch) == {x \in PagesOf(day) : x[2] = 1 \/ fetch[<<x[1], 1>>].ok}

Found(day, fetch) ==
    {n \in Notices : /\ n[1] = day
                     /\ <<n[2], n[3]>> \in Asked(day, fetch)
                     /\ fetch[<<n[2], n[3]>>].ok}

\* The exit code of a run that ends for the budget, whatever failed before.
ExitCodeOfStop(failed, stopped) == IF failed /\ ~stopped THEN 1 ELSE 0

\* main: a failure of any page counts before an early end.
ExitCode(failed, stopped) == IF failed THEN 1 ELSE 0

\* One day: its pages are fetched, what was found is stored, and the run goes on
\* unless the budget of calls is used up.  After exit code 0 the operator goes on
\* with the day after the last one done, otherwise with the same range.
ProcessDay(fetch) ==
    LET day == collector.day
        calls == collector.calls + MapThenSumSet(LAMBDA x : fetch[x].calls, Asked(day, fetch))
        failed == collector.failed \/ \E x \in Asked(day, fetch) : ~fetch[x].ok
        stopped == calls >= CALL_BUDGET
        bad == {x \in PagesOf(day) : fetch[x] # Clean}
    IN  /\ faults + Cardinality(bad) <= MaxFaults
        /\ bad \subseteq Asked(day, fetch)
        /\ faults' = faults + Cardinality(bad)
        /\ curated' = curated \union Found(day, fetch)
        /\ IF stopped \/ day = collector.last
           THEN /\ collector' = Idle
                /\ next' = IF ExitCode(failed, stopped) = 0 THEN day + 1 ELSE next
           ELSE /\ collector' = [collector EXCEPT !.day = day + 1, !.calls = calls, !.failed = failed]
                /\ next' = next

CollectDay ==
    /\ collector # Idle
    /\ \E fetch \in [PagesOf(collector.day) -> Fetches] : ProcessDay(fetch)
    /\ Collecting

\* A put fails: the run ends with what it has stored so far.
CollectorDies ==
    /\ collector # Idle
    /\ faults < MaxFaults
    /\ faults' = faults + 1
    /\ \E part \in SUBSET {n \in Notices : n[1] = collector.day} : curated' = curated \union part
    /\ collector' = Idle
    /\ UNCHANGED next /\ Collecting

-------------------------------------------------------------------------------
(* The downloader.                                                          *)

Downloading == UNCHANGED <<next, collector, curated>>

\* iter_curated_range
InRange(first, last) == {n \in curated : n[1] \in first..last}

\* The curated notices of a range of days are listed, with their attachments.
StartDownload(first, last) ==
    /\ downloader = Idle
    /\ runs < MaxRuns
    /\ runs' = runs + 1
    /\ downloader' = [todo |-> UNION {AttachmentsOf[n] : n \in InRange(first, last)},
                      months |-> {MonthOf[n[1]] : n \in InRange(first, last)},
                      behind |-> last < next,
                      days |-> first..last,
                      outcome |-> [a \in {} |-> "failed"]]
    /\ UNCHANGED <<files, manifests, faults>> /\ Downloading

Outcome(a, result) ==
    downloader' = [downloader EXCEPT
                    !.todo = @ \ {a},
                    !.outcome = [b \in DOMAIN @ \union {a} |-> IF b = a THEN result ELSE @[b]]]

\* upload_attachment
Upload(a) ==
    /\ downloader # Idle
    /\ a \in downloader.todo
    /\ IF a \in Skipped THEN Outcome(a, "skipped") /\ UNCHANGED files
       ELSE Outcome(a, "success") /\ files' = files \union {a}
    /\ UNCHANGED <<manifests, runs, faults>> /\ Downloading

FailureSkips == "skipped"

FailureIs == "failed"

\* A status that is not retried, or MAX_RETRY failures; gather returns it.
UploadFails(a) ==
    /\ downloader # Idle
    /\ a \in downloader.todo \ Skipped
    /\ faults < MaxFaults
    /\ faults' = faults + 1
    /\ Outcome(a, FailureIs)
    /\ UNCHANGED <<files, manifests, runs>> /\ Downloading

NoticeOf(a) == CHOOSE n \in Notices : a \in AttachmentsOf[n]

OfMonth(month) == {a \in DOMAIN downloader.outcome : MonthOf[NoticeOf(a)[1]] = month}

\* The object's name holds the time the run began.
ManifestKey(month, run) == <<month, run>>

\* put_manifest: one object per month of the notices' dates.
PutManifest(month) ==
    /\ downloader # Idle
    /\ downloader.todo = {}
    /\ month \in downloader.months
    /\ manifests' = [key \in DOMAIN manifests \union {ManifestKey(month, runs)} |->
                        IF key = ManifestKey(month, runs)
                        THEN [a \in OfMonth(month) |-> downloader.outcome[a]]
                        ELSE manifests[key]]
    /\ downloader' = [downloader EXCEPT !.months = @ \ {month}]
    /\ UNCHANGED <<files, runs, faults>> /\ Downloading

\* The exit code is 1 when there is one.
Failed == {a \in DOMAIN downloader.outcome : downloader.outcome[a] = "failed"}

EndDownload ==
    /\ downloader # Idle
    /\ downloader.todo = {}
    /\ downloader.months = {}
    /\ downloader' = Idle
    /\ UNCHANGED <<files, manifests, runs, faults>> /\ Downloading

\* The run ends before its manifest is complete.
DownloaderDies ==
    /\ downloader # Idle
    /\ faults < MaxFaults
    /\ faults' = faults + 1
    /\ downloader' = Idle
    /\ UNCHANGED <<files, manifests, runs>> /\ Downloading

-------------------------------------------------------------------------------

Next ==
    \/ \E last \in Days : StartCollect(last)
    \/ CollectDay \/ CollectorDies
    \/ \E first, last \in Days : StartDownload(first, last)
    \/ \E a \in Attachments : Upload(a) \/ UploadFails(a)
    \/ \E d \in Days : PutManifest(MonthOf[d])
    \/ EndDownload \/ DownloaderDies

Spec == Init /\ [][Next]_vars

-------------------------------------------------------------------------------
(* Properties.                                                              *)

\* An operator who goes on where an exit code 0 has left off, the early end for the
\* budget of calls included, and repeats what ended otherwise, leaves no notice out:
\* failures of earlier days of a run still count when it ends (collect_range, main).
BehindNextComplete ==
    {n \in Notices : n[1] < next} \subseteq curated

Recorded(a) ==
    \E key \in DOMAIN manifests : a \in DOMAIN manifests[key] /\ manifests[key][a] = "success"

\* When the downloader ends with exit code 0 over days the collector has done, every
\* attachment of every notice of those days is stored and on record, the dropped ones
\* apart: what one program calls success the next can build on.
ExitZeroMeansAll ==
    (/\ downloader # Idle
     /\ downloader.behind
     /\ downloader.todo = {} /\ downloader.months = {}
     /\ Failed = {})
    => \A n \in Notices : n[1] \in downloader.days =>
          \A a \in AttachmentsOf[n] \ Skipped : a \in files /\ Recorded(a)

\* Exit code 0 of either program lets the operator go on: nothing is left behind.
GoneOnIsComplete == BehindNextComplete /\ ExitZeroMeansAll

===============================================================================
