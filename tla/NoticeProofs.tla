----------------------------- MODULE NoticeProofs -----------------------------
(***************************************************************************)
(* Theorems about what is kept of a notice: past notices (History), for    *)
(* any days, queries, pages and attachments and any number of runs; the    *)
(* rows of the database (BidTable), for any notices, versions, attachments *)
(* and loads; their tags (Tagging), for any finite set of notices, any     *)
(* titles, codes, models, thresholds and batches; the models behind the    *)
(* tags (ModelSelection), for any rows, titles, numbers, grids and scores; *)
(* and the experiments with tags (TagExperiments), for any titles, codes,  *)
(* shuffles, models, samples and numbers of examples.                      *)
(***************************************************************************)
EXTENDS History, BidTable, Tagging, ModelSelection, TagExperiments, FiniteSetTheorems,
        WellFoundedInduction, TLAPS

-------------------------------------------------------------------------------
(* The collector and the downloader of past notices.                        *)

\* Every day before the one a run is at is complete, unless one of its pages failed.
Collected ==
    /\ next \in Nat
    /\ BehindNextComplete
    /\ collector # Idle =>
         /\ collector \in [day : Nat, last : {collector.last}, calls : {collector.calls},
                           failed : BOOLEAN]
         /\ ~collector.failed => \A n \in Notices : n[1] < collector.day => n \in curated

\* An outcome is what became of the attachment.
OutcomesTrue ==
    downloader # Idle =>
        /\ downloader \in [todo : {downloader.todo}, months : {downloader.months},
                           behind : BOOLEAN, days : {downloader.days},
                           outcome : {downloader.outcome}]
        /\ \A a \in DOMAIN downloader.outcome :
             /\ downloader.outcome[a] \in {"success", "skipped", "failed"}
             /\ downloader.outcome[a] = "success" => a \in files
             /\ downloader.outcome[a] = "skipped" => a \in Skipped

\* The manifest of the notice's month has all its attachments.
Put(n) ==
    LET key == ManifestKey(MonthOf[n[1]], runs)
    IN  /\ downloader.todo = {}
        /\ key \in DOMAIN manifests
        /\ \A a \in AttachmentsOf[n] :
             a \in DOMAIN manifests[key] /\ manifests[key][a] = downloader.outcome[a]

\* A run over days the collector has done has every attachment before it or behind it,
\* and every month to write or written.
NothingSkipped ==
    (downloader # Idle /\ downloader.behind) =>
        \A n \in Notices : n[1] \in downloader.days =>
            /\ AttachmentsOf[n] \subseteq downloader.todo \cup DOMAIN downloader.outcome
            /\ MonthOf[n[1]] \in downloader.months \/ Put(n)

HistoryInv == Collected /\ OutcomesTrue /\ NothingSkipped

LEMMA HistoryInitHolds == ASSUME Init PROVE HistoryInv
  <1>1. \A n \in Notices : n[1] \in Nat /\ ~(n[1] < 1)
    <2>1. \A n \in Notices : n[1] \in Days
      BY DEF Notices
    <2>2. \A d \in Days : d \in Nat /\ ~(d < 1)
      BY HistoryAssumption
    <2> QED BY <2>1, <2>2
  <1> QED BY <1>1 DEF Init, HistoryInv, Collected, BehindNextComplete, OutcomesTrue, NothingSkipped

\* Steps of the one program do not disturb the other.
LEMMA CollectorAlone ==
    ASSUME HistoryInv, Collecting, Collected'
    PROVE  HistoryInv'
  BY DEF HistoryInv, Collecting, OutcomesTrue, NothingSkipped, Put

LEMMA DownloaderAlone ==
    ASSUME HistoryInv, Downloading, OutcomesTrue', NothingSkipped'
    PROVE  HistoryInv'
  BY DEF HistoryInv, Downloading, Collected, BehindNextComplete

LEMMA StartCollectKeeps ==
    ASSUME HistoryInv, NEW last \in Days, StartCollect(last)
    PROVE  HistoryInv'
  <1>1. /\ collector' = [day |-> next, last |-> last, calls |-> 0, failed |-> FALSE]
        /\ UNCHANGED <<next, curated>> /\ Collecting
    BY DEF StartCollect
  <1>2. next \in Nat /\ BehindNextComplete
    BY DEF HistoryInv, Collected
  <1>3. collector'.day = next /\ collector' \in [day : Nat, last : {collector'.last},
            calls : {collector'.calls}, failed : BOOLEAN]
    BY <1>1, <1>2
  <1>4. Collected'
    BY <1>1, <1>2, <1>3 DEF Collected, BehindNextComplete
  <1> QED BY <1>1, <1>4, CollectorAlone

\* Where no page failed, the day is complete.
LEMMA DayComplete ==
    ASSUME NEW day, NEW fetch, \A x \in Asked(day, fetch) : fetch[x].ok
    PROVE  \A n \in Notices : n[1] = day => n \in Found(day, fetch)
  <1> TAKE n \in Notices
  <1> HAVE n[1] = day
  <1>1. /\ n[1] \in Days /\ n[2] \in Queries /\ n[3] \in 1..MaxPages
        /\ n[3] <= PageCount[n[1]][n[2]]
    BY DEF Notices
  <1>2. 1 \in 1..MaxPages
    BY <1>1, HistoryAssumption
  <1>3. <<n[2], 1>> \in Asked(day, fetch)
    BY <1>1, <1>2 DEF Asked, PagesOf
  <1>4. fetch[<<n[2], 1>>].ok
    BY <1>3
  <1>5. <<n[2], n[3]>> \in PagesOf(day)
    BY <1>1 DEF PagesOf
  <1>6. <<n[2], n[3]>> \in Asked(day, fetch)
    BY <1>4, <1>5 DEF Asked
  <1>7. fetch[<<n[2], n[3]>>].ok
    BY <1>6
  <1> QED BY <1>6, <1>7 DEF Found

LEMMA CollectDayKeeps == ASSUME HistoryInv, CollectDay PROVE HistoryInv'
  <1>1. PICK fetch \in [PagesOf(collector.day) -> Fetches] : ProcessDay(fetch)
    BY DEF CollectDay
  <1> DEFINE day == collector.day
             asked == Asked(day, fetch)
             calls == collector.calls + MapThenSumSet(LAMBDA x : fetch[x].calls, asked)
             failed == collector.failed \/ \E x \in asked : ~fetch[x].ok
             stopped == calls >= CALL_BUDGET
  <1>2. /\ collector # Idle
        /\ curated' = curated \cup Found(day, fetch)
        /\ IF stopped \/ day = collector.last
           THEN /\ collector' = Idle
                /\ next' = IF ExitCode(failed, stopped) = 0 THEN day + 1 ELSE next
           ELSE /\ collector' = [collector EXCEPT !.day = day + 1, !.calls = calls, !.failed = failed]
                /\ next' = next
        /\ Collecting
    BY <1>1 DEF CollectDay, ProcessDay
  <1>3. /\ next \in Nat /\ BehindNextComplete
        /\ collector \in [day : Nat, last : {collector.last}, calls : {collector.calls},
                          failed : BOOLEAN]
        /\ ~collector.failed => \A n \in Notices : n[1] < day => n \in curated
    BY <1>2 DEF HistoryInv, Collected
  <1>4. day \in Nat /\ \A n \in Notices : n[1] \in Nat
    BY <1>3, HistoryAssumption DEF Notices
  <1>5. ~failed => \A n \in Notices : n[1] < day + 1 => n \in curated'
    <2> SUFFICES ASSUME ~failed, NEW n \in Notices, n[1] < day + 1
                 PROVE  n \in curated'
      OBVIOUS
    <2>1. ~collector.failed /\ \A x \in asked : fetch[x].ok
      OBVIOUS
    <2>2. n[1] < day \/ n[1] = day
      BY <1>4
    <2> QED BY <1>2, <1>3, <2>1, <2>2, DayComplete
  <1>6. failed \in BOOLEAN
    OBVIOUS
  <1>7. \A n \in Notices : n \in curated => n \in curated'
    BY <1>2
  <1> HIDE DEF calls, failed, stopped, day
  <1>8. CASE stopped \/ day = collector.last
    <2>1. collector' = Idle /\ next' = IF failed THEN next ELSE day + 1
      BY <1>2, <1>8 DEF ExitCode
    <2>2. next' \in Nat /\ BehindNextComplete'
      <3>1. CASE failed
        BY <1>3, <1>7, <2>1, <3>1 DEF BehindNextComplete
      <3>2. CASE ~failed
        BY <1>4, <1>5, <2>1, <3>2 DEF BehindNextComplete
      <3> QED BY <3>1, <3>2
    <2> QED BY <1>2, <2>1, <2>2, CollectorAlone DEF Collected
  <1>9. CASE ~(stopped \/ day = collector.last)
    <2>1. /\ collector' = [collector EXCEPT !.day = day + 1, !.calls = calls, !.failed = failed]
          /\ next' = next
      BY <1>2, <1>9
    <2>2. /\ collector'.day = day + 1 /\ (collector'.failed <=> failed)
          /\ collector' \in [day : Nat, last : {collector'.last}, calls : {collector'.calls},
                             failed : BOOLEAN]
      <3>1. /\ DOMAIN collector = {"day", "last", "calls", "failed"}
            /\ collector = [f \in DOMAIN collector |-> collector[f]]
        BY <1>3
      <3>2. /\ collector'.day = day + 1 /\ collector'.last = collector.last
            /\ collector'.calls = calls
        BY <2>1, <3>1
      <3>3. collector'.failed = failed
        BY <2>1, <3>1
      <3>4. /\ DOMAIN collector' = {"day", "last", "calls", "failed"}
            /\ collector' = [f \in DOMAIN collector' |-> collector'[f]]
        BY <2>1, <3>1
      <3>5. day + 1 \in Nat
        BY <1>4
      <3> QED BY <1>6, <3>2, <3>3, <3>4, <3>5
    <2>3. BehindNextComplete'
      BY <1>3, <1>7, <2>1 DEF BehindNextComplete
    <2>4. Collected'
      BY <1>3, <1>5, <2>1, <2>2, <2>3 DEF Collected
    <2> QED BY <1>2, <2>4, CollectorAlone
  <1> QED BY <1>8, <1>9

LEMMA CollectorDiesKeeps == ASSUME HistoryInv, CollectorDies PROVE HistoryInv'
  <1>1. curated \subseteq curated' /\ collector' = Idle /\ UNCHANGED next /\ Collecting
    BY DEF CollectorDies
  <1>2. Collected'
    BY <1>1 DEF HistoryInv, Collected, BehindNextComplete
  <1> QED BY <1>1, <1>2, CollectorAlone

LEMMA StartDownloadKeeps ==
    ASSUME HistoryInv, NEW first \in Days, NEW last \in Days, StartDownload(first, last)
    PROVE  HistoryInv'
  <1> DEFINE none == [a \in {} |-> "failed"]
             todo == UNION {AttachmentsOf[n] : n \in InRange(first, last)}
             months == {MonthOf[n[1]] : n \in InRange(first, last)}
             behind == last < next
  <1>1. /\ downloader' = [todo |-> todo, months |-> months, behind |-> behind,
                          days |-> first..last, outcome |-> none]
        /\ UNCHANGED files /\ Downloading
    BY DEF StartDownload
  <1>2. DOMAIN none = {} /\ behind \in BOOLEAN
    OBVIOUS
  <1>3. ASSUME behind, NEW n \in Notices, n[1] \in first..last
        PROVE  AttachmentsOf[n] \subseteq todo /\ MonthOf[n[1]] \in months
    <2>1. n[1] < next
      BY <1>3, HistoryAssumption DEF HistoryInv, Collected
    <2>2. n \in InRange(first, last)
      BY <1>3, <2>1 DEF HistoryInv, Collected, BehindNextComplete, InRange
    <2> QED BY <2>2
  <1> HIDE DEF none, todo, months, behind
  <1>4. /\ downloader'.todo = todo /\ downloader'.months = months
        /\ (downloader'.behind <=> behind) /\ downloader'.days = first..last
        /\ downloader'.outcome = none
        /\ downloader' \in [todo : {downloader'.todo}, months : {downloader'.months},
                            behind : BOOLEAN, days : {downloader'.days},
                            outcome : {downloader'.outcome}]
    BY <1>1, <1>2
  <1>5. OutcomesTrue'
    BY <1>2, <1>4 DEF OutcomesTrue
  <1>6. NothingSkipped'
    BY <1>3, <1>4 DEF NothingSkipped
  <1> QED BY <1>1, <1>5, <1>6, DownloaderAlone

\* An attachment leaves the list with an outcome that is true.
LEMMA OutcomeKeeps ==
    ASSUME HistoryInv, NEW a, NEW result \in {"success", "skipped", "failed"},
           downloader # Idle, a \in downloader.todo, Outcome(a, result),
           files \subseteq files', UNCHANGED <<manifests, runs>>, Downloading,
           result = "success" => a \in files',
           result = "skipped" => a \in Skipped
    PROVE  HistoryInv'
  <1> DEFINE old == downloader.outcome
             new == [b \in DOMAIN old \cup {a} |-> IF b = a THEN result ELSE old[b]]
  <1>1. downloader' = [downloader EXCEPT !.todo = @ \ {a}, !.outcome = new]
    BY DEF Outcome
  <1>2. DOMAIN new = DOMAIN old \cup {a} /\ new[a] = result
    OBVIOUS
  <1>3. \A b \in DOMAIN old : b # a => new[b] = old[b]
    OBVIOUS
  <1> HIDE DEF new
  <1>4. /\ downloader'.todo = downloader.todo \ {a} /\ downloader'.months = downloader.months
        /\ (downloader'.behind <=> downloader.behind) /\ downloader'.days = downloader.days
        /\ downloader'.outcome = new
        /\ downloader' \in [todo : {downloader'.todo}, months : {downloader'.months},
                            behind : BOOLEAN, days : {downloader'.days},
                            outcome : {downloader'.outcome}]
    BY <1>1 DEF HistoryInv, OutcomesTrue
  <1>5. ASSUME NEW b \in DOMAIN new
        PROVE  /\ new[b] \in {"success", "skipped", "failed"}
               /\ new[b] = "success" => b \in files'
               /\ new[b] = "skipped" => b \in Skipped
    <2>1. CASE b = a
      BY <1>2, <2>1
    <2>2. CASE b # a
      BY <1>2, <1>3, <2>2 DEF HistoryInv, OutcomesTrue
    <2> QED BY <2>1, <2>2
  <1>6. OutcomesTrue'
    BY <1>4, <1>5 DEF OutcomesTrue
  <1>7. NothingSkipped'
    <2> SUFFICES ASSUME downloader.behind, NEW n \in Notices, n[1] \in downloader.days
                 PROVE  /\ AttachmentsOf[n] \subseteq (downloader.todo \ {a}) \cup DOMAIN new
                        /\ MonthOf[n[1]] \in downloader.months
      BY <1>4 DEF NothingSkipped
    <2>1. /\ AttachmentsOf[n] \subseteq downloader.todo \cup DOMAIN old
          /\ MonthOf[n[1]] \in downloader.months \/ Put(n)
      BY DEF HistoryInv, NothingSkipped
    <2> QED BY <1>2, <2>1 DEF Put
  <1> QED BY <1>6, <1>7, DownloaderAlone

LEMMA UploadsKeep ==
    ASSUME HistoryInv, NEW a, Upload(a) \/ UploadFails(a)
    PROVE  HistoryInv'
  <1>1. CASE Upload(a) /\ a \in Skipped
    BY <1>1, OutcomeKeeps DEF Upload
  <1>2. CASE Upload(a) /\ a \notin Skipped
    BY <1>2, OutcomeKeeps DEF Upload
  <1>3. CASE UploadFails(a)
    BY <1>3, OutcomeKeeps DEF UploadFails, FailureIs
  <1> QED BY <1>1, <1>2, <1>3

\* An attachment is that of one notice only.
LEMMA NoticeOfIt ==
    ASSUME NEW n \in Notices, NEW a \in AttachmentsOf[n]
    PROVE  NoticeOf(a) = n
  <1>1. NoticeOf(a) \in Notices /\ a \in AttachmentsOf[NoticeOf(a)]
    BY DEF NoticeOf
  <1> QED BY <1>1, HistoryAssumption

LEMMA PutManifestKeeps ==
    ASSUME HistoryInv, NEW month, PutManifest(month)
    PROVE  HistoryInv'
  <1> DEFINE key == ManifestKey(month, runs)
             manifest == [a \in OfMonth(month) |-> downloader.outcome[a]]
  <1>1. /\ downloader # Idle /\ downloader.todo = {}
        /\ manifests' = [k \in DOMAIN manifests \cup {key} |->
                            IF k = key THEN manifest ELSE manifests[k]]
        /\ downloader' = [downloader EXCEPT !.months = @ \ {month}]
        /\ UNCHANGED <<files, runs>> /\ Downloading
    BY DEF PutManifest
  <1>2. /\ downloader'.todo = {} /\ downloader'.months = downloader.months \ {month}
        /\ (downloader'.behind <=> downloader.behind) /\ downloader'.days = downloader.days
        /\ downloader'.outcome = downloader.outcome
        /\ downloader' \in [todo : {downloader'.todo}, months : {downloader'.months},
                            behind : BOOLEAN, days : {downloader'.days},
                            outcome : {downloader'.outcome}]
    BY <1>1 DEF HistoryInv, OutcomesTrue
  <1>3. OutcomesTrue'
    BY <1>1, <1>2 DEF HistoryInv, OutcomesTrue
  <1>4. NothingSkipped'
    <2> SUFFICES ASSUME downloader.behind, NEW n \in Notices, n[1] \in downloader.days
                 PROVE  /\ AttachmentsOf[n] \subseteq {} \cup DOMAIN downloader.outcome
                        /\ \/ MonthOf[n[1]] \in downloader.months \ {month}
                           \/ Put(n)'
      BY <1>2 DEF NothingSkipped
    <2>1. /\ AttachmentsOf[n] \subseteq DOMAIN downloader.outcome
          /\ MonthOf[n[1]] \in downloader.months \/ Put(n)
      BY <1>1 DEF HistoryInv, NothingSkipped
    <2>2. CASE MonthOf[n[1]] = month
      <3>1. \A a \in AttachmentsOf[n] : a \in OfMonth(month)
        BY <2>1, <2>2, NoticeOfIt DEF OfMonth
      <3>2. \A a \in AttachmentsOf[n] : a \in DOMAIN manifest /\ manifest[a] = downloader.outcome[a]
        BY <3>1
      <3> HIDE DEF manifest
      <3>3. key \in DOMAIN manifests' /\ manifests'[key] = manifest
        BY <1>1
      <3>4. ManifestKey(MonthOf[n[1]], runs') = key
        BY <1>1, <2>2
      <3> QED BY <1>2, <2>1, <3>2, <3>3, <3>4 DEF Put
    <2>3. CASE MonthOf[n[1]] # month
      <3>1. ManifestKey(MonthOf[n[1]], runs) # key
        BY <2>3 DEF ManifestKey
      <3>2. CASE Put(n)
        <4> DEFINE mine == ManifestKey(MonthOf[n[1]], runs)
        <4>1. /\ mine \in DOMAIN manifests
              /\ \A a \in AttachmentsOf[n] :
                   a \in DOMAIN manifests[mine] /\ manifests[mine][a] = downloader.outcome[a]
          BY <3>2 DEF Put
        <4>2. ManifestKey(MonthOf[n[1]], runs') = mine
          BY <1>1
        <4> HIDE DEF mine, key, manifest
        <4>3. mine \in DOMAIN manifests' /\ manifests'[mine] = manifests[mine]
          BY <1>1, <3>1, <4>1 DEF mine
        <4>4. downloader'.todo = {} /\ downloader'.outcome = downloader.outcome
          BY <1>2
        <4>5. \A a \in AttachmentsOf[n] : a \in DOMAIN manifests'[mine]
                                        /\ manifests'[mine][a] = downloader'.outcome[a]
          BY <4>1, <4>3, <4>4
        <4>6. Put(n)'
          BY <4>2, <4>3, <4>4, <4>5 DEF Put
        <4> QED BY <2>1, <4>6
      <3> QED BY <2>1, <2>3, <3>2
    <2> QED BY <2>1, <2>2, <2>3
  <1> QED BY <1>1, <1>3, <1>4, DownloaderAlone

LEMMA HistoryStep == ASSUME HistoryInv, [Next]_vars PROVE HistoryInv'
  <1>1. CASE \E last \in Days : StartCollect(last)
    BY <1>1, StartCollectKeeps
  <1>2. CASE CollectDay \/ CollectorDies
    BY <1>2, CollectDayKeeps, CollectorDiesKeeps
  <1>3. CASE \E first, last \in Days : StartDownload(first, last)
    BY <1>3, StartDownloadKeeps
  <1>4. CASE \E a \in Attachments : Upload(a) \/ UploadFails(a)
    BY <1>4, UploadsKeep
  <1>5. CASE \E d \in Days : PutManifest(MonthOf[d])
    BY <1>5, PutManifestKeeps
  <1>6. CASE EndDownload \/ DownloaderDies
    <2>1. downloader' = Idle /\ Downloading
      BY <1>6 DEF EndDownload, DownloaderDies
    <2>2. OutcomesTrue' /\ NothingSkipped'
      BY <2>1 DEF OutcomesTrue, NothingSkipped
    <2> QED BY <2>1, <2>2, DownloaderAlone
  <1>7. CASE UNCHANGED vars
    BY <1>7 DEF vars, HistoryInv, Collected, BehindNextComplete, OutcomesTrue, NothingSkipped, Put
  <1> QED BY <1>1, <1>2, <1>3, <1>4, <1>5, <1>6, <1>7 DEF Next

\* Exit code 0 of either program lets the operator go on: no notice of the days behind is
\* missing, and no attachment of the days downloaded is, in the bucket or in a manifest;
\* for any days, pages, retries and budgets.
THEOREM GoneOnIsCompleteHolds == Spec => []GoneOnIsComplete
  <1>1. Init => HistoryInv
    BY HistoryInitHolds
  <1>2. HistoryInv /\ [Next]_vars => HistoryInv'
    BY HistoryStep
  <1>3. HistoryInv => GoneOnIsComplete
    <2> SUFFICES ASSUME HistoryInv, downloader # Idle, downloader.behind,
                        downloader.todo = {}, downloader.months = {}, Failed = {},
                        NEW n \in Notices, n[1] \in downloader.days,
                        NEW a \in AttachmentsOf[n] \ Skipped
                 PROVE  a \in files /\ Recorded(a)
      BY DEF GoneOnIsComplete, ExitZeroMeansAll, HistoryInv, Collected
    <2>1. a \in DOMAIN downloader.outcome /\ Put(n)
      BY DEF HistoryInv, NothingSkipped
    <2>2. downloader.outcome[a] = "success" /\ a \in files
      BY <2>1 DEF HistoryInv, OutcomesTrue, Failed
    <2> QED BY <2>1, <2>2 DEF Put, Recorded
  <1> QED BY <1>1, <1>2, <1>3, PTL DEF Spec

-------------------------------------------------------------------------------
(* The rows of bid_table and bid_attachments.                               *)

IsRow(r) ==
    r \in [source : {r.source}, version : {r.version}, expected : {r.expected},
           kind : {r.kind}, open : BOOLEAN]

IsFile(a) == a \in [version : {a.version}, status : {"collected", "extracted", "qualifications"}]

IsCounting(c) == c \in [todo : SUBSET Bids, was : {c.was}, new : {c.new}, alone : BOOLEAN]

RowsOK ==
    /\ bidRows = [b \in Bids |-> bidRows[b]]
    /\ \A b \in Bids : bidRows[b] # SqlNull => IsRow(bidRows[b])

AreFiles(fs) ==
    /\ fs = [i \in DOMAIN fs |-> fs[i]]
    /\ \A i \in DOMAIN fs : IsFile(fs[i])

FilesOK ==
    /\ atts = [b \in Bids |-> atts[b]]
    /\ \A b \in Bids : AreFiles(atts[b])

CountingOK == counting # Off => IsCounting(counting)

TableTypeOK == RowsOK /\ FilesOK /\ CountingOK

\* The attachments a row names are those of its own version.
RowHasFiles ==
    \A b \in Bids : bidRows[b] # SqlNull =>
        \A i \in FilesAt[bidRows[b].version] :
            i \in DOMAIN atts[b] /\ atts[b][i].version = bidRows[b].version

\* What is to be counted yet has no new count.
NewAreCounted == counting # Off => counting.todo \cap DOMAIN counting.new = {}

\* The count of b is settled as the JSON of today demands.
Counted(b) ==
    LET now == Estimate[json["daily"][b].version]
    IN  IF Changes(counting.was[b], now)
        THEN b \in DOMAIN counting.new /\ counting.new[b] = now
        ELSE b \notin DOMAIN counting.new

\* While nobody else writes, the script knows the counts of today, and what it has
\* worked out is right today.
CountsKnown ==
    (counting # Off /\ counting.alone) =>
        \A b \in CountTargets :
            /\ counting.was[b] = bidRows[b].expected
            /\ b \in counting.todo \/ Counted(b)

TableInv == TableTypeOK /\ RowHasFiles /\ NewAreCounted /\ CountsKnown

LEMMA TableInitHolds == ASSUME TableInit PROVE TableInv
  BY DEF TableInit, TableInv, TableTypeOK, RowsOK, FilesOK, AreFiles, CountingOK, RowHasFiles,
         NewAreCounted, CountsKnown

\* Another program writes: the count script is not alone any more.
LEMMA DisturbedKnowsNothing ==
    ASSUME TableInv, Disturbed
    PROVE  CountingOK' /\ NewAreCounted' /\ CountsKnown'
  <1>1. CASE counting = Off
    BY <1>1 DEF Disturbed, CountingOK, NewAreCounted, CountsKnown
  <1>2. CASE counting # Off
    <2>1. IsCounting(counting)
      BY <1>2 DEF TableInv, TableTypeOK, CountingOK
    <2>2. counting' = [counting EXCEPT !.alone = FALSE]
      BY <1>2 DEF Disturbed
    <2>3. /\ IsCounting(counting') /\ counting'.alone = FALSE
          /\ counting'.todo = counting.todo /\ counting'.new = counting.new
      BY <2>1, <2>2 DEF IsCounting
    <2>4. NewAreCounted'
      BY <1>2, <2>3 DEF TableInv, NewAreCounted
    <2>5. CountsKnown'
      BY <2>3 DEF CountsKnown
    <2> QED BY <2>3, <2>4, <2>5 DEF CountingOK
  <1> QED BY <1>1, <1>2

\* Steps that leave the two tables and the JSONs alone.
LEMMA AroundKeeps ==
    ASSUME TableInv, UNCHANGED <<bidRows, atts, json, counting>>
    PROVE  TableInv'
  <1>1. TableTypeOK'
    BY DEF TableInv, TableTypeOK, RowsOK, FilesOK, CountingOK
  <1>2. RowHasFiles' /\ NewAreCounted'
    BY DEF TableInv, RowHasFiles, NewAreCounted
  <1>3. CountsKnown'
    BY DEF TableInv, CountsKnown, Counted, CountTargets, OpenDaily, Daily
  <1> QED BY <1>1, <1>2, <1>3 DEF TableInv

LEMMA CollectKeeps ==
    ASSUME TableInv, NEW s \in Sources, NEW b \in Bids, CollectJson(s, b)
    PROVE  TableInv'
  <1>1. Disturbed /\ UNCHANGED <<bidRows, atts>>
    BY DEF CollectJson
  <1>2. TableTypeOK'
    BY <1>1, DisturbedKnowsNothing DEF TableInv, TableTypeOK, RowsOK, FilesOK
  <1>3. RowHasFiles'
    BY <1>1 DEF TableInv, RowHasFiles
  <1> QED BY <1>1, <1>2, <1>3, DisturbedKnowsNothing DEF TableInv

\* A row changes, but neither its source, its version nor its attachments.
LEMMA RowUpdateKeeps ==
    ASSUME TableInv, UNCHANGED atts,
           bidRows' = [b \in Bids |-> bidRows'[b]],
           \A b \in Bids : \/ bidRows'[b] = bidRows[b]
                           \/ /\ bidRows[b] # SqlNull
                              /\ IsRow(bidRows'[b])
                              /\ bidRows'[b].version = bidRows[b].version
    PROVE  RowsOK' /\ FilesOK' /\ RowHasFiles'
  <1>1. RowsOK' /\ FilesOK'
    BY DEF TableInv, TableTypeOK, RowsOK, FilesOK
  <1>2. RowHasFiles'
    BY DEF TableInv, RowHasFiles
  <1> QED BY <1>1, <1>2

LEMMA JudgeKeeps == ASSUME TableInv, NEW b \in Bids, Judge(b) PROVE TableInv'
  <1>1. /\ bidRows[b] # SqlNull /\ Disturbed /\ UNCHANGED atts
        /\ bidRows' = [bidRows EXCEPT ![b].open = FALSE]
    BY DEF Judge
  <1>2. bidRows = [c \in Bids |-> bidRows[c]] /\ IsRow(bidRows[b])
    BY <1>1 DEF TableInv, TableTypeOK, RowsOK
  <1>3. /\ bidRows' = [c \in Bids |-> bidRows'[c]]
        /\ bidRows'[b] = [bidRows[b] EXCEPT !.open = FALSE]
        /\ \A c \in Bids \ {b} : bidRows'[c] = bidRows[c]
    BY <1>1, <1>2
  <1>4. IsRow(bidRows'[b]) /\ bidRows'[b].version = bidRows[b].version
    BY <1>2, <1>3 DEF IsRow
  <1>5. RowsOK' /\ FilesOK' /\ RowHasFiles'
    BY <1>1, <1>3, <1>4, RowUpdateKeeps
  <1> QED BY <1>1, <1>5, DisturbedKnowsNothing DEF TableInv, TableTypeOK

LEMMA AdvanceKeeps ==
    ASSUME TableInv, NEW b \in Bids, NEW i, AdvanceFile(b, i)
    PROVE  TableInv'
  <1>1. PICK k \in 1..2 : atts' = [atts EXCEPT ![b][i].status = Statuses[k + 1]]
    BY DEF AdvanceFile
  <1>2. i \in DOMAIN atts[b] /\ UNCHANGED <<bidRows, json, counting>>
    BY DEF AdvanceFile
  <1>3. /\ atts = [c \in Bids |-> atts[c]]
        /\ atts[b] = [j \in DOMAIN atts[b] |-> atts[b][j]]
        /\ IsFile(atts[b][i])
    BY <1>2 DEF TableInv, TableTypeOK, FilesOK, AreFiles
  <1>4. Statuses[k + 1] \in {"extracted", "qualifications"}
    BY DEF Statuses
  <1>5. /\ atts' = [c \in Bids |-> atts'[c]]
        /\ \A c \in Bids \ {b} : atts'[c] = atts[c]
        /\ atts'[b] = [atts[b] EXCEPT ![i] = [atts[b][i] EXCEPT !.status = Statuses[k + 1]]]
    BY <1>1, <1>3
  <1>6. IsFile([atts[b][i] EXCEPT !.status = Statuses[k + 1]])
    BY <1>3, <1>4 DEF IsFile
  <1>7. [atts[b][i] EXCEPT !.status = Statuses[k + 1]].version = atts[b][i].version
    BY <1>3 DEF IsFile
  <1>8. /\ DOMAIN atts'[b] = DOMAIN atts[b]
        /\ \A j \in DOMAIN atts[b] : /\ IsFile(atts'[b][j])
                                     /\ atts'[b][j].version = atts[b][j].version
        /\ atts'[b] = [j \in DOMAIN atts'[b] |-> atts'[b][j]]
    <2>1. \A j \in DOMAIN atts[b] : IsFile(atts[b][j])
      BY DEF TableInv, TableTypeOK, FilesOK, AreFiles
    <2> QED BY <1>3, <1>5, <1>6, <1>7, <2>1
  <1>9. TableTypeOK'
    <2>1. AreFiles(atts'[b])
      BY <1>8 DEF AreFiles
    <2>2. \A c \in Bids : AreFiles(atts[c])
      BY DEF TableInv, TableTypeOK, FilesOK
    <2>3. FilesOK'
      BY <1>5, <2>1, <2>2 DEF FilesOK
    <2> QED BY <1>2, <2>3 DEF TableInv, TableTypeOK, RowsOK, CountingOK
  <1>10. RowHasFiles'
    <2> SUFFICES ASSUME NEW c \in Bids, bidRows[c] # SqlNull, NEW j \in FilesAt[bidRows[c].version]
                 PROVE  j \in DOMAIN atts'[c] /\ atts'[c][j].version = bidRows[c].version
      BY <1>2 DEF RowHasFiles
    <2>1. j \in DOMAIN atts[c] /\ atts[c][j].version = bidRows[c].version
      BY DEF TableInv, RowHasFiles
    <2>2. CASE c = b
      BY <1>8, <2>1, <2>2
    <2>3. CASE c # b
      BY <1>5, <2>1, <2>3
    <2> QED BY <2>2, <2>3
  <1>11. NewAreCounted' /\ CountsKnown'
    <2>1. CountTargets' = CountTargets
      BY <1>2 DEF CountTargets, OpenDaily, Daily
    <2>2. \A c \in Bids : Counted(c)' = Counted(c)
      BY <1>2 DEF Counted
    <2>3. CountTargets \subseteq Bids
      BY DEF CountTargets, OpenDaily
    <2> QED BY <1>2, <2>1, <2>2, <2>3 DEF TableInv, NewAreCounted, CountsKnown
  <1> QED BY <1>9, <1>10, <1>11 DEF TableInv

\* Attachments are those a JSON names, and earlier ones keep their place and status.
NamedIn(fs, doc) ==
    \A i \in FilesAt[doc.version] : i \in DOMAIN fs /\ fs[i].version = doc.version

Kept(old, fs) ==
    \A i \in DOMAIN old : i \in DOMAIN fs /\ fs[i].status = old[i].status

\* write_rows, for the attachments of one notice.
LEMMA FilesWritten ==
    ASSUME NEW old, NEW doc, AreFiles(old)
    PROVE  /\ AreFiles(AttachmentRows(old, doc))
           /\ NamedIn(AttachmentRows(old, doc), doc)
           /\ Kept(old, AttachmentRows(old, doc))
  <1> DEFINE new == AttachmentRows(old, doc)
  <1>1. DOMAIN new = DOMAIN old \union FilesAt[doc.version] /\ new = [i \in DOMAIN new |-> new[i]]
    BY DEF AttachmentRows
  <1>2. ASSUME NEW i \in DOMAIN new
        PROVE  /\ IsFile(new[i])
               /\ i \in FilesAt[doc.version] => new[i].version = doc.version
               /\ i \in DOMAIN old => new[i].status = old[i].status
    <2>1. CASE i \notin FilesAt[doc.version]
      <3>1. new[i] = old[i] /\ i \in DOMAIN old
        BY <1>1, <2>1 DEF AttachmentRows
      <3> QED BY <2>1, <3>1 DEF AreFiles
    <2>2. CASE i \in FilesAt[doc.version] /\ i \notin DOMAIN old
      <3>1. new[i] = [version |-> doc.version, status |-> "collected"]
        BY <2>2 DEF AttachmentRows, FileRows
      <3> QED BY <2>2, <3>1 DEF IsFile
    <2>3. CASE i \in FilesAt[doc.version] /\ i \in DOMAIN old
      <3>1. new[i] = [version |-> doc.version, status |-> old[i].status]
        BY <2>3 DEF AttachmentRows, FileRows
      <3>2. IsFile(old[i])
        BY <2>3 DEF AreFiles
      <3> QED BY <2>3, <3>1, <3>2 DEF IsFile
    <2> QED BY <2>1, <2>2, <2>3
  <1> HIDE DEF new
  <1>3. AreFiles(new) /\ NamedIn(new, doc)
    BY <1>1, <1>2 DEF AreFiles, NamedIn
  <1>4. Kept(old, new)
    BY <1>1, <1>2 DEF Kept
  <1> QED BY <1>3, <1>4 DEF new

LEMMA WriteRowsKeeps ==
    ASSUME TableInv, NEW s \in Sources, WriteRows(s)
    PROVE  TableInv'
  <1> DEFINE built == loader[s].built
  <1>1. /\ bidRows' = [b \in Bids |-> IF b \in DOMAIN built THEN BidRow(s, b, built[b]) ELSE bidRows[b]]
        /\ atts' = [b \in Bids |-> IF b \in DOMAIN built
                                   THEN AttachmentRows(atts[b], built[b]) ELSE atts[b]]
        /\ Disturbed
    BY DEF WriteRows
  <1> HIDE DEF built
  <1>2. bidRows' = [b \in Bids |-> bidRows'[b]] /\ atts' = [b \in Bids |-> atts'[b]]
    BY <1>1
  <1>3. ASSUME NEW b \in Bids, b \notin DOMAIN built
        PROVE  bidRows'[b] = bidRows[b] /\ atts'[b] = atts[b]
    BY <1>1, <1>3
  <1>4. ASSUME NEW b \in Bids, b \in DOMAIN built
        PROVE  /\ IsRow(bidRows'[b]) /\ bidRows'[b].version = built[b].version
               /\ atts'[b] = AttachmentRows(atts[b], built[b])
    <2>1. bidRows'[b] = BidRow(s, b, built[b]) /\ atts'[b] = AttachmentRows(atts[b], built[b])
      BY <1>1, <1>4
    <2>2. (bidRows[b] = SqlNull \/ bidRows[b].open) \in BOOLEAN
      BY Zenon
    <2> QED BY <2>1, <2>2 DEF BidRow, IsRow
  <1>5. ASSUME NEW b \in Bids, b \in DOMAIN built
        PROVE  AreFiles(atts'[b]) /\ NamedIn(atts'[b], built[b])
    <2>1. AreFiles(atts[b])
      BY DEF TableInv, TableTypeOK, FilesOK
    <2>2. atts'[b] = AttachmentRows(atts[b], built[b])
      BY <1>4, <1>5
    <2> QED BY <2>1, <2>2, FilesWritten
  <1>6. RowsOK'
    BY <1>2, <1>3, <1>4 DEF TableInv, TableTypeOK, RowsOK
  <1>7. FilesOK'
    BY <1>2, <1>3, <1>5 DEF TableInv, TableTypeOK, FilesOK
  <1>8. RowHasFiles'
    <2> SUFFICES ASSUME NEW b \in Bids, bidRows'[b] # SqlNull, NEW i \in FilesAt[bidRows'[b].version]
                 PROVE  i \in DOMAIN atts'[b] /\ atts'[b][i].version = bidRows'[b].version
      BY DEF RowHasFiles
    <2>1. CASE b \in DOMAIN built
      BY <1>4, <1>5, <2>1 DEF NamedIn
    <2>2. CASE b \notin DOMAIN built
      BY <1>3, <2>2 DEF TableInv, RowHasFiles
    <2> QED BY <2>1, <2>2
  <1> QED BY <1>1, <1>6, <1>7, <1>8, DisturbedKnowsNothing DEF TableInv, TableTypeOK

LEMMA CountingSteps ==
    ASSUME TableInv, NEW b \in Bids, ComputeExpected(b) \/ CountFetchFails(b)
    PROVE  TableInv'
  <1>1. /\ counting # Off /\ b \in counting.todo /\ IsCounting(counting)
        /\ UNCHANGED <<bidRows, atts, json>>
    BY DEF ComputeExpected, CountFetchFails, TableInv, TableTypeOK, CountingOK
  <1> DEFINE now == Estimate[json["daily"][b].version]
             new == IF Changes(counting.was[b], now) THEN Having(counting.new, b, now)
                    ELSE counting.new
  <1>2. b \notin DOMAIN counting.new
    BY <1>1 DEF TableInv, NewAreCounted
  <1>3. RowHasFiles'
    BY <1>1 DEF TableInv, RowHasFiles
  <1>4. ASSUME IsCounting(counting')
        PROVE  TableTypeOK'
    BY <1>1, <1>4 DEF TableInv, TableTypeOK, RowsOK, FilesOK, CountingOK
  <1>5. CASE ComputeExpected(b)
    <2>1. counting' = [counting EXCEPT !.todo = @ \ {b}, !.new = new]
      BY <1>5 DEF ComputeExpected
    <2> HIDE DEF new
    <2>2. /\ counting'.todo = counting.todo \ {b} /\ counting'.new = new
          /\ counting'.was = counting.was /\ (counting'.alone <=> counting.alone)
          /\ IsCounting(counting')
      BY <1>1, <2>1 DEF IsCounting
    <2>3. /\ DOMAIN new \subseteq DOMAIN counting.new \union {b}
          /\ DOMAIN counting.new \subseteq DOMAIN new
          /\ \A c \in DOMAIN counting.new : new[c] = counting.new[c]
          /\ IF Changes(counting.was[b], now) THEN b \in DOMAIN new /\ new[b] = now
             ELSE b \notin DOMAIN new
      BY <1>2 DEF new, Having
    <2>4. NewAreCounted'
      BY <1>1, <2>2, <2>3 DEF TableInv, NewAreCounted
    <2>5. CountsKnown'
      <3> SUFFICES ASSUME counting'.alone, NEW c \in CountTargets
                   PROVE  /\ counting'.was[c] = bidRows[c].expected
                          /\ c \in counting'.todo \/ Counted(c)'
        BY <1>1 DEF CountsKnown, CountTargets, OpenDaily, Daily
      <3>1. /\ counting.was[c] = bidRows[c].expected
            /\ c \in counting.todo \/ Counted(c)
        BY <1>1, <2>2 DEF TableInv, CountsKnown
      <3>2. CASE c = b
        BY <1>1, <2>2, <2>3, <3>1, <3>2 DEF Counted
      <3>3. CASE c # b /\ c \in counting.todo
        BY <2>2, <3>1, <3>3
      <3>4. CASE c # b /\ Counted(c)
        BY <1>1, <2>2, <2>3, <3>1, <3>4 DEF Counted
      <3> QED BY <3>1, <3>2, <3>3, <3>4
    <2> QED BY <1>3, <1>4, <2>2, <2>4, <2>5 DEF TableInv
  <1>6. CASE CountFetchFails(b)
    <2>1. counting' = [counting EXCEPT !.todo = @ \ {b}, !.alone = FALSE]
      BY <1>6 DEF CountFetchFails
    <2>2. /\ counting'.todo = counting.todo \ {b} /\ counting'.new = counting.new
          /\ counting'.alone = FALSE /\ IsCounting(counting')
      BY <1>1, <2>1 DEF IsCounting
    <2>3. NewAreCounted'
      BY <1>1, <2>2 DEF TableInv, NewAreCounted
    <2>4. CountsKnown'
      BY <2>2 DEF CountsKnown
    <2> QED BY <1>3, <1>4, <2>2, <2>3, <2>4 DEF TableInv
  <1> QED BY <1>5, <1>6

LEMMA StartCountingKeeps == ASSUME TableInv, StartCounting PROVE TableInv'
  <1> DEFINE todo == CountTargets
             was == [b \in Bids |-> IF Daily(b) THEN bidRows[b].expected ELSE 0]
             none == [b \in {} |-> 0]
  <1>1. /\ counting' = [todo |-> todo, was |-> was, new |-> none, alone |-> TRUE]
        /\ UNCHANGED <<bidRows, atts, json>>
    BY DEF StartCounting
  <1>2. DOMAIN none = {} /\ todo \subseteq Bids
    BY DEF CountTargets, OpenDaily
  <1>3. ASSUME NEW b \in CountTargets
        PROVE  b \in todo /\ was[b] = bidRows[b].expected
    BY DEF CountTargets, OpenDaily
  <1> HIDE DEF todo, was, none
  <1>4. counting'.todo = todo /\ counting'.was = was /\ counting'.new = none
    BY <1>1
  <1>5. IsCounting(counting')
    BY <1>1, <1>2 DEF IsCounting
  <1>6. TableTypeOK'
    BY <1>1, <1>5 DEF TableInv, TableTypeOK, RowsOK, FilesOK, CountingOK
  <1>7. RowHasFiles' /\ NewAreCounted'
    BY <1>1, <1>2, <1>4 DEF TableInv, RowHasFiles, NewAreCounted
  <1>8. CountsKnown'
    BY <1>1, <1>3, <1>4 DEF CountsKnown, CountTargets, OpenDaily, Daily
  <1> QED BY <1>6, <1>7, <1>8 DEF TableInv

\* Nobody counts: nothing to know.
LEMMA CorrectionKeeps ==
    ASSUME TableInv, UNCHANGED atts,
           counting' = Off \/ Disturbed,
           bidRows' = [b \in Bids |-> bidRows'[b]],
           \A b \in Bids : \/ bidRows'[b] = bidRows[b]
                           \/ /\ bidRows[b] # SqlNull
                              /\ IsRow(bidRows'[b])
                              /\ bidRows'[b].version = bidRows[b].version
    PROVE  TableInv'
  <1>1. RowsOK' /\ FilesOK' /\ RowHasFiles'
    BY RowUpdateKeeps
  <1>2. CountingOK' /\ NewAreCounted' /\ CountsKnown'
    BY DisturbedKnowsNothing DEF CountingOK, NewAreCounted, CountsKnown
  <1> QED BY <1>1, <1>2 DEF TableInv, TableTypeOK

LEMMA CorrectionsKeep == ASSUME TableInv, WriteExpected \/ WriteKinds PROVE TableInv'
  <1>1. UNCHANGED atts /\ (counting' = Off \/ Disturbed)
    BY DEF WriteExpected, WriteKinds
  <1>2. \A b \in Bids : bidRows[b] # SqlNull => IsRow(bidRows[b])
    BY DEF TableInv, TableTypeOK, RowsOK
  <1>3. ASSUME NEW b \in Bids, bidRows[b] # SqlNull, NEW v
        PROVE  /\ IsRow([bidRows[b] EXCEPT !.expected = v]) /\ IsRow([bidRows[b] EXCEPT !.kind = v])
               /\ [bidRows[b] EXCEPT !.expected = v].version = bidRows[b].version
               /\ [bidRows[b] EXCEPT !.kind = v].version = bidRows[b].version
    BY <1>2, <1>3 DEF IsRow
  <1>4. CASE WriteExpected
    <2>1. bidRows' = [b \in Bids |-> IF b \in DOMAIN counting.new /\ Daily(b)
                               THEN [bidRows[b] EXCEPT !.expected = counting.new[b]] ELSE bidRows[b]]
      BY <1>4 DEF WriteExpected
    <2>2. /\ bidRows' = [b \in Bids |-> bidRows'[b]]
          /\ \A b \in Bids : \/ bidRows'[b] = bidRows[b]
                             \/ /\ bidRows[b] # SqlNull
                                /\ bidRows'[b] = [bidRows[b] EXCEPT !.expected = counting.new[b]]
      BY <2>1 DEF Daily
    <2>3. \A b \in Bids : \/ bidRows'[b] = bidRows[b]
                         \/ /\ bidRows[b] # SqlNull
                            /\ IsRow(bidRows'[b])
                            /\ bidRows'[b].version = bidRows[b].version
      <3> TAKE b \in Bids
      <3>1. CASE bidRows'[b] # bidRows[b]
        <4> DEFINE v == counting.new[b]
        <4> HIDE DEF v
        <4>1. bidRows[b] # SqlNull /\ bidRows'[b] = [bidRows[b] EXCEPT !.expected = v]
          BY <2>2, <3>1 DEF v
        <4>2. /\ IsRow([bidRows[b] EXCEPT !.expected = v])
              /\ [bidRows[b] EXCEPT !.expected = v].version = bidRows[b].version
          BY <1>3, <4>1
        <4> QED BY <4>1, <4>2
      <3> QED BY <3>1
    <2> QED BY <1>1, <2>2, <2>3, CorrectionKeeps
  <1>5. CASE WriteKinds
    <2>1. bidRows' = [b \in Bids |-> IF b \in DOMAIN naming.kind /\ StillUnnamed(b)
                               THEN [bidRows[b] EXCEPT !.kind = naming.kind[b]] ELSE bidRows[b]]
      BY <1>5 DEF WriteKinds
    <2>2. /\ bidRows' = [b \in Bids |-> bidRows'[b]]
          /\ \A b \in Bids : \/ bidRows'[b] = bidRows[b]
                             \/ /\ bidRows[b] # SqlNull
                                /\ bidRows'[b] = [bidRows[b] EXCEPT !.kind = naming.kind[b]]
      BY <2>1 DEF StillUnnamed, Unnamed
    <2>3. \A b \in Bids : \/ bidRows'[b] = bidRows[b]
                         \/ /\ bidRows[b] # SqlNull
                            /\ IsRow(bidRows'[b])
                            /\ bidRows'[b].version = bidRows[b].version
      <3> TAKE b \in Bids
      <3>1. CASE bidRows'[b] # bidRows[b]
        <4> DEFINE v == naming.kind[b]
        <4> HIDE DEF v
        <4>1. bidRows[b] # SqlNull /\ bidRows'[b] = [bidRows[b] EXCEPT !.kind = v]
          BY <2>2, <3>1 DEF v
        <4>2. /\ IsRow([bidRows[b] EXCEPT !.kind = v])
              /\ [bidRows[b] EXCEPT !.kind = v].version = bidRows[b].version
          BY <1>3, <4>1
        <4> QED BY <4>1, <4>2
      <3> QED BY <3>1
    <2> QED BY <1>1, <2>2, <2>3, CorrectionKeeps
  <1> QED BY <1>4, <1>5

LEMMA EndCountingKeeps == ASSUME TableInv, EndCounting PROVE TableInv'
  <1>1. counting' = Off /\ UNCHANGED <<bidRows, atts>>
    BY DEF EndCounting
  <1>2. TableTypeOK'
    BY <1>1 DEF TableInv, TableTypeOK, RowsOK, FilesOK, CountingOK
  <1> QED BY <1>1, <1>2 DEF TableInv, RowHasFiles, NewAreCounted, CountsKnown

LEMMA TableStep == ASSUME TableInv, [TableNext]_tableVars PROVE TableInv'
  <1>1. CASE \E b \in Bids, s \in Sources : CollectJson(s, b)
    BY <1>1, CollectKeeps
  <1>2. CASE \E b \in Bids : Judge(b)
    BY <1>2, JudgeKeeps
  <1>3. CASE \E b \in Bids : \E i \in UNION {FilesAt[v] : v \in Versions} : AdvanceFile(b, i)
    BY <1>3, AdvanceKeeps
  <1>4. CASE Loading
    BY <1>4, WriteRowsKeeps DEF Loading
  <1>5. CASE \E b \in Bids : ComputeExpected(b) \/ CountFetchFails(b)
    BY <1>5, CountingSteps
  <1>6. CASE StartCounting \/ WriteExpected \/ WriteKinds \/ EndCounting
    BY <1>6, StartCountingKeeps, CorrectionsKeep, EndCountingKeeps
  <1>7. CASE UNCHANGED <<bidRows, atts, json, counting>>
    BY <1>7, AroundKeeps
  <1> QED
    BY <1>1, <1>2, <1>3, <1>4, <1>5, <1>6, <1>7
    DEF TableNext, tableVars, Release, Amend, BuildRow, ReadKind, StartLoad, EndLoad,
        StartNaming, EndNaming

-------------------------------------------------------------------------------
(* What the writers of the table owe each other.                            *)

\* Whatever is loaded between the SELECT and the UPDATE of a correction, no kind a loader
\* has written is replaced, and no count of a past notice touched.
THEOREM LoadedValuesStayHolds == TableSpec => LoadedValuesStay
  <1>1. TableInit => TableInv
    BY TableInitHolds
  <1>2. TableInv /\ [TableNext]_tableVars => TableInv'
    BY TableStep
  <1> DEFINE Stay == \A b \in Bids :
                        (bidRows[b] # SqlNull /\ ~Loading) =>
                            /\ bidRows[b].kind # SqlNull => bidRows'[b].kind = bidRows[b].kind
                            /\ bidRows[b].source = "backfill" => bidRows'[b].expected = bidRows[b].expected
  <1>3. TableInv /\ [TableNext]_tableVars => [Stay]_tableVars
    <2> SUFFICES ASSUME TableInv, TableNext, ~Loading, NEW b \in Bids, bidRows[b] # SqlNull
                 PROVE  /\ bidRows[b].kind # SqlNull => bidRows'[b].kind = bidRows[b].kind
                        /\ bidRows[b].source = "backfill" => bidRows'[b].expected = bidRows[b].expected
      BY DEF Stay
    <2>1. bidRows = [c \in Bids |-> bidRows[c]] /\ IsRow(bidRows[b])
      BY DEF TableInv, TableTypeOK, RowsOK
    <2>2. CASE \E c \in Bids : Judge(c)
      <3>1. bidRows'[b] = bidRows[b] \/ bidRows'[b] = [bidRows[b] EXCEPT !.open = FALSE]
        BY <2>1, <2>2 DEF Judge
      <3> QED BY <2>1, <3>1 DEF IsRow
    <2>3. CASE WriteExpected
      <3>1. \/ bidRows'[b] = bidRows[b]
            \/ bidRows[b].source = "daily" /\ bidRows'[b] = [bidRows[b] EXCEPT !.expected = counting.new[b]]
        BY <2>3 DEF WriteExpected, Daily
      <3> QED BY <2>1, <3>1 DEF IsRow
    <2>4. CASE WriteKinds
      <3>1. \/ bidRows'[b] = bidRows[b]
            \/ bidRows[b].kind = SqlNull /\ bidRows'[b] = [bidRows[b] EXCEPT !.kind = naming.kind[b]]
        BY <2>4 DEF WriteKinds, StillUnnamed, Unnamed
      <3> QED BY <2>1, <3>1 DEF IsRow
    <2>5. CASE UNCHANGED bidRows
      BY <2>5
    <2> QED
      BY <2>2, <2>3, <2>4, <2>5
      DEF TableNext, Release, Amend, CollectJson, AdvanceFile, StartLoad, BuildRow, EndLoad,
          StartCounting, ComputeExpected, CountFetchFails, EndCounting,
          StartNaming, ReadKind, EndNaming
  <1> QED BY <1>1, <1>2, <1>3, PTL DEF TableSpec, LoadedValuesStay

\* A correction of the counts nobody disturbs leaves the first of the open daily
\* notices, as many as its limit, with the estimate of their JSON, whatever the limit.
THEOREM CountsRepairedHolds == TableSpec => CountsRepaired
  <1>1. TableInit => TableInv
    BY TableInitHolds
  <1>2. TableInv /\ [TableNext]_tableVars => TableInv'
    BY TableStep
  <1> DEFINE Repaired == (WriteExpected /\ counting.alone) =>
                            \A b \in CountTargets :
                                LET now == Estimate[json["daily"][b].version]
                                IN  now # 0 => bidRows'[b].expected = now
  <1>3. TableInv /\ [TableNext]_tableVars => [Repaired]_tableVars
    <2> SUFFICES ASSUME TableInv, WriteExpected, counting.alone,
                        NEW b \in CountTargets,
                        Estimate[json["daily"][b].version] # 0
                 PROVE  bidRows'[b].expected = Estimate[json["daily"][b].version]
      BY DEF Repaired
    <2> DEFINE now == Estimate[json["daily"][b].version]
    <2> b \in Bids /\ Daily(b) /\ bidRows[b].open
      BY DEF CountTargets, OpenDaily
    <2>1. counting # Off /\ counting.todo = {}
      BY DEF WriteExpected
    <2>2. counting.was[b] = bidRows[b].expected /\ Counted(b)
      BY <2>1 DEF TableInv, CountsKnown
    <2>3. bidRows[b] # SqlNull /\ IsRow(bidRows[b])
      BY DEF Daily, TableInv, TableTypeOK, RowsOK
    <2>4. bidRows'[b] = IF b \in DOMAIN counting.new
                     THEN [bidRows[b] EXCEPT !.expected = counting.new[b]] ELSE bidRows[b]
      BY DEF WriteExpected
    <2>5. CASE Changes(counting.was[b], now)
      <3>1. bidRows'[b] = [bidRows[b] EXCEPT !.expected = now]
        BY <2>2, <2>4, <2>5 DEF Counted
      <3> QED BY <2>3, <3>1 DEF IsRow
    <2>6. CASE ~Changes(counting.was[b], now)
      BY <2>2, <2>4, <2>6 DEF Counted, Changes
    <2> QED BY <2>5, <2>6
  <1> QED BY <1>1, <1>2, <1>3, PTL DEF TableSpec, CountsRepaired

LEMMA RankMoves ==
    /\ Rank("collected") = 1 /\ Rank("extracted") = 2 /\ Rank("qualifications") = 3
  BY DEF Rank, Statuses

\* However the loads of a notice from two JSONs and its merging overlap, its attachments
\* come from the JSON its row comes from, and none goes back or away.
THEOREM AttachmentsFollowHolds == TableSpec => AttachmentsFollow
  <1>1. TableInit => TableInv
    BY TableInitHolds
  <1>2. TableInv /\ [TableNext]_tableVars => TableInv'
    BY TableStep
  <1> DEFINE Follow ==
        \A b \in Bids :
            /\ \A i \in DOMAIN atts[b] :
                  i \in DOMAIN atts'[b] /\ Rank(atts[b][i].status) <= Rank(atts'[b][i].status)
            /\ bidRows'[b] # SqlNull =>
                  \A i \in FilesAt[bidRows'[b].version] :
                      i \in DOMAIN atts'[b] /\ atts'[b][i].version = bidRows'[b].version
  <1>3. TableInv /\ TableInv' /\ [TableNext]_tableVars => [Follow]_tableVars
    <2> SUFFICES ASSUME TableInv, TableInv', TableNext, NEW b \in Bids
                 PROVE  \A i \in DOMAIN atts[b] :
                           /\ i \in DOMAIN atts'[b]
                           /\ Rank(atts[b][i].status) <= Rank(atts'[b][i].status)
      BY DEF TableInv, RowHasFiles, Follow
    <2> TAKE i \in DOMAIN atts[b]
    <2>1. /\ atts = [c \in Bids |-> atts[c]]
          /\ AreFiles(atts[b]) /\ IsFile(atts[b][i])
          /\ atts[b] = [j \in DOMAIN atts[b] |-> atts[b][j]]
      BY DEF TableInv, TableTypeOK, FilesOK, AreFiles
    <2>2. Rank(atts[b][i].status) \in 1..3
      BY <2>1, RankMoves DEF IsFile
    <2>3. CASE i \in DOMAIN atts'[b] /\ atts'[b][i].status = atts[b][i].status
      BY <2>2, <2>3
    <2>4. CASE \E c \in Bids : \E j \in UNION {FilesAt[v] : v \in Versions} : AdvanceFile(c, j)
      <3>1. PICK c \in Bids : \E j \in UNION {FilesAt[v] : v \in Versions} : AdvanceFile(c, j)
        BY <2>4
      <3>2. PICK j \in UNION {FilesAt[v] : v \in Versions} : AdvanceFile(c, j)
        BY <3>1
      <3>3. PICK k \in 1..2 : /\ atts[c][j].status = Statuses[k]
                              /\ atts' = [atts EXCEPT ![c][j].status = Statuses[k + 1]]
        BY <3>2 DEF AdvanceFile
      <3>4. CASE c = b /\ j = i
        <4>1. i \in DOMAIN atts'[b] /\ atts'[b][i] = [atts[b][i] EXCEPT !.status = Statuses[k + 1]]
          BY <2>1, <3>3, <3>4
        <4>2. atts'[b][i].status = Statuses[k + 1] /\ atts[b][i].status = Statuses[k]
          BY <2>1, <3>3, <3>4, <4>1 DEF IsFile
        <4> QED BY <4>1, <4>2, RankMoves DEF Statuses
      <3>5. CASE ~(c = b /\ j = i)
        <4>1. i \in DOMAIN atts'[b] /\ atts'[b][i] = atts[b][i]
          BY <2>1, <3>3, <3>5
        <4> QED BY <2>3, <4>1
      <3> QED BY <3>4, <3>5
    <2>5. CASE Loading
      <3>1. PICK s \in Sources : WriteRows(s)
        BY <2>5 DEF Loading
      <3>2. \/ atts'[b] = atts[b]
            \/ atts'[b] = AttachmentRows(atts[b], loader[s].built[b])
        BY <3>1 DEF WriteRows
      <3>3. CASE atts'[b] = AttachmentRows(atts[b], loader[s].built[b])
        <4>1. Kept(atts[b], atts'[b])
          BY <2>1, <3>3, FilesWritten
        <4> QED BY <2>3, <4>1 DEF Kept
      <3> QED BY <2>3, <3>2, <3>3
    <2>6. CASE UNCHANGED atts
      BY <2>3, <2>6
    <2> QED
      BY <2>4, <2>5, <2>6
      DEF TableNext, Release, Amend, CollectJson, Judge, StartLoad, BuildRow, EndLoad,
          StartCounting, ComputeExpected, CountFetchFails, WriteExpected, EndCounting,
          StartNaming, ReadKind, WriteKinds, EndNaming
  <1> QED BY <1>1, <1>2, <1>3, PTL DEF TableSpec, AttachmentsFollow

-------------------------------------------------------------------------------
(* The tags of the notices.                                                 *)

Notice(b) == [about : About(b), codes : Seq(Codes)]

Retagging(r) ==
    /\ r \in [todo : SUBSET Ids, all : SUBSET Ids, decided : {r.decided}, alone : BOOLEAN]
    /\ r.todo \subseteq r.all
    /\ DOMAIN r.decided = r.all

TagTypeOK ==
    /\ notices = [b \in Ids |-> notices[b]]
    /\ \A b \in Ids : notices[b] # None => notices[b] \in Notice(b)
    /\ DOMAIN tags = Ids
    /\ deployed \in DOMAIN Predict
    /\ local \in DOMAIN Predict
    /\ threshold \in DOMAIN Thresholds
    /\ sweep # None => DOMAIN sweep \subseteq Ids
    /\ retag # None => Retagging(retag)
    /\ written \in Nat

\* A guess names the category of its notice and has the confidence of the model, as the
\* column holds it.
GuessKept(b, t) ==
    t.source[1] = "model" =>
        /\ CategoryOf[b] \in DOMAIN MODEL_FOR
        /\ t.source[2] = CategoryOf[b]
        /\ t.exact \in Nat
        /\ t.confidence = Stored(t.exact)

\* So it is of stored tags and of those decided and not yet written.
GuessesKept ==
    /\ \A b \in Ids : tags[b] # None => GuessKept(b, tags[b])
    /\ sweep # None => \A b \in DOMAIN sweep : GuessKept(b, sweep[b])
    /\ retag # None => \A b \in retag.all : GuessKept(b, retag.decided[b])

\* Nothing was written since an undisturbed retagging read: what it decided is what would
\* be decided now, and stands where it was written.
Settling ==
    retag # None /\ retag.alone =>
        /\ \A b \in retag.all : retag.decided[b] = Decide(local, b, notices[b])
        /\ \A b \in retag.all \ retag.todo : tags[b] = retag.decided[b]

IInv == TagTypeOK /\ GuessesKept /\ Settling

-------------------------------------------------------------------------------
(* The rules.                                                               *)

\* What a rule finds is no guess.
LEMMA FixedKept ==
    ASSUME NEW b, NEW tag, NEW source, source # "model"
    PROVE  GuessKept(b, Fixed(tag, source))
  <1>1. Fixed(tag, source).source[1] = source
    BY DEF Fixed
  <1> QED BY <1>1 DEF GuessKept

\* What decide_tag returns names the category of the notice when it is a guess.
LEMMA DecideKept ==
    ASSUME NEW version \in DOMAIN Predict, NEW b \in Ids, NEW row \in Notice(b)
    PROVE  GuessKept(b, Decide(version, b, row))
  <1> DEFINE category == CategoryOf[b]
             code == TagFromCodes(category, row.codes)
  <1>1. category \in Categories
    BY TaggingAssumption
  <1>2. GuessKept(b, Unclassified) /\ GuessKept(b, Fixed(code, "code"))
        /\ GuessKept(b, Fixed(row.about, "cnstty_column"))
    <2>1. GuessKept(b, Fixed(UNCLASSIFIED, "none"))
      BY FixedKept
    <2>2. GuessKept(b, Fixed(code, "code"))
      BY FixedKept
    <2>3. GuessKept(b, Fixed(row.about, "cnstty_column"))
      BY FixedKept
    <2> QED BY <2>1, <2>2, <2>3 DEF Unclassified
  <1>4. CASE category = "cnstwk"
    <2>1. \/ Decide(version, b, row) = Unclassified
          \/ Decide(version, b, row) = Fixed(row.about, "cnstty_column")
      BY <1>4 DEF Decide
    <2> QED BY <2>1, <1>2
  <1>5. CASE category # "cnstwk" /\ code # None
    <2>1. Decide(version, b, row) = Fixed(code, "code")
      BY <1>5, Zenon DEF Decide
    <2> QED BY <2>1, <1>2
  <1>6. CASE category # "cnstwk" /\ code = None /\ row.about = None
    <2>1. Decide(version, b, row) = Unclassified
      BY <1>6 DEF Decide
    <2> QED BY <2>1, <1>2
  <1>7. CASE category # "cnstwk" /\ code = None /\ row.about # None
    <2> DEFINE p == Predict[version][MODEL_FOR[category]][row.about]
               mark == IF Sure(p.confidence, category) THEN "sure" ELSE "low"
               guess == [tag |-> p.tag, source |-> <<"model", category, mark>>,
                         confidence |-> Stored(p.confidence), exact |-> p.confidence]
    <2>1. Decide(version, b, row) = guess
      BY <1>7 DEF Decide, Inferred
    <2>2. category \in DOMAIN MODEL_FOR
      BY <1>1, <1>7 DEF Categories, MODEL_FOR
    <2>3. row.about \in Titles
      BY <1>7 DEF Notice, About
    <2>4. p.confidence \in Nat
      BY <2>2, <2>3, TaggingAssumption
    <2>5. /\ guess.source[2] = category
          /\ guess.exact = p.confidence
          /\ guess.confidence = Stored(p.confidence)
      OBVIOUS
    <2> HIDE DEF guess, p, category
    <2>6. GuessKept(b, guess)
      BY <2>2, <2>4, <2>5 DEF GuessKept, category
    <2> QED BY <2>1, <2>6
  <1> QED BY <1>4, <1>5, <1>6, <1>7

\* numeric(6, 4) keeps a confidence on its side of every threshold it does not round to.
LEMMA RoundingKeepsSide ==
    ASSUME NEW e \in Nat, NEW t \in Nat, Stored(e) # t
    PROVE  Stored(e) >= t <=> e >= UNIT * t
  <1> DEFINE U == UNIT
             half == U \div 2
             q == Stored(e)
  <1>1. U \in Nat /\ U > 0
    BY TaggingAssumption
  <1>2. half \in Nat /\ 2 * half <= U /\ half < U
    BY <1>1
  <1> HIDE DEF U, half
  <1>3. q = (e + half) \div U
    BY DEF Stored, half, U
  <1>4. q \in Nat /\ U * q <= e + half /\ e + half < U * q + U
    BY <1>1, <1>2, <1>3
  <1> HIDE DEF q
  <1>5. U * q \in Nat /\ U * t \in Nat
    BY <1>1, <1>4
  <1>6. CASE q > t
    <2>1. U * q >= U * (t + 1)
      BY <1>6, <1>1, <1>4
    <2>2. U * (t + 1) = U * t + U
      BY <1>1
    <2>3. e >= U * t
      BY <2>1, <2>2, <1>2, <1>4, <1>5, <1>1
    <2> QED BY <2>3, <1>6, <1>4 DEF U, q
  <1>7. CASE q < t
    <2>1. U * t >= U * (q + 1)
      BY <1>7, <1>1, <1>4
    <2>2. U * (q + 1) = U * q + U
      BY <1>1, <1>4
    <2>3. e < U * t
      BY <2>1, <2>2, <1>2, <1>4, <1>5, <1>1
    <2>4. ~(e >= U * t) /\ ~(q >= t)
      BY <2>3, <1>5, <1>7, <1>4
    <2> QED BY <2>4 DEF U, q
  <1>8. q # t
    BY DEF q
  <1> QED BY <1>4, <1>6, <1>7, <1>8

-------------------------------------------------------------------------------
(* Batches.                                                                 *)

\* A finite set has subsets of each size up to its own.
LEMMA SubsetOfSize ==
    ASSUME NEW S, IsFiniteSet(S), NEW n \in Nat, n <= Cardinality(S)
    PROVE  \E T \in SUBSET S : IsFiniteSet(T) /\ Cardinality(T) = n
  <1>1. Cardinality(S) \in Nat /\ ExistsBijection(1 .. Cardinality(S), S)
    BY FS_CardinalityType
  <1>2. PICK f : f \in Bijection(1 .. Cardinality(S), S)
    BY <1>1 DEF ExistsBijection
  <1>3. /\ f \in [1 .. Cardinality(S) -> S]
        /\ \A i, j \in 1 .. Cardinality(S) : f[i] = f[j] => i = j
    BY <1>2 DEF Bijection, Injection, IsInjective
  <1> DEFINE T == {f[i] : i \in 1 .. n}
             g == [i \in 1 .. n |-> f[i]]
  <1>4. 1 .. n \subseteq 1 .. Cardinality(S)
    BY <1>1
  <1>5. T \in SUBSET S
    BY <1>3, <1>4
  <1>6. g \in Bijection(1 .. n, T)
    BY <1>3, <1>4 DEF Bijection, Injection, IsInjective, Surjection
  <1>7. ExistsBijection(1 .. n, T)
    BY <1>6 DEF ExistsBijection
  <1>8. IsFiniteSet(T) /\ Cardinality(T) = n
    BY <1>7, FS_NatBijection, FS_CountingElements
  <1> QED BY <1>5, <1>8

\* As long as something is left to write, a batch can be cut from it.
LEMMA BatchOfRest ==
    ASSUME NEW todo, IsFiniteSet(todo), todo # {}
    PROVE  \E chunk \in SUBSET todo : Chunk(chunk, todo)
  <1>1. Cardinality(todo) \in Nat /\ Cardinality(todo) # 0 /\ BATCH \in Nat \ {0}
    BY FS_CardinalityType, FS_EmptySet, TaggingAssumption
  <1> DEFINE n == IF Cardinality(todo) < BATCH THEN Cardinality(todo) ELSE BATCH
  <1>2. n \in Nat /\ n # 0 /\ n <= Cardinality(todo)
    BY <1>1
  <1> HIDE DEF n
  <1>3. PICK chunk \in SUBSET todo : IsFiniteSet(chunk) /\ Cardinality(chunk) = n
    BY <1>2, SubsetOfSize
  <1>4. chunk # {}
    BY <1>2, <1>3, FS_EmptySet
  <1>5. Chunk(chunk, todo)
    BY <1>3, <1>4 DEF Chunk, n
  <1> QED BY <1>5

-------------------------------------------------------------------------------
(* The steps.                                                               *)

LEMMA InitHolds == ASSUME TagInit PROVE IInv
  BY TaggingAssumption DEF TagInit, IInv, TagTypeOK, GuessesKept, Settling

\* A loader or a merge that writes a notice: the notice is one of its kind, and the
\* retagging is no longer alone.
LEMMA NoticeWritten ==
    ASSUME IInv, NEW b \in Ids, NEW new \in Notice(b),
           notices' = [notices EXCEPT ![b] = new],
           retag' = Disturb(retag),
           written' \in Nat,
           UNCHANGED <<tags, deployed, local, threshold, sweep>>
    PROVE  IInv'
  <1> USE DEF IInv
  <1>1. retag' = None \/ (retag # None /\ retag' = [retag EXCEPT !.alone = FALSE])
    BY DEF Disturb
  <1>2. retag' # None => /\ retag # None /\ retag'.todo = retag.todo /\ retag'.all = retag.all
                         /\ retag'.decided = retag.decided /\ retag'.alone = FALSE
                         /\ Retagging(retag')
    BY <1>1 DEF TagTypeOK, Retagging
  <1>3. TagTypeOK'
    BY <1>2 DEF TagTypeOK, Notice, About
  <1>4. GuessesKept'
    BY <1>2 DEF GuessesKept, GuessKept, Stored
  <1>5. Settling'
    BY <1>2 DEF Settling
  <1> QED BY <1>3, <1>4, <1>5

LEMMA LoadNoticeKeeps == ASSUME IInv, NEW b \in Ids, LoadNotice(b) PROVE IInv'
  <1>1. PICK text \in About(b) :
          notices' = [notices EXCEPT ![b] =
            [about |-> text, codes |-> IF notices[b] = None THEN <<>> ELSE notices[b].codes]]
    BY DEF LoadNotice
  <1> DEFINE codes == IF notices[b] = None THEN <<>> ELSE notices[b].codes
  <1>2. codes \in Seq(Codes)
    BY DEF IInv, TagTypeOK, Notice
  <1> HIDE DEF codes
  <1>3. [about |-> text, codes |-> codes] \in Notice(b)
    BY <1>2 DEF Notice
  <1>4. /\ retag' = Disturb(retag) /\ written' \in Nat
        /\ UNCHANGED <<tags, deployed, local, threshold, sweep>>
    BY DEF LoadNotice, IInv, TagTypeOK
  <1> QED BY <1>1, <1>3, <1>4, NoticeWritten DEF codes

LEMMA MergeCodeKeeps ==
    ASSUME IInv, NEW b \in Ids, NEW c \in Codes, MergeCode(b, c)
    PROVE  IInv'
  <1>1. notices[b] \in Notice(b)
    BY DEF MergeCode, IInv, TagTypeOK
  <1>2. PICK i \in 1 .. Len(notices[b].codes) + 1 :
          notices' = [notices EXCEPT ![b].codes = InsertAt(@, i, c)]
    BY DEF MergeCode
  <1> DEFINE codes == InsertAt(notices[b].codes, i, c)
             new == [notices[b] EXCEPT !.codes = codes]
  <1>3. notices[b].codes \in Seq(Codes)
    BY <1>1 DEF Notice
  <1>4. codes \in Seq(Codes)
    <2>1. /\ SubSeq(notices[b].codes, 1, i - 1) \in Seq(Codes)
          /\ SubSeq(notices[b].codes, i, Len(notices[b].codes)) \in Seq(Codes)
      BY <1>3
    <2>2. <<c>> \in Seq(Codes)
      OBVIOUS
    <2> QED BY <2>1, <2>2 DEF InsertAt
  <1>5. notices' = [notices EXCEPT ![b] = new]
    BY <1>2
  <1> HIDE DEF codes
  <1>6. new \in Notice(b)
    BY <1>1, <1>4 DEF Notice
  <1>7. /\ retag' = Disturb(retag) /\ written' \in Nat
        /\ UNCHANGED <<tags, deployed, local, threshold, sweep>>
    BY DEF MergeCode, IInv, TagTypeOK
  <1> HIDE DEF new
  <1> QED BY <1>5, <1>6, <1>7, NoticeWritten

\* Models and thresholds change only when nothing that reads them is under way.
LEMMA SettingsKeep ==
    ASSUME IInv, Retrain \/ Deploy \/ SetThreshold
    PROVE  IInv'
  <1> USE DEF IInv
  <1>1. TagTypeOK'
    BY DEF Retrain, Deploy, SetThreshold, TagTypeOK, Retagging, Notice, About
  <1>2. GuessesKept'
    BY DEF Retrain, Deploy, SetThreshold, GuessesKept, GuessKept, Stored
  <1>3. Settling'
    <2>1. CASE Retrain \/ SetThreshold
      BY <2>1 DEF Retrain, SetThreshold, Settling
    <2>2. CASE Deploy
      BY <2>2 DEF Deploy, Settling, Decide, Inferred, Sure
    <2> QED BY <2>1, <2>2
  <1> QED BY <1>1, <1>2, <1>3

LEMMA SweepDecidesKeeps == ASSUME IInv, SweepDecides PROVE IInv'
  <1> USE DEF IInv
  <1> DEFINE chosen == Latest(Untagged, TAG_MAX_PER_RUN)
  <1>1. chosen \subseteq Untagged /\ chosen \subseteq Ids
    BY DEF Latest, Untagged
  <1>2. sweep' = [b \in chosen |-> Decide(deployed, b, notices[b])]
    BY DEF SweepDecides
  <1> HIDE DEF chosen
  <1>3. TagTypeOK'
    BY <1>1, <1>2 DEF SweepDecides, TagTypeOK, Retagging, Notice, About
  <1>4. \A b \in chosen : GuessKept(b, sweep'[b])
    <2> TAKE b \in chosen
    <2>1. notices[b] \in Notice(b) /\ deployed \in DOMAIN Predict
      BY <1>1 DEF Untagged, TagTypeOK
    <2>2. GuessKept(b, Decide(deployed, b, notices[b]))
      BY <1>1, <2>1, DecideKept
    <2> QED BY <1>2, <2>2
  <1>5. GuessesKept'
    BY <1>2, <1>4 DEF SweepDecides, GuessesKept, GuessKept, Stored
  <1>6. Settling'
    BY DEF SweepDecides, Settling, Decide, Inferred, Sure
  <1> QED BY <1>3, <1>5, <1>6

LEMMA SweepWritesKeeps == ASSUME IInv, SweepWrites PROVE IInv'
  <1> USE DEF IInv
  <1>1. /\ sweep # None /\ sweep' = None /\ retag' = Disturb(retag)
        /\ tags' = [b \in Ids |-> IF b \in DOMAIN sweep THEN sweep[b] ELSE tags[b]]
        /\ UNCHANGED <<notices, deployed, local, threshold, written>>
    BY DEF SweepWrites
  <1>2. /\ DOMAIN tags' = Ids
        /\ \A b \in Ids : tags'[b] = IF b \in DOMAIN sweep THEN sweep[b] ELSE tags[b]
    BY <1>1 DEF TagTypeOK
  <1>3. retag' # None => /\ retag # None /\ retag'.todo = retag.todo /\ retag'.all = retag.all
                         /\ retag'.decided = retag.decided /\ retag'.alone = FALSE
                         /\ Retagging(retag')
    BY <1>1 DEF TagTypeOK, Retagging, Disturb
  <1>4. TagTypeOK'
    BY <1>1, <1>2, <1>3 DEF TagTypeOK, Notice, About
  <1>5. GuessesKept'
    BY <1>1, <1>2, <1>3 DEF GuessesKept, GuessKept, Stored
  <1>6. Settling'
    BY <1>3 DEF Settling
  <1> QED BY <1>4, <1>5, <1>6

LEMMA SweepFailsKeeps == ASSUME IInv, SweepFails PROVE IInv'
  <1> USE DEF IInv, SweepFails
  <1>1. TagTypeOK'
    BY DEF TagTypeOK, Retagging, Notice, About
  <1>2. GuessesKept'
    BY DEF GuessesKept, GuessKept, Stored
  <1>3. Settling'
    BY DEF Settling, Decide, Inferred, Sure
  <1> QED BY <1>1, <1>2, <1>3

LEMMA RetagReadsKeeps == ASSUME IInv, NEW category, RetagReads(category) PROVE IInv'
  <1> USE DEF IInv
  <1> DEFINE all == OfCategory(category)
             decided == [b \in all |-> Decide(local, b, notices[b])]
  <1>1. all \subseteq Ids /\ \A b \in all : notices[b] # None
    BY DEF OfCategory
  <1>2. /\ retag' = [todo |-> all, all |-> all, decided |-> decided, alone |-> sweep = None]
        /\ UNCHANGED <<notices, tags, deployed, local, threshold, sweep, written>>
    BY DEF RetagReads
  <1> HIDE DEF all
  <1>3. retag'.todo = all /\ retag'.all = all /\ retag'.decided = decided
    BY <1>2
  <1>4. Retagging(retag')
    BY <1>1, <1>2 DEF Retagging
  <1>5. TagTypeOK'
    BY <1>2, <1>4 DEF TagTypeOK, Notice, About
  <1>6. \A b \in all : GuessKept(b, decided[b])
    <2> TAKE b \in all
    <2>1. notices[b] \in Notice(b) /\ local \in DOMAIN Predict
      BY <1>1 DEF TagTypeOK
    <2>2. GuessKept(b, Decide(local, b, notices[b]))
      BY <1>1, <2>1, DecideKept
    <2> QED BY <2>2
  <1> HIDE DEF decided
  <1>7. GuessesKept'
    BY <1>2, <1>3, <1>6 DEF GuessesKept, GuessKept, Stored
  <1>8. Settling'
    <2>1. \A b \in all : decided[b] = Decide(local, b, notices[b])'
      BY <1>2 DEF decided, Decide, Inferred, Sure
    <2>2. all \ all = {}
      OBVIOUS
    <2> QED BY <1>3, <2>1, <2>2 DEF Settling
  <1> QED BY <1>5, <1>7, <1>8

LEMMA RetagWritesKeeps ==
    ASSUME IInv, NEW chunk \in SUBSET Ids, RetagWrites(chunk)
    PROVE  IInv'
  <1> USE DEF IInv
  <1>1. /\ retag # None /\ chunk \subseteq retag.todo
        /\ tags' = [b \in Ids |-> IF b \in chunk THEN retag.decided[b] ELSE tags[b]]
        /\ retag' = [retag EXCEPT !.todo = @ \ chunk]
        /\ UNCHANGED <<notices, deployed, local, threshold, sweep, written>>
    BY DEF RetagWrites
  <1>2. Retagging(retag)
    BY <1>1 DEF TagTypeOK
  <1>3. /\ retag'.todo = retag.todo \ chunk /\ retag'.all = retag.all
        /\ retag'.decided = retag.decided /\ retag'.alone = retag.alone
        /\ Retagging(retag')
    BY <1>1, <1>2 DEF Retagging
  <1>4. chunk \subseteq retag.all
    BY <1>1, <1>2 DEF Retagging
  <1>5. TagTypeOK'
    BY <1>1, <1>3 DEF TagTypeOK, Notice, About
  <1>6. GuessesKept'
    <2>1. \A b \in chunk : GuessKept(b, retag.decided[b])
      BY <1>1, <1>4 DEF GuessesKept
    <2> QED BY <1>1, <1>3, <2>1 DEF GuessesKept, GuessKept, Stored
  <1>7. Settling'
    <2> SUFFICES ASSUME retag'.alone
                 PROVE  /\ \A b \in retag.all :
                             retag.decided[b] = Decide(local, b, notices[b])'
                        /\ \A b \in retag.all \ (retag.todo \ chunk) :
                             tags'[b] = retag.decided[b]
      BY <1>3 DEF Settling
    <2>1. retag.alone
      BY <1>3
    <2>2. /\ \A b \in retag.all : retag.decided[b] = Decide(local, b, notices[b])
          /\ \A b \in retag.all \ retag.todo : tags[b] = retag.decided[b]
      BY <1>1, <2>1 DEF Settling
    <2>3. \A b \in retag.all : retag.decided[b] = Decide(local, b, notices[b])'
      BY <1>1, <2>2 DEF Decide, Inferred, Sure
    <2>4. retag.all \subseteq Ids
      BY <1>2 DEF Retagging
    <2>5. \A b \in retag.all \ (retag.todo \ chunk) : tags'[b] = retag.decided[b]
      BY <1>1, <2>2, <2>4
    <2> QED BY <2>3, <2>5
  <1> QED BY <1>5, <1>6, <1>7

LEMMA RetagOverKeeps == ASSUME IInv, RetagEnds \/ RetagStops PROVE IInv'
  BY DEF IInv, RetagEnds, RetagStops, TagTypeOK, GuessesKept, Settling, Notice, About, GuessKept, Stored

LEMMA IInvNext == ASSUME IInv, [TagNext]_tagVars PROVE IInv'
  <1>1. CASE \E b \in Ids : LoadNotice(b) \/ \E c \in Codes : MergeCode(b, c)
    BY <1>1, LoadNoticeKeeps, MergeCodeKeeps
  <1>2. CASE Retrain \/ Deploy \/ SetThreshold
    BY <1>2, SettingsKeep
  <1>3. CASE SweepDecides \/ SweepWrites \/ SweepFails
    BY <1>3, SweepDecidesKeeps, SweepWritesKeeps, SweepFailsKeeps
  <1>4. CASE \E category \in {CategoryOf[b] : b \in Ids} \cup {None} : RetagReads(category)
    BY <1>4, RetagReadsKeeps
  <1>5. CASE \E chunk \in SUBSET Ids : RetagWrites(chunk)
    BY <1>5, RetagWritesKeeps
  <1>6. CASE RetagEnds \/ RetagStops
    BY <1>6, RetagOverKeeps
  <1>7. CASE UNCHANGED tagVars
    <2>1. TagTypeOK'
      BY <1>7 DEF IInv, tagVars, TagTypeOK, Retagging, Notice, About
    <2>2. GuessesKept'
      BY <1>7 DEF IInv, tagVars, GuessesKept, GuessKept, Stored
    <2>3. Settling'
      BY <1>7 DEF IInv, tagVars, Settling, Decide, Inferred, Sure
    <2> QED BY <2>1, <2>2, <2>3 DEF IInv
  <1> QED BY <1>1, <1>2, <1>3, <1>4, <1>5, <1>6, <1>7 DEF TagNext

-------------------------------------------------------------------------------
(* The theorems.                                                            *)

\* The notices, the tags and what the two writers of tags hold have their types: rows of
\* bid_table, a model that exists, notices of the category a retagging was started for.
THEOREM TypeCorrect == TagSpec => []TagTypeOK
  <1>1. TagInit => IInv
    BY InitHolds
  <1>2. IInv /\ [TagNext]_tagVars => IInv'
    BY IInvNext
  <1>3. IInv => TagTypeOK
    BY DEF IInv
  <1> QED BY <1>1, <1>2, <1>3, PTL DEF TagSpec

\* A stored guess, by whichever model and under whichever threshold, is judged by
\* is_confident as the confidence of the model demands today, but for one the column
\* rounds to the threshold itself.
THEOREM RejudgedHolds == TagSpec => []Rejudged
  <1>1. TagInit => IInv
    BY InitHolds
  <1>2. IInv /\ [TagNext]_tagVars => IInv'
    BY IInvNext
  <1>3. IInv => Rejudged
    <2> SUFFICES ASSUME IInv, NEW b \in Ids, tags[b] # None, tags[b].source[1] = "model",
                        Stored(tags[b].exact) # Thresholds[threshold][CategoryOf[b]]
                 PROVE  IsConfident(tags[b]) <=> Sure(tags[b].exact, CategoryOf[b])
      BY DEF Rejudged
    <2> DEFINE e == tags[b].exact
               t == Thresholds[threshold][CategoryOf[b]]
    <2>1. /\ CategoryOf[b] \in DOMAIN MODEL_FOR
          /\ tags[b].source[2] = CategoryOf[b]
          /\ e \in Nat
          /\ tags[b].confidence = Stored(e)
      BY DEF IInv, GuessesKept, GuessKept
    <2>2. t \in Nat
      BY <2>1, TaggingAssumption DEF IInv, TagTypeOK
    <2>3. IsConfident(tags[b]) <=> Stored(e) >= t
      BY <2>1 DEF IsConfident
    <2>4. Sure(e, CategoryOf[b]) <=> e >= UNIT * t
      BY DEF Sure
    <2>5. Stored(e) # t
      OBVIOUS
    <2> HIDE DEF e, t
    <2>6. Stored(e) >= t <=> e >= UNIT * t
      BY <2>1, <2>2, <2>5, RoundingKeepsSide
    <2> QED BY <2>3, <2>4, <2>6 DEF e
  <1> QED BY <1>1, <1>2, <1>3, PTL DEF TagSpec

\* An undisturbed retagging that comes to its end has given every notice it read the tag
\* the rules decide with its own model: no batch is left over, the last one included.
THEOREM RetagSettlesHolds == TagSpec => RetagSettles
  <1>1. TagInit => IInv
    BY InitHolds
  <1>2. IInv /\ [TagNext]_tagVars => IInv'
    BY IInvNext
  <1> DEFINE Settles == (RetagEnds /\ retag.alone) =>
                            \A b \in retag.all : tags'[b] = Decide(local, b, notices[b])
  <1>3. IInv /\ [TagNext]_tagVars => [Settles]_tagVars
    <2> SUFFICES ASSUME IInv, RetagEnds, retag.alone, NEW b \in retag.all
                 PROVE  tags'[b] = Decide(local, b, notices[b])
      OBVIOUS
    <2>1. retag # None /\ Retagging(retag)
      BY DEF RetagEnds, IInv, TagTypeOK
    <2>2. retag.todo \subseteq Ids
      BY <2>1 DEF Retagging
    <2>3. IsFiniteSet(retag.todo)
      BY <2>2, FS_Subset, TaggingAssumption
    <2>4. retag.todo = {}
      BY <2>3, BatchOfRest DEF RetagEnds
    <2>5. tags[b] = retag.decided[b] /\ retag.decided[b] = Decide(local, b, notices[b])
      BY <2>1, <2>4 DEF IInv, Settling
    <2> QED BY <2>5 DEF RetagEnds
  <1> QED BY <1>1, <1>2, <1>3, PTL DEF TagSpec, RetagSettles

-------------------------------------------------------------------------------
(* Model selection: the ends of the grid.                                   *)

\* Of the constants: the range of scores, and what lies past the grid.
LEMMA MaxScoreNat == MaxScore \in Nat
  BY ModelAssumption

LEMMA PastTheGrid ==
    /\ DOMAIN Beyond = {"lower", "upper"}
    /\ \A c \in Beyond.lower \cup Beyond.upper : c # Min(C_GRID) /\ c # Max(C_GRID)
  <1>1. DOMAIN Beyond = {"lower", "upper"}
    BY ModelAssumption
  <1>2. \A e \in DOMAIN Beyond : Beyond[e] \cap {Min(C_GRID), Max(C_GRID)} = {}
    BY ModelAssumption
  <1> QED BY <1>1, <1>2

\* Settings past the grid are settings too.
LEMMA PastAreSettings ==
    ASSUME NEW top, NEW s \in Settings(top, GridOf)
    PROVE  s \in Settings(top, AllOf) /\ Past(s) \subseteq Settings(top, AllOf)
  <1>1. PICK r \in top, k \in DOMAIN GridOf : \E c \in GridOf[k] :
            s = [repr |-> r, clf |-> k, c |-> c]
    BY DEF Settings
  <1>2. ASSUME NEW c \in AllOf[k] PROVE [repr |-> r, clf |-> k, c |-> c] \in Settings(top, AllOf)
    BY DEF Settings
  <1>3. /\ GridOf[k] \subseteq AllOf[k]
        /\ Beyond.lower \subseteq AllOf[k] /\ Beyond.upper \subseteq AllOf[k]
    BY PastTheGrid DEF AllOf
  <1>4. ASSUME NEW t \in Past(s) PROVE t \in Settings(top, AllOf)
    <2>1. PICK c \in Beyond.lower \cup Beyond.upper : t = [s EXCEPT !.c = c]
      BY DEF Past
    <2>2. t = [repr |-> r, clf |-> k, c |-> c]
      BY <1>1, <2>1
    <2> QED BY <1>2, <1>3, <2>2
  <1> QED BY <1>1, <1>2, <1>3, <1>4

\* Whatever the scores: the saved setting, the best of all in the end, was the best of its
\* classifier before, so C was taken past the end it is at.
LEMMA NonePassedOver ==
    ASSUME NEW outcome \in Outcomes
    PROVE  outcome.passedOver = {}
  <1>1. PICK top \in kSubset(TOP_N_REPR, Representations) :
          \E score \in [Settings(top, AllOf) -> 0 .. MaxScore] : \E r \in Results(top, score) :
              outcome = [setting |-> r.best, passedOver |-> PassedOver(r)]
    BY DEF Outcomes
  <1>2. PICK score \in [Settings(top, AllOf) -> 0 .. MaxScore] : \E r \in Results(top, score) :
              outcome = [setting |-> r.best, passedOver |-> PassedOver(r)]
    BY <1>1
  <1>3. PICK r \in Results(top, score) :
              outcome = [setting |-> r.best, passedOver |-> PassedOver(r)]
    BY <1>2
  <1> DEFINE measured == Measured(Settings(top, GridOf), score)
             of(k) == {s \in measured : s.clf = k}
  <1>4. PICK w \in SUBSET measured :
            /\ \A k \in DOMAIN GridOf :
                  of(k) # {} => \E s \in Best(of(k), score) : w \cap of(k) = {s}
            /\ \E s \in Sorted(measured, Extension(w, score), score) :
                  r = [best |-> s, tried |-> measured \cup Extension(w, score), score |-> score]
    BY DEF Results
  <1>5. PICK s \in Sorted(measured, Extension(w, score), score) :
              r = [best |-> s, tried |-> measured \cup Extension(w, score), score |-> score]
    BY <1>4
  <1> DEFINE tried == measured \cup Extension(w, score)
  <1>6. s \in tried /\ \A t \in tried : score[t] <= score[s]
    BY DEF Sorted, Best
  <1>7. r.best = s /\ r.tried = tried /\ r.score = score
    BY <1>5
  <1>8. measured \subseteq Settings(top, GridOf)
    BY DEF Measured
  <1>9. SUFFICES ASSUME NEW t \in PassedOver(r) PROVE FALSE
    BY <1>3
  <1>10. /\ t \in Past(s) /\ score[t] > score[s]
         /\ \A u \in tried : u.clf = s.clf /\ score[u] = score[s] => u = s
    BY <1>7 DEF PassedOver
  <1>11. s \in measured
    <2>1. s.c \in {Min(C_GRID), Max(C_GRID)}
      BY <1>10 DEF Past
    <2>2. ASSUME s \in Extension(w, score) PROVE s.c \in Beyond.lower \cup Beyond.upper
      <3>1. PICK v \in w : s \in Past(v)
        BY <2>2 DEF Extension, Measured
      <3>2. PICK c \in Beyond.lower \cup Beyond.upper : s = [v EXCEPT !.c = c]
        BY <3>1 DEF Past
      <3>3. v \in Settings(top, GridOf)
        BY <1>8
      <3>4. PICK a \in top, k \in DOMAIN GridOf : \E d \in GridOf[k] :
                v = [repr |-> a, clf |-> k, c |-> d]
        BY <3>3 DEF Settings
      <3> QED BY <3>2, <3>4
    <2> QED BY <1>6, <2>1, <2>2, PastTheGrid
  <1>12. /\ s \in Settings(top, AllOf) /\ t \in Settings(top, AllOf)
         /\ s.clf \in DOMAIN GridOf
    <2>1. s \in Settings(top, GridOf)
      BY <1>8, <1>11
    <2>2. s.clf \in DOMAIN GridOf
      BY <2>1 DEF Settings
    <2> QED BY <1>10, <2>1, <2>2, PastAreSettings
  <1>13. score[s] \in Nat /\ score[t] \in Nat
    <2>1. score[s] \in 0 .. MaxScore /\ score[t] \in 0 .. MaxScore
      BY <1>12
    <2> QED BY <2>1, MaxScoreNat
  <1>14. s \in w
    <2>1. s \in of(s.clf)
      BY <1>11
    <2>2. PICK v \in Best(of(s.clf), score) : w \cap of(s.clf) = {v}
      BY <1>4, <1>12, <2>1
    <2>3. v \in measured /\ v.clf = s.clf /\ score[s] <= score[v]
      BY <2>1, <2>2 DEF Best
    <2>4. v \in Settings(top, AllOf)
      BY <1>8, <2>3, PastAreSettings
    <2>5. score[v] \in 0 .. MaxScore
      BY <2>4
    <2>6. score[v] \in Nat /\ score[v] <= score[s]
      BY <1>6, <2>3, <2>5, MaxScoreNat
    <2>7. score[v] = score[s]
      BY <1>13, <2>3, <2>6
    <2>8. v = s
      BY <1>10, <2>3, <2>7
    <2> QED BY <2>2, <2>8
  <1>15. t \in Extension(w, score)
    <2>1. score[t] # 0
      BY <1>10, <1>13
    <2> QED BY <1>10, <1>14, <2>1 DEF Extension, Measured
  <1>16. score[t] <= score[s]
    BY <1>6, <1>15
  <1> QED BY <1>10, <1>13, <1>16

\* A C at an end of the grid is saved only where none past that end scores better, for
\* any grids and whatever the folds score (the extension of stage_clf).
THEOREM EndsExploredHolds == ModelSpec => []EndsExplored
  <1>1. ModelInit => EndsExplored
    BY DEF ModelInit, EndsExplored
  <1>2. EndsExplored /\ [ModelNext]_modelVars => EndsExplored'
    <2> SUFFICES ASSUME EndsExplored, [ModelNext]_modelVars PROVE EndsExplored'
      OBVIOUS
    <2>1. CASE SaveBest
      <3>1. PICK outcome \in Outcomes : model'.passedOver = outcome.passedOver
        BY <2>1 DEF SaveBest
      <3> QED BY <3>1, NonePassedOver DEF EndsExplored
    <2>2. model' = model \/ SaveBest
      BY DEF ModelNext, modelVars, Code, LoseCode, StartSearch, RankRepresentations, EndSearch,
             StartEvaluation, Evaluate, EndEvaluation, StartDeployment, ReadRows, Export,
             Verify, PickThresholds, CopyWeights, CopyVocabulary, EndDeployment
    <2> QED BY <2>1, <2>2 DEF EndsExplored
  <1> QED BY <1>1, <1>2, PTL DEF ModelSpec

-------------------------------------------------------------------------------
(* Model selection: the installation.                                       *)

Exported == {"verify", "curve", "copy npz", "copy json"}

\* From its export to its end an installation finds its own two files.
Installing ==
    /\ saves \in Nat
    /\ model # Nothing => model.no \in Nat
    /\ artifacts \in [npz : {artifacts.npz}, json : {artifacts.json}]
    /\ installed \in [npz : {installed.npz}, json : {installed.json}]
    /\ deployment # Nothing =>
         /\ deployment.no \in Nat
         /\ deployment.at = "copy npz" => deployment.rows = Nothing
         /\ deployment \in [no : {deployment.no}, rows : {deployment.rows},
                            thresholds : {deployment.thresholds}, at : {deployment.at}]
         /\ deployment.at \in {"json"} \cup Exported => artifacts.npz = deployment.no
         /\ deployment.at \in Exported => artifacts.json = deployment.no
         /\ deployment.at = "copy json" => installed.npz = artifacts.npz

InstallInv == Installing /\ InstalledTogether

LEMMA InstallStep ==
    ASSUME InstallInv, [ModelNext]_modelVars
    PROVE  InstallInv'
  <1> USE DEF InstallInv, Exported
  <1>1. CASE UNCHANGED <<artifacts, installed, torn, deployment>>
    <2>1. saves' \in Nat /\ (model' # Nothing => model'.no \in Nat)
      <3>1. CASE SaveBest
        <4>1. saves' = saves + 1
          BY <3>1 DEF SaveBest
        <4>2. PICK outcome \in Outcomes :
                model' = [no |-> saves', trained |-> Pool(search.rows),
                          ranked |-> search.ranked, passedOver |-> outcome.passedOver]
          BY <3>1 DEF SaveBest
        <4>3. model'.no = saves'
          BY <4>2
        <4>4. saves \in Nat
          BY DEF Installing
        <4> QED BY <4>1, <4>3, <4>4
      <3>2. UNCHANGED <<saves, model>> \/ SaveBest
        BY <1>1 DEF ModelNext, modelVars, Code, LoseCode, StartSearch, RankRepresentations,
             EndSearch, StartEvaluation, Evaluate, EndEvaluation, StartDeployment, ReadRows,
             Export, Verify, PickThresholds, CopyWeights, CopyVocabulary, EndDeployment
      <3> QED BY <3>1, <3>2 DEF Installing
    <2> QED BY <1>1, <2>1 DEF Installing, InstalledTogether
  <1>2. CASE StartDeployment
    BY <1>2 DEF StartDeployment, Installing, InstalledTogether
  <1>3. CASE ReadRows \/ Verify \/ PickThresholds
    <2>1. /\ deployment # Nothing /\ deployment'.no = deployment.no
          /\ deployment.at # "copy json" /\ deployment'.at # "copy json"
          /\ deployment'.at \in Exported => deployment.at \in Exported
          /\ deployment'.at # "json"
          /\ deployment'.at = "copy npz" => deployment'.rows = Nothing
          /\ deployment' \in [no : {deployment'.no}, rows : {deployment'.rows},
                             thresholds : {deployment'.thresholds}, at : {deployment'.at}]
          /\ UNCHANGED <<artifacts, installed, torn, saves, model>>
      BY <1>3 DEF ReadRows, Verify, PickThresholds, Installing
    <2> QED BY <2>1 DEF Installing, InstalledTogether
  <1>4. CASE Export("npz", "json") \/ Export("json", "verify")
    BY <1>4 DEF Export, Installing, InstalledTogether
  <1>5. CASE CopyWeights
    <2>1. /\ deployment # Nothing /\ deployment.at = "copy npz"
          /\ installed' = [installed EXCEPT !.npz = artifacts.npz]
          /\ deployment' = [deployment EXCEPT !.thresholds = Nothing, !.at = "copy json"]
          /\ UNCHANGED <<artifacts, torn, saves, model>>
      BY <1>5 DEF CopyWeights
    <2>2. /\ deployment'.at = "copy json" /\ deployment'.no = deployment.no
          /\ deployment' \in [no : {deployment'.no}, rows : {deployment'.rows},
                             thresholds : {deployment'.thresholds}, at : {deployment'.at}]
      BY <2>1 DEF Installing
    <2>3. /\ installed'.npz = artifacts.npz
          /\ installed' \in [npz : {installed'.npz}, json : {installed'.json}]
      BY <2>1 DEF Installing
    <2>4. deployment' \in [no : Nat, rows : {Nothing}, thresholds : {Nothing}, at : {"copy json"}]
      <3> DEFINE d == deployment'
      <3>1. deployment.no \in Nat /\ deployment.rows = Nothing
        BY <2>1 DEF Installing
      <3>2. d.no = deployment.no /\ d.rows = deployment.rows
        BY <2>1 DEF Installing
      <3>3. d.thresholds = Nothing /\ d.at = "copy json"
        BY <2>1 DEF Installing
      <3>4. d \in [no : {d.no}, rows : {d.rows}, thresholds : {d.thresholds}, at : {d.at}]
        BY <2>2
      <3>5. d.no \in Nat /\ d.rows = Nothing /\ d.at = "copy json"
        BY <3>1, <3>2, <3>3
      <3> HIDE DEF d
      <3>6. d \in [no : Nat, rows : {Nothing}, thresholds : {Nothing}, at : {"copy json"}]
        BY <3>3, <3>4, <3>5
      <3> QED BY <3>6 DEF d
    <2>5. deployment' # Nothing
      BY <2>4, ModelAssumption
    <2>6. InstalledTogether'
      BY <2>2, <2>5 DEF InstalledTogether
    <2> QED BY <2>1, <2>2, <2>3, <2>6 DEF Installing
  <1>6. CASE CopyVocabulary
    BY <1>6 DEF CopyVocabulary, Installing, InstalledTogether
  <1>7. CASE EndDeployment
    BY <1>7 DEF EndDeployment, Installing, InstalledTogether
  <1> QED BY <1>1, <1>2, <1>3, <1>4, <1>5, <1>6, <1>7
          DEF ModelNext, modelVars, Code, LoseCode, StartSearch, RankRepresentations,
              SaveBest, EndSearch, StartEvaluation, Evaluate, EndEvaluation

\* The two files the Lambda reads are of one model, unless an installation is between them
\* or stopped there and none was completed since: whatever models were saved or exported
\* meanwhile, and wherever programs die.
THEOREM InstalledTogetherHolds == ModelSpec => []InstalledTogether
  <1>1. ModelInit => InstallInv
    BY DEF ModelInit, InstallInv, Installing, InstalledTogether, NoFiles
  <1>2. InstallInv /\ [ModelNext]_modelVars => InstallInv'
    BY InstallStep
  <1>3. InstallInv => InstalledTogether
    BY DEF InstallInv
  <1> QED BY <1>1, <1>2, <1>3, PTL DEF ModelSpec

-------------------------------------------------------------------------------
(* Numbers: the least, the greatest, induction over a set.                  *)

LEMMA LeastOf ==
    ASSUME NEW S, S \subseteq Nat, S # {}
    PROVE  Min(S) \in S /\ \A n \in S : Min(S) <= n
  <1>1. PICK n \in S : \A m \in S : ~(<<m, n>> \in OpToRel(<, Nat))
    BY NatLessThanWellFounded, WFMin, Zenon
  <1>2. ASSUME NEW m \in S PROVE n <= m
    <2>1. ~(m < n)
      <3>1. <<m, n>> \in Nat \X Nat /\ <<m, n>>[1] = m /\ <<m, n>>[2] = n
        OBVIOUS
      <3> QED BY <1>1, <3>1, Zenon DEF OpToRel
    <2> QED BY <2>1
  <1> QED BY <1>2 DEF Min

\* Whatever holds of 0 and of the successor of what it holds of, holds of every number.
LEMMA NumberInduction ==
    ASSUME NEW G, 0 \in G, \A n \in Nat : n \in G => n + 1 \in G
    PROVE  \A n \in Nat : n \in G
  <1> DEFINE Others == {n \in Nat : n \notin G}
  <1> SUFFICES ASSUME Others # {} PROVE FALSE
    OBVIOUS
  <1>1. PICK n \in Others : \A m \in Others : ~(<<m, n>> \in OpToRel(<, Nat))
    BY NatLessThanWellFounded, WFMin, Zenon
  <1>2. \A m \in Others : ~(m < n)
    BY <1>1 DEF OpToRel
  <1>3. n \in Nat /\ n # 0 /\ n - 1 \in Nat /\ n - 1 < n
    OBVIOUS
  <1>4. n - 1 \in G
    BY <1>2, <1>3
  <1>5. (n - 1) + 1 \in G
    BY <1>3, <1>4
  <1>6. (n - 1) + 1 = n
    BY <1>3
  <1> QED BY <1>5, <1>6

LEMMA GreatestOf ==
    ASSUME NEW S, S \subseteq Nat, S # {}, IsFiniteSet(S)
    PROVE  Max(S) \in S /\ \A n \in S : n <= Max(S)
  <1> DEFINE G == {k \in Nat : \A T \in SUBSET Nat :
                     T # {} /\ IsFiniteSet(T) /\ Cardinality(T) <= k
                       => \E m \in T : \A n \in T : n <= m}
  <1>1. 0 \in G
    BY FS_EmptySet, FS_CardinalityType
  <1>2. ASSUME NEW k \in Nat, k \in G PROVE k + 1 \in G
    <2> SUFFICES ASSUME NEW T \in SUBSET Nat, T # {}, IsFiniteSet(T), Cardinality(T) <= k + 1
                 PROVE  \E m \in T : \A n \in T : n <= m
      OBVIOUS
    <2>1. PICK a \in T : TRUE
      OBVIOUS
    <2> DEFINE U == T \ {a}
    <2>2. IsFiniteSet(U) /\ Cardinality(U) = Cardinality(T) - 1 /\ U \subseteq Nat
      BY <2>1, FS_RemoveElement
    <2>3. Cardinality(U) <= k
      BY <2>2, FS_CardinalityType
    <2>4. CASE U = {}
      BY <2>4
    <2>5. CASE U # {}
      <3>1. PICK m \in U : \A n \in U : n <= m
        BY <1>2, <2>2, <2>3, <2>5
      <3>2. CASE a <= m
        BY <3>1, <3>2
      <3>3. CASE ~(a <= m)
        <4>1. \A n \in T : n <= a
          BY <3>1, <3>3
        <4> QED BY <4>1
      <3> QED BY <3>2, <3>3
    <2> QED BY <2>4, <2>5
  <1>3. \A k \in Nat : k \in G
    <2> HIDE DEF G
    <2> QED BY <1>1, <1>2, NumberInduction
  <1>4. Cardinality(S) \in Nat
    BY FS_CardinalityType
  <1>5. \E m \in S : \A n \in S : n <= m
    BY <1>3, <1>4
  <1>6. \E m \in S : \A n \in S : m >= n
    BY <1>5
  <1> QED BY <1>6 DEF Max

-------------------------------------------------------------------------------
(* The groups of titles are a forest: each row hangs under a smaller one,   *)
(* or is a root.                                                            *)

Forest(p, data) ==
    /\ data \subseteq Nat /\ IsFiniteSet(data)
    /\ p \in [data -> data]
    /\ \A x \in data : p[x] <= x

\* Finding roots.
Finds(p, D, g) == g = [y \in D |-> IF p[y] = y THEN y ELSE g[p[y]]]

LEMMA FindExists ==
    ASSUME NEW p, NEW data, Forest(p, data)
    PROVE  \E g \in [data -> data] :
              /\ Finds(p, data, g)
              /\ \A x \in data : p[g[x]] = g[x] /\ g[x] <= x
  <1> DEFINE Good(g, n) ==
               \A x \in data : x <= n => /\ g[x] = IF p[x] = x THEN x ELSE g[p[x]]
                                         /\ p[g[x]] = g[x] /\ g[x] <= x
             G == {n \in Nat : \E g \in [data -> data] : Good(g, n)}
  <1>f. \A x \in data : x \in Nat /\ p[x] \in data /\ p[x] \in Nat /\ p[x] <= x
    BY DEF Forest
  <1>r. data \subseteq Nat /\ IsFiniteSet(data)
    BY DEF Forest
  <1>1. 0 \in G
    <2>1. Good([x \in data |-> x], 0)
      <3> SUFFICES ASSUME NEW x \in data, x <= 0
                   PROVE  x = (IF p[x] = x THEN x ELSE p[x]) /\ p[x] = x /\ x <= x
        OBVIOUS
      <3> QED BY <1>f
    <2>2. [x \in data |-> x] \in [data -> data]
      OBVIOUS
    <2> HIDE DEF Good
    <2> QED BY <2>1, <2>2
  <1>2. ASSUME NEW n \in Nat, n \in G PROVE n + 1 \in G
    <2>1. PICK g \in [data -> data] : Good(g, n)
      BY <1>2
    <2>2. CASE n + 1 \notin data
      <3>1. Good(g, n + 1)
        <4> SUFFICES ASSUME NEW x \in data, x <= n + 1
                     PROVE  /\ g[x] = IF p[x] = x THEN x ELSE g[p[x]]
                            /\ p[g[x]] = g[x] /\ g[x] <= x
          OBVIOUS
        <4>1. x <= n
          BY <2>2, <1>f
        <4> QED BY <4>1, <2>1
      <3> HIDE DEF Good
      <3> QED BY <3>1
    <2>3. CASE n + 1 \in data
      <3> DEFINE v == IF p[n + 1] = n + 1 THEN n + 1 ELSE g[p[n + 1]]
                 h == [g EXCEPT ![n + 1] = v]
      <3>1. v \in data /\ p[v] = v /\ v <= n + 1
        <4>1. CASE p[n + 1] = n + 1
          BY <2>3, <4>1
        <4>2. CASE p[n + 1] # n + 1
          <5>1. p[n + 1] \in data /\ p[n + 1] <= n /\ p[n + 1] \in Nat
            BY <2>3, <4>2, <1>f
          <5>2. g[p[n + 1]] \in data /\ p[g[p[n + 1]]] = g[p[n + 1]] /\ g[p[n + 1]] <= p[n + 1]
            BY <5>1, <2>1
          <5>3. g[p[n + 1]] \in Nat
            BY <5>2, <1>f
          <5> QED BY <5>1, <5>2, <5>3, <4>2
        <4> QED BY <4>1, <4>2
      <3>2. h \in [data -> data] /\ h[n + 1] = v /\ \A x \in data : x # n + 1 => h[x] = g[x]
        <4> HIDE DEF v
        <4> QED BY <3>1, <2>3
      <3>3. Good(h, n + 1)
        <4> SUFFICES ASSUME NEW x \in data, x <= n + 1
                     PROVE  /\ h[x] = IF p[x] = x THEN x ELSE h[p[x]]
                            /\ p[h[x]] = h[x] /\ h[x] <= x
          OBVIOUS
        <4>1. CASE x = n + 1
          <5>1. p[x] # x => p[x] \in data /\ p[x] # n + 1
            BY <4>1, <1>f
          <5>2. h[x] = v
            BY <4>1, <3>2
          <5>3. v = IF p[x] = x THEN x ELSE g[p[x]]
            BY <4>1
          <5> HIDE DEF h, v
          <5> QED BY <5>1, <5>2, <5>3, <3>1, <3>2, <4>1
        <4>2. CASE x # n + 1
          <5>1. x <= n /\ p[x] \in data /\ p[x] <= x /\ p[x] \in Nat /\ x \in Nat
            BY <4>2, <1>f
          <5>2. p[x] # n + 1
            BY <5>1
          <5>3. /\ g[x] = IF p[x] = x THEN x ELSE g[p[x]]
                /\ p[g[x]] = g[x] /\ g[x] <= x
            BY <5>1, <2>1
          <5> HIDE DEF h, v
          <5> QED BY <5>1, <5>2, <5>3, <3>2, <4>2
        <4> QED BY <4>1, <4>2
      <3> HIDE DEF Good, h
      <3> QED BY <3>2, <3>3
    <2> QED BY <2>2, <2>3
  <1>3. \A n \in Nat : n \in G
    <2> HIDE DEF G
    <2> QED BY <1>1, <1>2, NumberInduction
  <1>4. PICK n \in Nat : \A x \in data : x <= n
    <2>1. CASE data = {}
      BY <2>1
    <2>2. CASE data # {}
      BY <1>r, <2>2, GreatestOf
    <2> QED BY <2>1, <2>2
  <1>5. PICK g \in [data -> data] : Good(g, n)
    BY <1>3
  <1>6. Finds(p, data, g)
    <2>1. \A x \in data : g[x] = IF p[x] = x THEN x ELSE g[p[x]]
      BY <1>4, <1>5
    <2> QED BY <2>1 DEF Finds
  <1>7. \A x \in data : p[g[x]] = g[x] /\ g[x] <= x
    BY <1>4, <1>5
  <1> QED BY <1>6, <1>7

\* Two such functions agree.
LEMMA FindUnique ==
    ASSUME NEW p, NEW data, Forest(p, data), NEW g, NEW h,
           Finds(p, data, g), Finds(p, data, h)
    PROVE  g = h
  <1> DEFINE D == {x \in data : g[x] # h[x]}
  <1>1. \A x \in data : /\ g[x] = IF p[x] = x THEN x ELSE g[p[x]]
                        /\ h[x] = IF p[x] = x THEN x ELSE h[p[x]]
    BY DEF Finds
  <1>2. D = {}
    <2> SUFFICES ASSUME D # {} PROVE FALSE
      OBVIOUS
    <2>1. D \subseteq Nat
      BY DEF Forest
    <2>2. PICK x \in D : \A y \in D : x <= y
      <3> HIDE DEF D
      <3> QED BY <2>1, LeastOf
    <2>3. p[x] \in data /\ p[x] <= x /\ p[x] # x /\ p[x] \in Nat /\ x \in Nat
      BY <1>1 DEF Forest
    <2>4. p[x] \notin D
      BY <2>2, <2>3
    <2> QED BY <2>3, <2>4, <1>1
  <1>3. DOMAIN g = data /\ DOMAIN h = data /\ g = [x \in data |-> g[x]] /\ h = [x \in data |-> h[x]]
    BY DEF Finds
  <1> QED BY <1>2, <1>3

LEMMA RootIs ==
    ASSUME NEW p, NEW data, Forest(p, data), NEW x \in data
    PROVE  /\ Root(p, x) \in data
           /\ p[Root(p, x)] = Root(p, x)
           /\ Root(p, x) <= x
           /\ Root(p, x) = IF p[x] = x THEN x ELSE Root(p, p[x])
  <1>1. PICK g \in [data -> data] :
              /\ Finds(p, data, g)
              /\ \A y \in data : p[g[y]] = g[y] /\ g[y] <= y
    BY FindExists
  <1>2. DOMAIN p = data
    BY DEF Forest
  <1>3. \A h : Finds(p, data, h) <=> h = g
    BY <1>1, FindUnique
  <1>4. \A y \in data : Root(p, y) = g[y]
    <2> DEFINE f == CHOOSE h : h = [y \in DOMAIN p |-> IF p[y] = y THEN y ELSE h[p[y]]]
    <2>1. f = CHOOSE h : Finds(p, data, h)
      BY <1>2 DEF Finds
    <2>2. f = g
      BY <2>1, <1>3
    <2> QED BY <2>2 DEF Root
  <1>5. p[x] \in data
    BY DEF Forest
  <1> QED BY <1>1, <1>4, <1>5 DEF Finds

LEMMA RootsAre ==
    ASSUME NEW p, NEW data, Forest(p, data), NEW g, Finds(p, data, g)
    PROVE  \A x \in data : Root(p, x) = g[x]
  <1>1. DOMAIN p = data
    BY DEF Forest
  <1>2. \A h : Finds(p, data, h) <=> h = g
    BY FindUnique
  <1> DEFINE f == CHOOSE h : h = [y \in DOMAIN p |-> IF p[y] = y THEN y ELSE h[p[y]]]
  <1>3. f = CHOOSE h : Finds(p, data, h)
    BY <1>1 DEF Finds
  <1>4. f = g
    BY <1>3, <1>2
  <1> QED BY <1>4 DEF Root

\* One tree is hung up in another, and nothing else changes.
HungInto(p, q, data, a, b) ==
    \E hi, lo : /\ {hi, lo} = {Root(p, a), Root(p, b)}
               /\ \A x \in data : Root(q, x) = IF Root(p, x) = hi THEN lo ELSE Root(p, x)

LEMMA UnionIs ==
    ASSUME NEW p, NEW data, Forest(p, data), NEW a \in data, NEW b \in data,
           NEW q, q = Union(p, a, b)
    PROVE  Forest(q, data) /\ HungInto(p, q, data, a, b)
  <1>f. \A x \in data : x \in Nat /\ p[x] \in data /\ p[x] \in Nat /\ p[x] <= x
    BY DEF Forest
  <1>1. PICK ra : ra = Root(p, a)
    OBVIOUS
  <1>2. PICK rb : rb = Root(p, b)
    OBVIOUS
  <1>3. ra \in data /\ rb \in data /\ p[ra] = ra /\ p[rb] = rb /\ ra \in Nat /\ rb \in Nat
    BY <1>1, <1>2, <1>f, RootIs
  <1>4. PICK hi : hi = Max({ra, rb})
    OBVIOUS
  <1>5. PICK lo : lo = Min({ra, rb})
    OBVIOUS
  <1>6. {hi, lo} = {ra, rb} /\ lo <= hi
    <2>1. \E x \in {ra, rb} : \A y \in {ra, rb} : x >= y
      BY <1>3
    <2>2. hi \in {ra, rb} /\ \A y \in {ra, rb} : hi >= y
      BY <1>4, <2>1 DEF Max
    <2>3. \E x \in {ra, rb} : \A y \in {ra, rb} : x <= y
      BY <1>3
    <2>4. lo \in {ra, rb} /\ \A y \in {ra, rb} : lo <= y
      BY <1>5, <2>3 DEF Min
    <2> QED BY <2>2, <2>4, <1>3
  <1>7. hi \in data /\ lo \in data /\ p[hi] = hi /\ p[lo] = lo
    BY <1>6, <1>3
  <1>9. q = [p EXCEPT ![hi] = lo]
    BY <1>1, <1>2, <1>4, <1>5 DEF Union
  <1>10. /\ q \in [data -> data] /\ q[hi] = lo
         /\ \A x \in data : x # hi => q[x] = p[x]
    BY <1>9, <1>7 DEF Forest
  <1>11. Forest(q, data)
    BY <1>10, <1>6 DEF Forest
  <1> DEFINE g == [x \in data |-> IF Root(p, x) = hi THEN lo ELSE Root(p, x)]
  <1>12. Finds(q, data, g)
    <2> SUFFICES ASSUME NEW x \in data
                 PROVE  g[x] = IF q[x] = x THEN x ELSE g[q[x]]
      BY DEF Finds
    <2>1. Root(p, x) = IF p[x] = x THEN x ELSE Root(p, p[x])
      BY RootIs
    <2>2. Root(p, hi) = hi /\ Root(p, lo) = lo
      BY <1>7, RootIs
    <2>3. CASE x = hi
      <3>1. g[x] = lo /\ g[lo] = lo
        BY <2>2, <2>3, <1>7
      <3> QED BY <3>1, <2>3, <1>10
    <2>4. CASE x # hi
      <3>1. q[x] = p[x] /\ p[x] \in data
        BY <2>4, <1>10, <1>f
      <3>2. CASE p[x] = x
        BY <3>1, <3>2, <2>1, <2>4
      <3>3. CASE p[x] # x
        BY <3>1, <3>3, <2>1
      <3> QED BY <3>2, <3>3
    <2> QED BY <2>3, <2>4
  <1>13. \A x \in data : Root(q, x) = g[x]
    <2> HIDE DEF g
    <2> QED BY <1>11, <1>12, RootsAre
  <1>14. HungInto(p, q, data, a, b)
    BY <1>13, <1>6, <1>1, <1>2 DEF HungInto
  <1> QED BY <1>11, <1>14

\* What is in the same tree is in or out together.
Respects(p, data, part) ==
    \A x, y \in data : Root(p, x) = Root(p, y) => (x \in part <=> y \in part)

\* What has the same key, unless it is empty.
KeyClosed(data, keyOf, part) ==
    \A x, y \in data : keyOf[x] = keyOf[y] /\ keyOf[x] # "" => (x \in part <=> y \in part)

\* No tree falls apart.
Coarser(p, q, data) ==
    \A x, y \in data : Root(p, x) = Root(p, y) => Root(q, x) = Root(q, y)

\* The two trees are one, no other tree falls apart, and no more is joined.
Unites(p, q, data, a, b) ==
    /\ Forest(q, data)
    /\ Coarser(p, q, data)
    /\ Root(q, a) = Root(q, b)
    /\ \A part : Respects(p, data, part) /\ (a \in part <=> b \in part) => Respects(q, data, part)

LEMMA UnionJoins ==
    ASSUME NEW p, NEW data, Forest(p, data), NEW a \in data, NEW b \in data,
           NEW q, q = Union(p, a, b)
    PROVE  Unites(p, q, data, a, b)
  <1>2. Forest(q, data)
    BY UnionIs
  <1>3. PICK hi, lo : /\ {hi, lo} = {Root(p, a), Root(p, b)}
                      /\ \A x \in data : Root(q, x) =
                            IF Root(p, x) = hi THEN lo ELSE Root(p, x)
    <2>1. HungInto(p, q, data, a, b)
      BY UnionIs
    <2> QED BY <2>1 DEF HungInto
  <1>4. Coarser(p, q, data)
    BY <1>3 DEF Coarser
  <1>5. Root(q, a) = Root(q, b)
    BY <1>3
  <1>6. ASSUME NEW part, Respects(p, data, part), a \in part <=> b \in part
        PROVE  Respects(q, data, part)
    <2> SUFFICES ASSUME NEW x \in data, NEW y \in data, Root(q, x) = Root(q, y)
                 PROVE  x \in part <=> y \in part
      BY DEF Respects
    <2>1. \/ Root(p, x) = Root(p, y)
          \/ Root(p, x) \in {Root(p, a), Root(p, b)} /\ Root(p, y) \in {Root(p, a), Root(p, b)}
      BY <1>3
    <2> QED BY <2>1, <1>6 DEF Respects
  <1> QED BY <1>2, <1>4, <1>5, <1>6 DEF Unites

-------------------------------------------------------------------------------
(* One pass, which joins each row to the first one of its key.              *)

\* Who has the key of a row.
KeyOfRow(data, keyOf, i) == {r \in data : keyOf[r] = keyOf[i]}

\* What the pass does at a row.
PassStep(data, keyOf, i, before) ==
    IF i \notin data THEN before
    ELSE IF keyOf[i] = "" \/ i = Min(KeyOfRow(data, keyOf, i)) THEN before
    ELSE Union(before, Min(KeyOfRow(data, keyOf, i)), i)

\* The forest after each row of the pass.
Passes(p, data, keyOf, n, f) ==
    f = [i \in 0 .. n |-> PassStep(data, keyOf, i, IF i = 0 THEN p ELSE f[i - 1])]

LEMMA PassExists ==
    ASSUME NEW p, NEW data, NEW keyOf, NEW last \in Nat
    PROVE  \E f : Passes(p, data, keyOf, last, f)
  <1> DEFINE G == {n \in Nat : \E f : Passes(p, data, keyOf, n, f)}
  <1>1. 0 \in G
    <2> DEFINE f == [i \in 0 .. 0 |-> PassStep(data, keyOf, i, p)]
    <2>1. \A i \in 0 .. 0 : i = 0
      OBVIOUS
    <2>2. f = [i \in 0 .. 0 |-> PassStep(data, keyOf, i, IF i = 0 THEN p ELSE f[i - 1])]
      BY <2>1
    <2>3. Passes(p, data, keyOf, 0, f)
      BY <2>2 DEF Passes
    <2> QED BY <2>3
  <1>2. ASSUME NEW n \in Nat, n \in G PROVE n + 1 \in G
    <2>1. PICK f : Passes(p, data, keyOf, n, f)
      BY <1>2
    <2>2. \A i \in 0 .. n : f[i] = PassStep(data, keyOf, i, IF i = 0 THEN p ELSE f[i - 1])
      BY <2>1 DEF Passes
    <2> DEFINE g == [i \in 0 .. n + 1 |-> IF i = n + 1 THEN PassStep(data, keyOf, n + 1, f[n])
                                          ELSE f[i]]
    <2>3. \A i \in 0 .. n + 1 : g[i] = PassStep(data, keyOf, i, IF i = 0 THEN p ELSE g[i - 1])
      <3> SUFFICES ASSUME NEW i \in 0 .. n + 1
                   PROVE  g[i] = PassStep(data, keyOf, i, IF i = 0 THEN p ELSE g[i - 1])
        OBVIOUS
      <3>1. CASE i = n + 1
        <4>1. i # 0 /\ i - 1 = n /\ n \in 0 .. n + 1 /\ n # n + 1
          BY <3>1
        <4>2. g[i - 1] = f[n] /\ g[i] = PassStep(data, keyOf, n + 1, f[n])
          BY <4>1, <3>1
        <4> HIDE DEF g
        <4> QED BY <4>1, <4>2, <3>1
      <3>2. CASE i # n + 1
        <4>1. i \in 0 .. n /\ (i # 0 => i - 1 \in 0 .. n + 1 /\ i - 1 # n + 1)
          BY <3>2
        <4>2. g[i] = f[i] /\ (i # 0 => g[i - 1] = f[i - 1])
          BY <4>1, <3>2
        <4> HIDE DEF g
        <4>3. (IF i = 0 THEN p ELSE f[i - 1]) = (IF i = 0 THEN p ELSE g[i - 1])
          BY <4>2
        <4> QED BY <4>1, <4>2, <4>3, <2>2
      <3> QED BY <3>1, <3>2
    <2>4. g = [i \in 0 .. n + 1 |-> g[i]]
      OBVIOUS
    <2>5. Passes(p, data, keyOf, n + 1, g)
      <3> HIDE DEF g
      <3> QED BY <2>3, <2>4 DEF Passes
    <2> QED BY <2>5
  <1>3. \A n \in Nat : n \in G
    <2> HIDE DEF G
    <2> QED BY <1>1, <1>2, NumberInduction
  <1> QED BY <1>3

\* What a pass has done once it is past i.
PassedTo(p, q, data, keyOf, i) ==
    /\ Forest(q, data)
    /\ Coarser(p, q, data)
    /\ \A r \in data : r <= i /\ keyOf[r] # "" => Root(q, r) = Root(q, Min(KeyOfRow(data, keyOf, r)))
    /\ \A part : Respects(p, data, part) /\ KeyClosed(data, keyOf, part) => Respects(q, data, part)

LEMMA FirstOfKey ==
    ASSUME NEW data, data \subseteq Nat, NEW keyOf, NEW i \in data
    PROVE  /\ Min(KeyOfRow(data, keyOf, i)) \in data
           /\ keyOf[Min(KeyOfRow(data, keyOf, i))] = keyOf[i]
           /\ Min(KeyOfRow(data, keyOf, i)) <= i
  <1>1. PICK S : S = KeyOfRow(data, keyOf, i)
    OBVIOUS
  <1>2. S \subseteq Nat /\ i \in S
    BY <1>1 DEF KeyOfRow
  <1>3. Min(S) \in S /\ Min(S) <= i
    BY <1>2, LeastOf
  <1> QED BY <1>1, <1>3 DEF KeyOfRow

LEMMA PassStepKeeps ==
    ASSUME NEW p, NEW before, NEW data, NEW keyOf, NEW i \in Nat, NEW j, j = i - 1 \/ i = 0,
           j \in Int,
           i # 0 => PassedTo(p, before, data, keyOf, j),
           i = 0 => before = p,
           Forest(p, data)
    PROVE  PassedTo(p, PassStep(data, keyOf, i, before), data, keyOf, i)
  <1>1. data \subseteq Nat
    BY DEF Forest
  <1>2. /\ Forest(before, data) /\ Coarser(p, before, data)
        /\ \A part : Respects(p, data, part) /\ KeyClosed(data, keyOf, part)
              => Respects(before, data, part)
    BY DEF PassedTo, Coarser
  <1>3. ASSUME NEW r \in data, r <= i, r # i, keyOf[r] # ""
        PROVE  Root(before, r) = Root(before, Min(KeyOfRow(data, keyOf, r)))
    <2>1. r \in Nat
      BY <1>1
    <2>2. i # 0 /\ r <= j
      <3>1. \A k \in Nat : k <= i /\ k # i => i # 0 /\ k <= j
        OBVIOUS
      <3> QED BY <3>1, <2>1, <1>3
    <2> QED BY <2>2, <1>3 DEF PassedTo
  <1>4. PICK q : q = PassStep(data, keyOf, i, before)
    OBVIOUS
  <1>5. CASE i \notin data
    <2>1. q = before
      BY <1>4, <1>5 DEF PassStep
    <2> QED BY <2>1, <1>2, <1>3, <1>4, <1>5 DEF PassedTo
  <1>6. CASE i \in data /\ (keyOf[i] = "" \/ i = Min(KeyOfRow(data, keyOf, i)))
    <2>1. q = before
      BY <1>4, <1>6 DEF PassStep
    <2>2. keyOf[i] # "" => Root(before, i) = Root(before, Min(KeyOfRow(data, keyOf, i)))
      BY <1>6
    <2> QED BY <2>1, <2>2, <1>2, <1>3, <1>4 DEF PassedTo
  <1>7. CASE i \in data /\ keyOf[i] # "" /\ i # Min(KeyOfRow(data, keyOf, i))
    <2>1. PICK m : m = Min(KeyOfRow(data, keyOf, i))
      OBVIOUS
    <2>2. m \in data /\ keyOf[m] = keyOf[i]
      BY <2>1, <1>1, <1>7, FirstOfKey
    <2>3. q = Union(before, m, i)
      BY <1>4, <1>7, <2>1 DEF PassStep
    <2>4. /\ Forest(q, data) /\ Coarser(before, q, data) /\ Root(q, m) = Root(q, i)
          /\ \A part : Respects(before, data, part) /\ (m \in part <=> i \in part)
                => Respects(q, data, part)
      <3>1. i \in data /\ Forest(before, data)
        BY <1>2, <1>7
      <3>2. Unites(before, q, data, m, i)
        BY <3>1, <2>2, <2>3, UnionJoins
      <3> QED BY <3>2 DEF Unites
    <2>5. Coarser(p, q, data)
      BY <2>4, <1>2 DEF Coarser
    <2>6. ASSUME NEW r \in data, r <= i, keyOf[r] # ""
          PROVE  Root(q, r) = Root(q, Min(KeyOfRow(data, keyOf, r)))
      <3>1. CASE r = i
        BY <3>1, <2>1, <2>4
      <3>2. CASE r # i
        <4>1. Min(KeyOfRow(data, keyOf, r)) \in data
          BY <1>1, FirstOfKey
        <4>2. Root(before, r) = Root(before, Min(KeyOfRow(data, keyOf, r)))
          BY <3>2, <2>6, <1>3
        <4> QED BY <4>1, <4>2, <2>4 DEF Coarser
      <3> QED BY <3>1, <3>2
    <2>7. ASSUME NEW part, Respects(p, data, part), KeyClosed(data, keyOf, part)
          PROVE  Respects(q, data, part)
      <3>1. Respects(before, data, part)
        BY <2>7, <1>2
      <3>2. m \in part <=> i \in part
        BY <2>7, <2>2, <1>7 DEF KeyClosed
      <3> QED BY <3>1, <3>2, <2>4
    <2> QED BY <2>4, <2>5, <2>6, <2>7, <1>4 DEF PassedTo
  <1> QED BY <1>5, <1>6, <1>7

\* What a whole pass has done.
Joins(p, q, data, keyOf) ==
    /\ Forest(q, data)
    /\ Coarser(p, q, data)
    /\ \A x, y \in data : keyOf[x] = keyOf[y] /\ keyOf[x] # "" => Root(q, x) = Root(q, y)
    /\ \A part : Respects(p, data, part) /\ KeyClosed(data, keyOf, part) => Respects(q, data, part)

LEMMA JoinedIs ==
    ASSUME NEW p, NEW data, Forest(p, data), NEW keyOf, NEW q, q = Joined(p, data, keyOf)
    PROVE  Joins(p, q, data, keyOf)
  <1>r. data \subseteq Nat /\ IsFiniteSet(data)
    BY DEF Forest
  <1>1. PICK last : last = Max({0} \cup data)
    OBVIOUS
  <1>2. last \in Nat /\ \A r \in data : r <= last
    <2>1. PICK S : S = {0} \cup data
      OBVIOUS
    <2>2. S = data \cup {0}
      BY <2>1
    <2>3. IsFiniteSet(S)
      BY <2>2, <1>r, FS_AddElement
    <2>4. S \subseteq Nat /\ S # {}
      BY <2>1, <1>r
    <2>5. Max(S) \in S /\ \A n \in S : n <= Max(S)
      BY <2>3, <2>4, GreatestOf
    <2> QED BY <2>1, <2>4, <2>5, <1>1
  <1>3. PICK f : f = CHOOSE g : Passes(p, data, keyOf, last, g)
    OBVIOUS
  <1>4. Passes(p, data, keyOf, last, f)
    BY <1>2, <1>3, PassExists
  <1>5. Joined(p, data, keyOf) = f[last]
    BY <1>1, <1>3 DEF Joined, Passes, PassStep, KeyOfRow
  <1>6. \A i \in 0 .. last : f[i] = PassStep(data, keyOf, i, IF i = 0 THEN p ELSE f[i - 1])
    BY <1>4 DEF Passes
  <1> DEFINE G == {i \in Nat : i <= last => PassedTo(p, f[i], data, keyOf, i)}
  <1>7. 0 \in G
    <2>1. 0 \in 0 .. last
      BY <1>2
    <2>2. f[0] = PassStep(data, keyOf, 0, p)
      BY <1>6, <2>1
    <2>3. PassedTo(p, PassStep(data, keyOf, 0, p), data, keyOf, 0)
      BY PassStepKeeps
    <2> QED BY <2>2, <2>3
  <1>8. ASSUME NEW i \in Nat, i \in G PROVE i + 1 \in G
    <2> SUFFICES ASSUME i + 1 <= last PROVE PassedTo(p, f[i + 1], data, keyOf, i + 1)
      OBVIOUS
    <2>1. i <= last /\ i + 1 \in 0 .. last /\ (i + 1) - 1 = i /\ i + 1 # 0 /\ i + 1 \in Nat /\ i \in Int
      BY <1>2
    <2>2. PassedTo(p, f[i], data, keyOf, i)
      BY <2>1, <1>8
    <2>3. f[i + 1] = PassStep(data, keyOf, i + 1, f[i])
      BY <2>1, <1>6
    <2>4. PICK k : k = i + 1
      OBVIOUS
    <2>5. PassedTo(p, PassStep(data, keyOf, k, f[i]), data, keyOf, k)
      BY <2>1, <2>2, <2>4, PassStepKeeps
    <2> QED BY <2>3, <2>4, <2>5
  <1>9. \A i \in Nat : i \in G
    <2> HIDE DEF G
    <2> QED BY <1>7, <1>8, NumberInduction
  <1>10. PassedTo(p, f[last], data, keyOf, last)
    BY <1>9, <1>2
  <1>11. q = f[last]
    BY <1>5
  <1>12. ASSUME NEW x \in data, NEW y \in data, keyOf[x] = keyOf[y], keyOf[x] # ""
         PROVE  Root(q, x) = Root(q, y)
    <2>1. KeyOfRow(data, keyOf, x) = KeyOfRow(data, keyOf, y)
      BY <1>12 DEF KeyOfRow
    <2>2. Root(q, x) = Root(q, Min(KeyOfRow(data, keyOf, x)))
      BY <1>2, <1>10, <1>11, <1>12 DEF PassedTo
    <2>3. Root(q, y) = Root(q, Min(KeyOfRow(data, keyOf, y)))
      BY <1>2, <1>10, <1>11, <1>12 DEF PassedTo
    <2> QED BY <2>1, <2>2, <2>3
  <1>13. PassedTo(p, q, data, keyOf, last)
    BY <1>10, <1>11
  <1> QED BY <1>12, <1>13 DEF PassedTo, Joins

-------------------------------------------------------------------------------
(* Two passes, by normal title and by notice number: the groups are the     *)
(* chains of links.                                                         *)

\* Two rows share a title or a number.
Alike(x, y) ==
    \/ NormOf[x] = NormOf[y] /\ NormOf[x] # ""
    \/ NoticeNumber[x] = NoticeNumber[y] /\ NoticeNumber[x] # ""

\* Who is alike is in together or out together.
AlikeClosed(data, part) == \A x, y \in data : Alike(x, y) => (x \in part <=> y \in part)

\* Who is alike is in one group; a group is in or out of whatever is closed.
GroupedBy(g, data) ==
    /\ g \in [data -> data]
    /\ \A x, y \in data : Alike(x, y) => g[x] = g[y]
    /\ \A part : AlikeClosed(data, part) =>
          \A x, y \in data : g[x] = g[y] => (x \in part <=> y \in part)

\* What there is to count.
LEMMA RowsAreNumbers == IsFiniteSet(Rows) /\ Rows \subseteq Nat
  BY ModelAssumption

LEMMA TargetsAreNumbers ==
    THRESHOLDS \subseteq Nat /\ TARGET_ACC \subseteq Nat /\ Nothing \notin THRESHOLDS
  BY ModelAssumption

LEMMA ComputedIs == \A f : Computed(f) = f
  BY DEF Computed

LEMMA GroupsAre ==
    ASSUME NEW data \in SUBSET Rows
    PROVE  GroupedBy(Groups[data], data)
  <1>1. data \subseteq Nat /\ IsFiniteSet(data)
    BY RowsAreNumbers, FS_Subset
  <1>2. PICK p : p = [r \in data |-> r]
    OBVIOUS
  <1>3. Forest(p, data)
    <2>1. \A x \in data : x <= x
      <3>1. \A n \in Nat : n <= n
        OBVIOUS
      <3> QED BY <1>1, <3>1, Zenon
    <2>2. p \in [data -> data] /\ \A x \in data : p[x] <= x
      BY <2>1, <1>2
    <2> QED BY <2>2, <1>1 DEF Forest
  <1>4. \A x \in data : Root(p, x) = x
    BY <1>2, <1>3, RootIs
  <1>5. PICK q : q = Joined(p, data, NormOf)
    OBVIOUS
  <1>6. Joins(p, q, data, NormOf)
    BY <1>3, <1>5, JoinedIs
  <1>7. Forest(q, data)
    BY <1>6 DEF Joins
  <1>8. PICK s : s = Joined(q, data, NoticeNumber)
    OBVIOUS
  <1>9. Joins(q, s, data, NoticeNumber)
    BY <1>7, <1>8, JoinedIs
  <1>10. Forest(s, data)
    BY <1>9 DEF Joins
  <1>11. PICK g : g = [r \in data |-> Root(s, r)]
    OBVIOUS
  <1>12. BuildGroups(data) = g
    BY <1>2, <1>5, <1>8, <1>11 DEF BuildGroups
  <1>13. Groups[data] = g
    <2>1. PICK f : f = [all \in SUBSET Rows |-> BuildGroups(all)]
      OBVIOUS
    <2>2. Computed(f) = f
      BY ComputedIs
    <2>3. Groups = f
      BY <2>1, <2>2 DEF Groups
    <2> QED BY <2>1, <2>3, <1>12
  <1>14. g \in [data -> data]
    BY <1>10, <1>11, RootIs
  <1>15. ASSUME NEW x \in data, NEW y \in data, Alike(x, y)
         PROVE  g[x] = g[y]
    <2>1. g[x] = Root(s, x) /\ g[y] = Root(s, y)
      BY <1>11
    <2>2. CASE NormOf[x] = NormOf[y] /\ NormOf[x] # ""
      <3>1. Root(q, x) = Root(q, y)
        BY <2>2, <1>6 DEF Joins
      <3> QED BY <2>1, <3>1, <1>9 DEF Joins, Coarser
    <2>3. CASE NoticeNumber[x] = NoticeNumber[y] /\ NoticeNumber[x] # ""
      BY <2>1, <2>3, <1>9 DEF Joins
    <2> QED BY <1>15, <2>2, <2>3 DEF Alike
  <1>16. ASSUME NEW part, AlikeClosed(data, part), NEW x \in data, NEW y \in data, g[x] = g[y]
         PROVE  x \in part <=> y \in part
    <2>1. Respects(p, data, part)
      BY <1>4 DEF Respects
    <2>2. KeyClosed(data, NormOf, part) /\ KeyClosed(data, NoticeNumber, part)
      BY <1>16 DEF AlikeClosed, KeyClosed, Alike
    <2>3. Respects(q, data, part)
      BY <2>1, <2>2, <1>6 DEF Joins
    <2>4. Respects(s, data, part)
      BY <2>2, <2>3, <1>9 DEF Joins
    <2>5. Root(s, x) = Root(s, y)
      BY <1>16, <1>11
    <2> QED BY <2>4, <2>5 DEF Respects
  <1> QED BY <1>13, <1>14, <1>15, <1>16 DEF GroupedBy

LEMMA ChainsAre ==
    ASSUME NEW data \in SUBSET Rows
    PROVE  \A a, b \in data : <<a, b>> \in Chains[data] <=> Groups[data][a] = Groups[data][b]

  <1>1. PICK g : g = Groups[data]
    OBVIOUS
  <1>2. GroupedBy(g, data)
    BY <1>1, GroupsAre
  <1>3. Chains[data] = {p \in data \X data : Linked(data, p[1], p[2])}
    <2>1. PICK f : f = [all \in SUBSET Rows |-> {p \in all \X all : Linked(all, p[1], p[2])}]
      OBVIOUS
    <2>2. Computed(f) = f
      BY ComputedIs
    <2>3. Chains = f
      BY <2>1, <2>2 DEF Chains
    <2> QED BY <2>1, <2>3
  <1>4. ASSUME NEW a \in data, NEW b \in data
        PROVE  Linked(data, a, b) <=> g[a] = g[b]
    <2>1. Linked(data, a, b) <=>
            \A part \in SUBSET data :
              (a \in part /\ \A r \in part, s \in data : Alike(r, s) => s \in part) => b \in part
      BY DEF Linked, Alike
    <2>2. ASSUME Linked(data, a, b) PROVE g[a] = g[b]
      <3>1. PICK part : part = {r \in data : g[r] = g[a]}
        OBVIOUS
      <3>2. part \in SUBSET data /\ a \in part
        BY <3>1
      <3>3. \A r \in part, s \in data : Alike(r, s) => s \in part
        BY <3>1, <1>2 DEF GroupedBy
      <3>4. b \in part
        BY <2>1, <2>2, <3>2, <3>3
      <3> QED BY <3>1, <3>4
    <2>3. ASSUME g[a] = g[b] PROVE Linked(data, a, b)
      <3> SUFFICES ASSUME NEW part \in SUBSET data, a \in part,
                          \A r \in part, s \in data : Alike(r, s) => s \in part
                   PROVE  b \in part
        BY <2>1
      <3>1. \A r, s : Alike(r, s) => Alike(s, r)
        BY DEF Alike
      <3>2. AlikeClosed(data, part)
        BY <3>1 DEF AlikeClosed
      <3> QED BY <3>2, <2>3, <1>2 DEF GroupedBy
    <2> QED BY <2>2, <2>3
  <1> QED BY <1>1, <1>3, <1>4

LEMMA ChainsWithin ==
    ASSUME NEW data \in SUBSET Rows, NEW a, NEW b, <<a, b>> \in Chains[data]
    PROVE  a \in data /\ b \in data
  <1>1. Chains[data] = {p \in data \X data : Linked(data, p[1], p[2])}
    <2>1. PICK f : f = [all \in SUBSET Rows |-> {p \in all \X all : Linked(all, p[1], p[2])}]
      OBVIOUS
    <2>2. Chains = f
      BY <2>1, ComputedIs DEF Chains
    <2> QED BY <2>1, <2>2
  <1> QED BY <1>1

\* A chain lies on one side.
LEMMA SidesApart ==
    ASSUME NEW data \in SUBSET Rows, NEW from, NEW t \in TestSide(data, from),
           NEW r \in data, Groups[data][t] = Groups[data][r]
    PROVE  r \in TestSide(data, from)
  BY DEF TestSide

\* However many notices have come since, unless one of the chain has gone.
LEMMA OldPoolUnseen ==
    ASSUME NEW data \in SUBSET Rows, NEW gone \in SUBSET Rows,
           NEW old \in SUBSET (data \cup gone), NEW t \in Test(data), NEW r \in Pool(old),
           <<t, r>> \in Chains[data]
    PROVE  \E g \in gone : <<t, g>> \in Chains[data \cup gone]
  <1> SUFFICES ASSUME \A g \in gone : <<t, g>> \notin Chains[data \cup gone]
               PROVE  FALSE
    OBVIOUS
  <1>1. PICK all : all = data \cup gone
    OBVIOUS
  <1>2. all \in SUBSET Rows /\ old \in SUBSET Rows /\ old \subseteq all /\ data \subseteq all
    BY <1>1
  <1>3. PICK ga : ga = Groups[all]
    OBVIOUS
  <1>4. PICK go : go = Groups[old]
    OBVIOUS
  <1>5. PICK g : g = Groups[data]
    OBVIOUS
  <1>6. GroupedBy(ga, all) /\ GroupedBy(go, old) /\ GroupedBy(g, data)
    BY <1>2, <1>3, <1>4, <1>5, GroupsAre
  <1>7. t \in data /\ \A x \in data : g[x] = g[t] => Month[x] >= TEST_FROM
    BY <1>5 DEF Test, TestSide
  <1>8. r \in old /\ \E x \in old : go[x] = go[r] /\ ~(Month[x] >= TEST_FROM)
    BY <1>4 DEF Pool, Test, TestSide
  <1>9. PICK early \in old : go[early] = go[r] /\ ~(Month[early] >= TEST_FROM)
    BY <1>8
  <1>10. r \in data /\ g[t] = g[r]
    <2>1. r \in data
      BY ChainsWithin
    <2> QED BY <2>1, <1>5, <1>7, ChainsAre
  <1>11. PICK chain : chain = {x \in all : ga[x] = ga[t]}
    OBVIOUS
  <1>12. t \in chain /\ AlikeClosed(all, chain)
    BY <1>11, <1>7, <1>2, <1>6 DEF GroupedBy, AlikeClosed
  <1>13. chain \subseteq data
    <2> SUFFICES ASSUME NEW x \in chain, x \notin data PROVE FALSE
      OBVIOUS
    <2>1. x \in gone /\ x \in all /\ t \in all /\ ga[t] = ga[x]
      BY <1>1, <1>2, <1>7, <1>11
    <2>2. <<t, x>> \in Chains[all]
      BY <2>1, <1>2, <1>3, ChainsAre
    <2> QED BY <2>1, <2>2, <1>1
  <1>14. r \in chain
    <2>1. AlikeClosed(data, chain)
      BY <1>12, <1>2 DEF AlikeClosed
    <2> QED BY <2>1, <1>6, <1>7, <1>10, <1>12 DEF GroupedBy
  <1>15. PICK part : part = {x \in chain : g[x] = g[t]}
    OBVIOUS
  <1>16. AlikeClosed(old, part)
    <2> SUFFICES ASSUME NEW x \in old, NEW y \in old, Alike(x, y)
                 PROVE  x \in part <=> y \in part
      BY DEF AlikeClosed
    <2>1. x \in chain <=> y \in chain
      BY <1>12, <1>2 DEF AlikeClosed
    <2>2. x \in chain => g[x] = g[y]
      BY <2>1, <1>13, <1>6 DEF GroupedBy
    <2> QED BY <2>1, <2>2, <1>15
  <1>17. r \in part
    BY <1>14, <1>10, <1>15
  <1>18. early \in part
    BY <1>16, <1>17, <1>6, <1>9, <1>8 DEF GroupedBy
  <1> QED BY <1>18, <1>15, <1>13, <1>7, <1>9

-------------------------------------------------------------------------------
(* What a model has learned from and was ranked on is the pool of rows that *)
(* were known then; the test set of a later split is apart from it.         *)

\* The pool of some of the rows.
IsPool(S, data) == \E old \in SUBSET data : S = Pool(old)

\* A model that has learned from and was ranked on such pools.
IsModel(m, data) == IsPool(m.trained, data) /\ IsPool(m.ranked, data)

LEMMA PoolsGrow ==
    ASSUME NEW data, NEW more, data \subseteq more
    PROVE  /\ \A S : IsPool(S, data) => IsPool(S, more)
           /\ \A m : IsModel(m, data) => IsModel(m, more)
  BY DEF IsPool, IsModel

\* A search ranks on a pool of rows known once.
Searching ==
    search # Nothing =>
        /\ search \in [rows : {search.rows}, ranked : {search.ranked}]
        /\ search.rows \subseteq coded \cup lost
        /\ search.ranked = Nothing \/ IsPool(search.ranked, coded \cup lost)

\* An evaluation's model is old to the rows it reads, and to whatever is known later.
Evaluating ==
    evaluation # Nothing =>
        /\ evaluation \in [m : {evaluation.m}, rows : {evaluation.rows}]
        /\ IsModel(evaluation.m, coded \cup lost)
        /\ evaluation.rows # Nothing =>
             evaluation.rows \subseteq Rows /\ IsModel(evaluation.m, evaluation.rows \cup lost)

\* The lower the target, the lower its threshold.
InOrder(picked) ==
    \A s, t \in TARGET_ACC :
        s < t /\ picked[t] # Nothing => picked[s] # Nothing /\ picked[s] <= picked[t]

\* A deployment has picked its thresholds, if at all, unseen and in order.
Deploying ==
    deployment # Nothing =>
        /\ deployment \in [no : {deployment.no}, rows : {deployment.rows},
                           thresholds : {deployment.thresholds}, at : {deployment.at}]
        /\ deployment.at \in {"npz", "json", "verify", "curve"} => deployment.rows \subseteq Rows
        /\ deployment.thresholds # Nothing =>
             deployment.thresholds.seen = {} /\ InOrder(deployment.thresholds.picked)

\* The invariant: whatever was learned from or ranked on was a pool of rows still known,
\* or lost since.
LearnedOld ==
    /\ coded \subseteq Rows /\ lost \subseteq Rows
    /\ ranking # Nothing => ranking \subseteq coded \cup lost
    /\ model # Nothing => IsModel(model, coded \cup lost)
    /\ Searching /\ Evaluating /\ Deploying

-------------------------------------------------------------------------------
(* Thresholds.                                                              *)

LEMMA GuessedUnseen ==
    ASSUME NEW data \in SUBSET Rows, NEW parts \in Folds(data)
    PROVE  Seen(parts, data) = {}
  <1> SUFFICES ASSUME NEW b \in Seen(parts, data) PROVE FALSE
    OBVIOUS
  <1>2. PICK deal : parts = {{x \in Pool(data) : deal[Groups[data][x]] = f} :
                          f \in 1 .. N_FOLDS}
    <2>1. parts \in {{{x \in Pool(data) : deal[Groups[data][x]] = f} : f \in 1 .. N_FOLDS} :
                       deal \in [{Groups[data][x] : x \in Pool(data)} -> 1 .. N_FOLDS]}
      BY Zenon DEF Folds
    <2>2. \E deal : parts = {{x \in Pool(data) : deal[Groups[data][x]] = f} : f \in 1 .. N_FOLDS}
      BY <2>1, Zenon
    <2> QED BY <2>2, Zenon
  <1>3. PICK part \in parts : b \in part /\ \E r \in (UNION parts) \ part : <<b, r>> \in Chains[data]
    BY DEF Seen
  <1>4. PICK r \in (UNION parts) \ part : <<b, r>> \in Chains[data]
    BY <1>3
  <1>5. Groups[data][b] = Groups[data][r]
    <2>1. b \in data /\ r \in data
      BY <1>4, ChainsWithin
    <2> QED BY <2>1, <1>4, ChainsAre
  <1>6. PICK f \in 1 .. N_FOLDS : part = {x \in Pool(data) : deal[Groups[data][x]] = f}
    BY <1>2
  <1>7. r \in Pool(data)
    BY <1>2, <1>4
  <1>8. deal[Groups[data][b]] = f
    BY <1>3, <1>6
  <1>9. r \in part
    BY <1>5, <1>6, <1>7, <1>8
  <1> QED BY <1>9, <1>4

LEMMA HigherTarget ==
    ASSUME NEW s \in Nat, NEW t \in Nat, s < t, NEW k \in Nat, NEW n \in Nat, n >= t * k
    PROVE  n >= s * k
  <1>1. PICK d \in Nat : t = s + d
    <2>1. t - s \in Nat /\ t = s + (t - s)
      OBVIOUS
    <2> QED BY <2>1
  <1>2. t * k = s * k + d * k
    BY <1>1
  <1>3. s * k \in Nat /\ d * k \in Nat /\ t * k \in Nat
    OBVIOUS
  <1> QED BY <1>2, <1>3

LEMMA PickedInOrder ==
    ASSUME NEW pool \in SUBSET Rows, NEW right, NEW margin,
           NEW picked, picked = Picked(ThresholdCurve(pool, right, margin))
    PROVE  InOrder(picked)
  <1> DEFINE kept(t) == {b \in pool : margin[b] >= t}
  <1>1. PICK curve : curve = ThresholdCurve(pool, right, margin)
    OBVIOUS
  <1>2. \A row \in curve : row.threshold \in THRESHOLDS /\ row.kept \in Nat /\ row.right \in Nat
    <2>1. \A u : IsFiniteSet(kept(u)) /\ IsFiniteSet(kept(u) \cap right)
      BY RowsAreNumbers, FS_Subset
    <2>2. \A u : Cardinality(kept(u)) \in Nat /\ Cardinality(kept(u) \cap right) \in Nat
      <3> HIDE DEF kept
      <3> QED BY <2>1, FS_CardinalityType
    <2>3. curve = {[threshold |-> u, kept |-> Cardinality(kept(u)),
                    right |-> Cardinality(kept(u) \cap right)] :
                      u \in {v \in THRESHOLDS : kept(v) # {}}}
      BY <1>1 DEF ThresholdCurve
    <2> SUFFICES ASSUME NEW row \in curve
                 PROVE  row.threshold \in THRESHOLDS /\ row.kept \in Nat /\ row.right \in Nat
      OBVIOUS
    <2>4. PICK u \in THRESHOLDS :
            row = [threshold |-> u, kept |-> Cardinality(kept(u)),
                   right |-> Cardinality(kept(u) \cap right)]
      BY <2>3, Zenon
    <2> HIDE DEF kept
    <2> QED BY <2>2, <2>4
  <1> DEFINE ok(target) == {row.threshold : row \in {r \in curve : 100 * r.right >= target * r.kept}}
  <1>3. \A target \in TARGET_ACC : picked[target] = IF ok(target) = {} THEN Nothing ELSE Min(ok(target))
    BY <1>1 DEF Picked
  <1>4. \A target : ok(target) \subseteq THRESHOLDS
    BY <1>2
  <1>5. ASSUME NEW s \in TARGET_ACC, NEW t \in TARGET_ACC, s < t
        PROVE  ok(t) \subseteq ok(s)
    <2> SUFFICES ASSUME NEW row \in curve, 100 * row.right >= t * row.kept
                 PROVE  100 * row.right >= s * row.kept
      OBVIOUS
    <2>1. s \in Nat /\ t \in Nat
      BY TargetsAreNumbers
    <2>2. PICK m \in Nat : m = row.right
      BY <1>2
    <2>3. PICK k \in Nat : k = row.kept
      BY <1>2
    <2>4. PICK n : n = 100 * m
      OBVIOUS
    <2>5. n \in Nat
      BY <2>4
    <2>6. n >= t * k
      BY <2>2, <2>3, <2>4
    <2>7. n >= s * k
      BY <2>1, <2>5, <2>6, <1>5, HigherTarget
    <2> QED BY <2>7, <2>2, <2>3, <2>4
  <1> HIDE DEF ok
  <1>6. ASSUME NEW s \in TARGET_ACC, NEW t \in TARGET_ACC, s < t, picked[t] # Nothing
        PROVE  picked[s] # Nothing /\ picked[s] <= picked[t]
    <2>1. PICK S : S = ok(s)
      OBVIOUS
    <2>2. PICK T : T = ok(t)
      OBVIOUS
    <2>3. T # {} /\ picked[t] = Min(T)
      BY <2>2, <1>3, <1>6
    <2>4. T \subseteq S /\ S \subseteq THRESHOLDS
      BY <2>1, <2>2, <1>4, <1>5, <1>6
    <2>5. S \subseteq Nat /\ T \subseteq Nat /\ S # {}
      BY <2>3, <2>4, TargetsAreNumbers
    <2>6. Min(T) \in T /\ Min(S) \in S /\ \A n \in S : Min(S) <= n
      BY <2>3, <2>5, LeastOf
    <2>7. picked[s] = Min(S)
      BY <2>1, <2>5, <1>3
    <2>8. Min(S) # Nothing
      BY <2>4, <2>6, TargetsAreNumbers
    <2> QED BY <2>3, <2>4, <2>6, <2>7, <2>8
  <1> QED BY <1>6 DEF InOrder

LEMMA PicksInOrder ==
    ASSUME NEW pool \in SUBSET Rows, NEW picked \in Picks[pool]
    PROVE  InOrder(picked)
  <1>1. PICK f : f = [all \in SUBSET Rows |->
        {Picked(ThresholdCurve(all, guess.right, guess.margin)) :
            guess \in [right : SUBSET all, margin : [all -> 0 .. MaxMargin]]}]
    OBVIOUS
  <1>2. Picks = f
    BY <1>1, ComputedIs DEF Picks
  <1>3. \E right, margin : picked = Picked(ThresholdCurve(pool, right, margin))
    <2>1. \E guess : picked = Picked(ThresholdCurve(pool, guess.right, guess.margin))
      BY <1>1, <1>2
    <2> QED BY <2>1
  <1> QED BY <1>3, PickedInOrder

-------------------------------------------------------------------------------
(* What follows of it.                                                      *)

LEMMA FairIfOld == ASSUME LearnedOld PROVE TestIsFair
  <1>1. TestUnseen
    <2> SUFFICES ASSUME evaluation # Nothing, evaluation.rows # Nothing
                 PROVE  LET data == evaluation.rows
                        IN  /\ \A t \in Test(data), r \in evaluation.m.trained \cup evaluation.m.ranked :
                                 <<t, r>> \in Chains[data] =>
                                    \E g \in lost : <<t, g>> \in Chains[data \cup lost]
                            /\ \A month \in Rolling(data) : \A t \in month.test, r \in month.train :
                                 <<t, r>> \notin Chains[data]
      BY DEF TestUnseen
    <2>1. PICK data : data = evaluation.rows
      OBVIOUS
    <2>2. data \in SUBSET Rows /\ lost \in SUBSET Rows /\ IsModel(evaluation.m, data \cup lost)
      BY <2>1 DEF LearnedOld, Evaluating
    <2>3. ASSUME NEW t \in Test(data), NEW r \in evaluation.m.trained \cup evaluation.m.ranked,
                 <<t, r>> \in Chains[data]
          PROVE  \E g \in lost : <<t, g>> \in Chains[data \cup lost]
      <3>1. PICK old \in SUBSET (data \cup lost) : r \in Pool(old)
        BY <2>2 DEF IsModel, IsPool
      <3>2. PICK gone : gone = lost
        OBVIOUS
      <3>3. \E g \in gone : <<t, g>> \in Chains[data \cup gone]
        BY <2>2, <2>3, <3>1, <3>2, OldPoolUnseen
      <3> QED BY <3>2, <3>3
    <2>4. ASSUME NEW month \in Rolling(data), NEW t \in month.test, NEW r \in month.train,
                 <<t, r>> \in Chains[data]
          PROVE  FALSE
      <3>1. PICK cut \in ROLL_MONTHS :
              month = [train |-> data \ TestSide(data, cut),
                       test |-> {b \in TestSide(data, cut) : Month[b] = cut}]
        BY <2>4 DEF Rolling
      <3>2. t \in TestSide(data, cut) /\ r \in data /\ r \notin TestSide(data, cut)
        BY <2>4, <3>1
      <3>3. t \in data
        BY <3>2 DEF TestSide
      <3>4. Groups[data][t] = Groups[data][r]
        BY <2>2, <2>4, <3>2, <3>3, ChainsAre
      <3> QED BY <3>2, <3>4, <2>2, SidesApart
    <2> QED BY <2>1, <2>3, <2>4
  <1>2. WrongIsUnseen
    <2> SUFFICES ASSUME evaluation # Nothing, evaluation.rows # Nothing,
                        NEW b \in Attribution(evaluation.rows, Test(evaluation.rows)).conflict
                                  \cup Attribution(evaluation.rows, Test(evaluation.rows)).plain,
                        NormOf[b] # ""
                 PROVE  FALSE
      BY DEF WrongIsUnseen
    <2>1. PICK data : data = evaluation.rows
      OBVIOUS
    <2>2. data \in SUBSET Rows
      BY <2>1 DEF LearnedOld, Evaluating
    <2>3. PICK cause : cause = Attribution(data, Test(data))
      OBVIOUS
    <2>4. b \in cause.conflict \cup cause.plain
      BY <2>1, <2>3
    <2>5. b \in Test(data) /\ \E q \in Pool(data) : NormOf[q] = NormOf[b]
      <3> DEFINE poolTags(x) == {Tag(data, p) : p \in {q \in Pool(data) : NormOf[q] = NormOf[x]}}
                 seen == {x \in Test(data) : poolTags(x) # {}}
      <3>1. cause.conflict \subseteq seen /\ cause.plain \subseteq seen
        BY <2>3 DEF Attribution
      <3>2. b \in seen
        BY <2>4, <3>1
      <3> QED BY <3>2
    <2>6. PICK q \in Pool(data) : NormOf[q] = NormOf[b]
      BY <2>5
    <2>7. b \in data /\ q \in data /\ Alike(b, q)
      BY <2>5, <2>6 DEF Test, TestSide, Pool, Alike
    <2>8. Groups[data][b] = Groups[data][q]
      <3>1. PICK g : g = Groups[data]
        OBVIOUS
      <3>2. GroupedBy(g, data)
        BY <3>1, <2>2, GroupsAre
      <3> QED BY <3>1, <3>2, <2>7 DEF GroupedBy
    <2>9. q \in Test(data)
      BY <2>2, <2>5, <2>7, <2>8, SidesApart DEF Test
    <2> QED BY <2>6, <2>9 DEF Pool
  <1>3. ThresholdsUnseen
    BY DEF ThresholdsUnseen, LearnedOld, Deploying, InOrder
  <1> QED BY <1>1, <1>2, <1>3 DEF TestIsFair

-------------------------------------------------------------------------------
(* LearnedOld is kept by every step.                                        *)

\* Its part about what is kept between the programs.
Basis ==
    /\ coded \subseteq Rows /\ lost \subseteq Rows
    /\ ranking # Nothing => ranking \subseteq coded \cup lost
    /\ model # Nothing => IsModel(model, coded \cup lost)

LEMMA OthersOld ==
    /\ (Basis /\ UNCHANGED <<coded, lost, ranking, model>> => Basis')
    /\ (Searching /\ UNCHANGED <<coded, lost, search>> => Searching')
    /\ (Evaluating /\ UNCHANGED <<coded, lost, evaluation>> => Evaluating')
    /\ (Deploying /\ UNCHANGED deployment => Deploying')
  <1>1. ASSUME Basis, UNCHANGED <<coded, lost, ranking, model>> PROVE Basis'
    BY <1>1 DEF Basis
  <1>2. ASSUME Searching, UNCHANGED <<coded, lost, search>> PROVE Searching'
    BY <1>2 DEF Searching
  <1>3. ASSUME Evaluating, UNCHANGED <<coded, lost, evaluation>> PROVE Evaluating'
    BY <1>3 DEF Evaluating
  <1>4. ASSUME Deploying, UNCHANGED deployment PROVE Deploying'
    BY <1>4 DEF Deploying
  <1> QED BY <1>1, <1>2, <1>3, <1>4

LEMMA LearnedOldIs == LearnedOld <=> Basis /\ Searching /\ Evaluating /\ Deploying
  BY DEF LearnedOld, Basis

LEMMA LearnedOldNextIs == LearnedOld' <=> (Basis' /\ Searching' /\ Evaluating' /\ Deploying')
  BY DEF LearnedOld, Basis

\* A merge: what is known grows, what is lost too.
LEMMA MergeKeepsOld ==
    ASSUME LearnedOld, NEW b \in Rows, Code(b) \/ LoseCode(b)
    PROVE  LearnedOld'
  <1>1. PICK known : known = coded \cup lost
    OBVIOUS
  <1>2. PICK known2 : known2 = coded' \cup lost'
    OBVIOUS
  <1>3. /\ known \subseteq known2 /\ lost \subseteq lost' /\ coded' \subseteq Rows /\ lost' \subseteq Rows
        /\ UNCHANGED <<ranking, model, search, evaluation, deployment>>
    BY <1>1, <1>2 DEF Code, LoseCode, LearnedOld
  <1>4. \A S : IsPool(S, known) => IsPool(S, known2)
    BY <1>3, PoolsGrow
  <1>5. \A m : IsModel(m, known) => IsModel(m, known2)
    BY <1>3, PoolsGrow
  <1>6. \A m, data : IsModel(m, data \cup lost) => IsModel(m, data \cup lost')
    <2> SUFFICES ASSUME NEW m, NEW data, IsModel(m, data \cup lost)
                 PROVE  IsModel(m, data \cup lost')
      OBVIOUS
    <2>1. PICK old : old = data \cup lost
      OBVIOUS
    <2>2. PICK new : new = data \cup lost'
      OBVIOUS
    <2>3. old \subseteq new
      BY <2>1, <2>2, <1>3
    <2>4. IsModel(m, old) => IsModel(m, new)
      BY <2>3, PoolsGrow
    <2> QED BY <2>1, <2>2, <2>4
  <1>7. Basis'
    BY <1>1, <1>2, <1>3, <1>5 DEF LearnedOld, Basis
  <1>8. Searching'
    <2>1. Searching
      BY DEF LearnedOld
    <2> QED BY <2>1, <1>1, <1>2, <1>3, <1>4 DEF Searching
  <1>9. Evaluating'
    <2>1. Evaluating
      BY DEF LearnedOld
    <2> QED BY <2>1, <1>1, <1>2, <1>3, <1>5, <1>6 DEF Evaluating
  <1>10. Deploying'
    BY <1>3, OthersOld DEF LearnedOld
  <1> QED BY <1>7, <1>8, <1>9, <1>10, LearnedOldNextIs

LEMMA SearchKeepsOld ==
    ASSUME LearnedOld, StartSearch \/ RankRepresentations \/ SaveBest \/ EndSearch
    PROVE  LearnedOld'
  <1>1. UNCHANGED <<coded, lost, evaluation, deployment>>
    BY DEF StartSearch, RankRepresentations, SaveBest, EndSearch
  <1>2. Basis /\ Searching /\ Evaluating /\ Deploying
    BY LearnedOldIs
  <1>3. Evaluating' /\ Deploying'
    BY <1>1, <1>2, OthersOld
  <1>4. ASSUME StartSearch PROVE Basis' /\ Searching'
    <2>1. UNCHANGED <<coded, lost, ranking, model>> /\ search' = [rows |-> coded, ranked |-> Nothing]
      BY <1>4 DEF StartSearch
    <2>2. Basis'
      BY <2>1, <1>2, OthersOld
    <2> QED BY <2>1, <2>2 DEF Searching
  <1>5. ASSUME RankRepresentations PROVE Basis' /\ Searching'
    <2>1. /\ UNCHANGED <<coded, lost, model>> /\ search # Nothing
          /\ ranking' = IF ranking = Nothing THEN search.rows ELSE ranking
          /\ search' = [search EXCEPT !.ranked = Pool(ranking')]
      BY <1>5 DEF RankRepresentations
    <2>2. /\ search \in [rows : {search.rows}, ranked : {search.ranked}]
          /\ search.rows \subseteq coded \cup lost
      BY <2>1, <1>2 DEF Searching
    <2>3. ranking' \subseteq coded \cup lost
      BY <2>1, <2>2, <1>2 DEF Basis
    <2>4. Basis'
      BY <2>1, <2>3, <1>2 DEF Basis
    <2>5. search' = [rows |-> search.rows, ranked |-> Pool(ranking')]
      BY <2>1, <2>2
    <2>6. IsPool(Pool(ranking'), coded \cup lost)
      BY <2>3 DEF IsPool
    <2>7. Searching'
      BY <2>1, <2>2, <2>5, <2>6 DEF Searching
    <2> QED BY <2>4, <2>7
  <1>6. ASSUME SaveBest PROVE Basis' /\ Searching'
    <2>1. /\ UNCHANGED <<coded, lost, ranking>> /\ search' = Nothing
          /\ search # Nothing /\ search.ranked # Nothing
          /\ model'.trained = Pool(search.rows) /\ model'.ranked = search.ranked
      BY <1>6 DEF SaveBest
    <2>2. IsPool(Pool(search.rows), coded \cup lost) /\ IsPool(search.ranked, coded \cup lost)
      BY <2>1, <1>2 DEF Searching, IsPool
    <2>3. Basis'
      BY <2>1, <2>2, <1>2 DEF Basis, IsModel
    <2> QED BY <2>1, <2>3 DEF Searching
  <1>7. ASSUME EndSearch PROVE Basis' /\ Searching'
    <2>1. UNCHANGED <<coded, lost, ranking, model>> /\ search' = Nothing
      BY <1>7 DEF EndSearch
    <2>2. Basis'
      BY <2>1, <1>2, OthersOld
    <2> QED BY <2>1, <2>2 DEF Searching
  <1> QED BY <1>3, <1>4, <1>5, <1>6, <1>7, LearnedOldNextIs

LEMMA EvaluationKeepsOld ==
    ASSUME LearnedOld, StartEvaluation \/ Evaluate \/ EndEvaluation
    PROVE  LearnedOld'
  <1>1. UNCHANGED <<coded, lost, ranking, model, search, deployment>>
    BY DEF StartEvaluation, Evaluate, EndEvaluation
  <1>2. Basis /\ Searching /\ Evaluating /\ Deploying
    BY LearnedOldIs
  <1>3. Basis' /\ Searching' /\ Deploying'
    BY <1>1, <1>2, OthersOld
  <1>4. ASSUME StartEvaluation PROVE Evaluating'
    <2>1. evaluation' = [m |-> model, rows |-> Nothing] /\ model # Nothing
      BY <1>4 DEF StartEvaluation
    <2> QED BY <2>1, <1>1, <1>2 DEF Evaluating, Basis
  <1>5. ASSUME Evaluate PROVE Evaluating'
    <2>1. evaluation # Nothing /\ evaluation' = [evaluation EXCEPT !.rows = coded]
      BY <1>5 DEF Evaluate
    <2>2. /\ evaluation \in [m : {evaluation.m}, rows : {evaluation.rows}]
          /\ IsModel(evaluation.m, coded \cup lost)
      BY <2>1, <1>2 DEF Evaluating
    <2>3. evaluation' = [m |-> evaluation.m, rows |-> coded]
      BY <2>1, <2>2
    <2> QED BY <2>2, <2>3, <1>1, <1>2 DEF Evaluating, Basis
  <1>6. ASSUME EndEvaluation PROVE Evaluating'
    BY <1>6 DEF EndEvaluation, Evaluating
  <1> QED BY <1>3, <1>4, <1>5, <1>6, LearnedOldNextIs

\* What a deployment consists of.
IsDeployment(d) ==
    d \in [no : {d.no}, rows : {d.rows}, thresholds : {d.thresholds}, at : {d.at}]

LEMMA DeploymentKeepsOld ==
    ASSUME LearnedOld,
           \/ StartDeployment \/ ReadRows \/ Export("npz", "json") \/ Export("json", "verify")
           \/ Verify \/ PickThresholds \/ CopyWeights \/ CopyVocabulary \/ EndDeployment
    PROVE  LearnedOld'
  <1>1. UNCHANGED <<coded, lost, ranking, model, search, evaluation>>
    BY DEF StartDeployment, ReadRows, Export, Verify, PickThresholds, CopyWeights, CopyVocabulary,
           EndDeployment
  <1>2. Basis /\ Searching /\ Evaluating /\ Deploying
    BY LearnedOldIs
  <1>3. Basis' /\ Searching' /\ Evaluating'
    BY <1>1, <1>2, OthersOld
  <1>4. ASSUME StartDeployment PROVE Deploying'
    BY <1>4 DEF StartDeployment, Deploying
  <1>5. ASSUME ReadRows PROVE Deploying'
    <2>1. /\ deployment # Nothing
          /\ deployment' = [deployment EXCEPT !.rows = coded, !.at = "npz"]
      BY <1>5 DEF ReadRows
    <2>2. IsDeployment(deployment)
      BY <2>1, <1>2 DEF Deploying, IsDeployment
    <2>3. deployment' = [no |-> deployment.no, rows |-> coded,
                         thresholds |-> deployment.thresholds, at |-> "npz"]
      BY <2>1, <2>2 DEF IsDeployment
    <2> QED BY <2>1, <2>3, <1>2 DEF Deploying, Basis
  <1>6. ASSUME NEW file \in {"npz", "json"}, NEW then \in {"json", "verify"}, Export(file, then)
        PROVE  Deploying'
    <2>1. /\ deployment # Nothing /\ deployment.at \in {"npz", "json"}
          /\ deployment' = [deployment EXCEPT !.at = then]
      BY <1>6 DEF Export
    <2>2. IsDeployment(deployment) /\ deployment.rows \subseteq Rows
      BY <2>1, <1>2 DEF Deploying, IsDeployment
    <2>3. deployment' = [no |-> deployment.no, rows |-> deployment.rows,
                         thresholds |-> deployment.thresholds, at |-> then]
      BY <2>1, <2>2 DEF IsDeployment
    <2> QED BY <2>1, <2>2, <2>3, <1>2 DEF Deploying
  <1>7. ASSUME Verify PROVE Deploying'
    <2>1. /\ deployment # Nothing /\ deployment.at = "verify"
          /\ deployment' = [deployment EXCEPT !.at = "curve"]
      BY <1>7 DEF Verify
    <2>2. IsDeployment(deployment) /\ deployment.rows \subseteq Rows
      BY <2>1, <1>2 DEF Deploying, IsDeployment
    <2>3. deployment' = [no |-> deployment.no, rows |-> deployment.rows,
                         thresholds |-> deployment.thresholds, at |-> "curve"]
      BY <2>1, <2>2 DEF IsDeployment
    <2> QED BY <2>1, <2>2, <2>3, <1>2 DEF Deploying
  <1>8. ASSUME PickThresholds PROVE Deploying'
    <2>1. deployment # Nothing /\ deployment.at = "curve"
      BY <1>8 DEF PickThresholds
    <2>2. IsDeployment(deployment) /\ deployment.rows \in SUBSET Rows
      BY <2>1, <1>2 DEF Deploying, IsDeployment
    <2>3. PICK parts \in Folds(deployment.rows), picked \in Picks[Pool(deployment.rows)] :
         deployment' = [deployment EXCEPT
            !.rows = Nothing, !.at = "copy npz",
            !.thresholds = [picked |-> picked, seen |-> Seen(parts, deployment.rows)]]
      BY <1>8 DEF PickThresholds
    <2>4. PICK data \in SUBSET Rows : data = deployment.rows
      BY <2>2
    <2>5. Pool(data) \in SUBSET Rows
      BY DEF Pool
    <2>6. InOrder(picked) /\ Seen(parts, data) = {}
      BY <2>3, <2>4, <2>5, PicksInOrder, GuessedUnseen
    <2>7. PICK thresholds : thresholds = [picked |-> picked, seen |-> {}]
      OBVIOUS
    <2>8. deployment' = [deployment EXCEPT !.rows = Nothing, !.at = "copy npz",
                                           !.thresholds = thresholds]
      BY <2>3, <2>4, <2>6, <2>7
    <2>9. deployment' = [no |-> deployment.no, rows |-> Nothing,
                         thresholds |-> thresholds, at |-> "copy npz"]
      BY <2>2, <2>8 DEF IsDeployment
    <2>10. thresholds.picked = picked /\ thresholds.seen = {}
      BY <2>7
    <2> QED BY <2>6, <2>9, <2>10 DEF Deploying
  <1>9. ASSUME CopyWeights PROVE Deploying'
    <2>1. /\ deployment # Nothing
          /\ deployment' = [deployment EXCEPT !.thresholds = Nothing, !.at = "copy json"]
      BY <1>9 DEF CopyWeights
    <2>2. IsDeployment(deployment)
      BY <2>1, <1>2 DEF Deploying, IsDeployment
    <2>3. deployment' = [no |-> deployment.no, rows |-> deployment.rows,
                         thresholds |-> Nothing, at |-> "copy json"]
      BY <2>1, <2>2 DEF IsDeployment
    <2> QED BY <2>3 DEF Deploying
  <1>10. ASSUME CopyVocabulary \/ EndDeployment PROVE Deploying'
    BY <1>10 DEF CopyVocabulary, EndDeployment, Deploying
  <1> QED BY <1>3, <1>4, <1>5, <1>6, <1>7, <1>8, <1>9, <1>10, LearnedOldNextIs

LEMMA ModelInitOld == ASSUME ModelInit PROVE LearnedOld
  BY DEF ModelInit, LearnedOld, Searching, Evaluating, Deploying

LEMMA LearnedOldNext == ASSUME LearnedOld, [ModelNext]_modelVars PROVE LearnedOld'
  <1>1. CASE \E b \in Rows : Code(b) \/ LoseCode(b)
    BY <1>1, MergeKeepsOld
  <1>2. CASE StartSearch \/ RankRepresentations \/ SaveBest \/ EndSearch
    BY <1>2, SearchKeepsOld
  <1>3. CASE StartEvaluation \/ Evaluate \/ EndEvaluation
    BY <1>3, EvaluationKeepsOld
  <1>4. CASE \/ StartDeployment \/ ReadRows \/ Export("npz", "json") \/ Export("json", "verify")
             \/ Verify \/ PickThresholds \/ CopyWeights \/ CopyVocabulary \/ EndDeployment
    BY <1>4, DeploymentKeepsOld
  <1>5. CASE UNCHANGED modelVars
    <2>1. UNCHANGED <<coded, lost, ranking, model, search, evaluation, deployment>>
      BY <1>5 DEF modelVars
    <2> QED BY <2>1, OthersOld, LearnedOldIs, LearnedOldNextIs
  <1> QED BY <1>1, <1>2, <1>3, <1>4, <1>5 DEF ModelNext

\* However many notices the merges code, or code no more, between the search (23), the
\* evaluation (24) and the deployment (25): a model is judged by notices that no chain of
\* titles and numbers links to one it has learned from or was ranked on, save through a
\* notice that has lost its code; a wrong answer is on a title not seen, unless nothing of
\* it is left; and thresholds are picked, in the order of their targets, from such guesses.
THEOREM TestIsFairHolds == ModelSpec => []TestIsFair
  <1>1. ModelInit => LearnedOld
    BY ModelInitOld
  <1>2. LearnedOld /\ [ModelNext]_modelVars => LearnedOld'
    BY LearnedOldNext
  <1>3. LearnedOld => TestIsFair
    BY FairIfOld
  <1> QED BY <1>1, <1>2, <1>3, PTL DEF ModelSpec

-------------------------------------------------------------------------------
(* The experiments' split: a title is on one side of it.                    *)

LEMMA DrawnApart ==
    ASSUME NEW S, NEW a, NEW b
    PROVE  /\ DrawnTitles(S, a, b) \subseteq S
           /\ Apart(S \ DrawnTitles(S, a, b), DrawnTitles(S, a, b))
  <1> DEFINE T == TitlesIn(S)
             n == Cardinality(T)
             first(t) == b * (Shuffle[n][Position(T, t)] - 1) < a * n
  <1>1. DrawnTitles(S, a, b) = {r \in S : first(TitleOf[r])}
    BY Zenon DEF DrawnTitles
  <1>2. PICK D : D = DrawnTitles(S, a, b)
    OBVIOUS
  <1>3. \A r : r \in D <=> r \in S /\ first(TitleOf[r])
    BY <1>1, <1>2
  <1> HIDE DEF first
  <1>4. Apart(S \ D, D)
    BY <1>3 DEF Apart, TitlesIn
  <1> QED BY <1>2, <1>3, <1>4

LEMMA PartsApart ==
    ASSUME NEW data
    PROVE  /\ TestRows(data) \subseteq data /\ ValRows(data) \subseteq data /\ TrainRows(data) \subseteq data
           /\ Apart(TrainRows(data), TestRows(data))
           /\ Apart(TrainRows(data) \cup ValRows(data), TestRows(data))
           /\ Apart(ValRows(data), TestRows(data))
  <1>1. Rest(data) \subseteq data /\ Apart(data \ Rest(data), Rest(data))
    BY DrawnApart DEF Rest
  <1>2. TestRows(data) \subseteq Rest(data) /\ Apart(Rest(data) \ TestRows(data), TestRows(data))
    BY DrawnApart DEF TestRows
  <1> QED BY <1>1, <1>2 DEF TrainRows, ValRows, Apart, TitlesIn

-------------------------------------------------------------------------------
(* Positions and shuffles: each row has its own, and none is left out.      *)

LEMMA PositionsDiffer ==
    ASSUME NEW S \in SUBSET Nat, IsFiniteSet(S)
    PROVE  /\ \A r \in S : Position(S, r) \in 1 .. Cardinality(S)
           /\ \A r, s \in S : Position(S, r) = Position(S, s) => r = s
  <1> DEFINE upTo(r) == {u \in S : u <= r}
  <1>1. \A r : IsFiniteSet(upTo(r)) /\ Cardinality(upTo(r)) \in Nat
               /\ Cardinality(upTo(r)) <= Cardinality(S)
    <2> SUFFICES ASSUME NEW r
                 PROVE  IsFiniteSet(upTo(r)) /\ Cardinality(upTo(r)) \in Nat
                        /\ Cardinality(upTo(r)) <= Cardinality(S)
      OBVIOUS
    <2>1. upTo(r) \in SUBSET S
      OBVIOUS
    <2> HIDE DEF upTo
    <2> QED BY <2>1, FS_Subset, FS_CardinalityType
  <1>2. Cardinality(S) \in Nat
    BY FS_CardinalityType
  <1>3. \A r : Position(S, r) = Cardinality(upTo(r))
    BY DEF Position
  <1>4. ASSUME NEW r \in S PROVE Cardinality(upTo(r)) # 0
    <2>1. r \in upTo(r)
      BY <1>4
    <2> HIDE DEF upTo
    <2> QED BY <2>1, <1>1, FS_EmptySet
  <1>5. ASSUME NEW r \in S, NEW s \in S, r < s
        PROVE  Cardinality(upTo(r)) # Cardinality(upTo(s))
    <2>1. upTo(r) \in SUBSET upTo(s)
      <3> SUFFICES ASSUME NEW u \in S, u <= r PROVE u <= s
        OBVIOUS
      <3>1. u \in Nat /\ r \in Nat /\ s \in Nat
        OBVIOUS
      <3> QED BY <3>1, <1>5
    <2>2. s \in upTo(s) /\ s \notin upTo(r)
      BY <1>5
    <2> HIDE DEF upTo
    <2> QED BY <2>1, <2>2, <1>1, FS_Subset
  <1> HIDE DEF upTo
  <1>6. \A r \in S : Position(S, r) \in 1 .. Cardinality(S)
    BY <1>1, <1>2, <1>3, <1>4
  <1>7. \A r, s \in S : r # s => r < s \/ s < r
    OBVIOUS
  <1> QED BY <1>3, <1>5, <1>6, <1>7

LEMMA OntoItself ==
    ASSUME NEW n \in Nat, NEW S, IsFiniteSet(S), Cardinality(S) = n, NEW f \in [S -> 1 .. n],
           \A r, s \in S : f[r] = f[s] => r = s
    PROVE  \A i \in 1 .. n : \E r \in S : f[r] = i
  <1>1. IsFiniteSet(1 .. n) /\ Cardinality(1 .. n) = n
    BY FS_Interval
  <1>2. f \in Injection(S, 1 .. n)
    BY DEF Injection, IsInjective
  <1>3. f \in Surjection(S, 1 .. n)
    BY <1>1, <1>2, FS_Injection
  <1> QED BY <1>3 DEF Surjection

\* Of the rows of a set shuffled, each place is taken by one.
LEMMA ShuffledOnce ==
    ASSUME NEW S \in SUBSET Corpus
    PROVE  LET n == Cardinality(S)
           IN  /\ IsFiniteSet(S) /\ n \in Nat
               /\ \A r \in S : Shuffle[n][Position(S, r)] \in 1 .. n
               /\ \A r, s \in S : Shuffle[n][Position(S, r)] = Shuffle[n][Position(S, s)] => r = s
               /\ \A i \in 1 .. n : \E r \in S : Shuffle[n][Position(S, r)] = i
  <1>1. PICK n : n = Cardinality(S)
    OBVIOUS
  <1>2. IsFiniteSet(S) /\ n \in Nat /\ n <= Cardinality(Corpus) /\ S \in SUBSET Nat
        /\ Cardinality(Corpus) \in Nat
    BY <1>1, CorpusAssumption, FS_Subset, FS_CardinalityType
  <1>3. CASE S = {}
    <2>1. n = 0
      BY <1>1, <1>3, FS_EmptySet
    <2> QED BY <1>1, <1>2, <1>3, <2>1
  <1>4. CASE S # {}
    <2>1. n # 0
      BY <1>1, <1>2, <1>4, FS_EmptySet
    <2>2. n \in 1 .. Cardinality(Corpus)
      BY <2>1, <1>2
    <2>3. PICK f : f = Shuffle[n]
      OBVIOUS
    <2>4. f \in [1 .. n -> 1 .. n] /\ \A i, j \in 1 .. n : f[i] = f[j] => i = j
      BY <2>2, <2>3, ShuffleAssumption
    <2>5. /\ \A r \in S : Position(S, r) \in 1 .. n
          /\ \A r, s \in S : Position(S, r) = Position(S, s) => r = s
      BY <1>1, <1>2, PositionsDiffer
    <2>6. PICK g : g = [r \in S |-> f[Position(S, r)]]
      OBVIOUS
    <2>7. g \in [S -> 1 .. n] /\ \A r, s \in S : g[r] = g[s] => r = s
      BY <2>4, <2>5, <2>6
    <2>8. \A i \in 1 .. n : \E r \in S : g[r] = i
      <3>1. Cardinality(S) = n /\ IsFiniteSet(S) /\ n \in Nat
        BY <1>1, <1>2
      <3>2. g \in [S -> 1 .. n]
        BY <2>7
      <3>3. \A r, s \in S : g[r] = g[s] => r = s
        BY <2>7
      <3> QED BY ONLY <3>1, <3>2, <3>3, OntoItself
    <2>9. \A r \in S : g[r] = Shuffle[n][Position(S, r)] /\ g[r] \in 1 .. n
      BY <2>3, <2>6, <2>7
    <2> QED BY <1>1, <1>2, <2>7, <2>8, <2>9
  <1> QED BY <1>3, <1>4

LEMMA SampleOfTest ==
    ASSUME NEW data \in SUBSET Corpus, NEW n \in SampleSizes
    PROVE  Sample(data, n) \in Seq(TestRows(data))
  <1>1. PICK test : test = TestRows(data)
    OBVIOUS
  <1>2. test \in SUBSET Corpus
    BY <1>1, PartsApart
  <1>3. PICK size : size = Cardinality(test)
    OBVIOUS
  <1>4. size \in Nat /\ \A i \in 1 .. size : \E r \in test : Shuffle[size][Position(test, r)] = i
    BY <1>2, <1>3, ShuffledOnce
  <1>5. PICK m : m = Smaller(n, size)
    OBVIOUS
  <1>6. n \in Nat
    BY ExpAssumption
  <1>7. m \in Nat /\ m <= size
    BY <1>4, <1>5, <1>6 DEF Smaller
  <1>8. \A i \in 1 .. m : (CHOOSE r \in test : Shuffle[size][Position(test, r)] = i) \in test
    <2> SUFFICES ASSUME NEW i \in 1 .. m
                 PROVE  (CHOOSE r \in test : Shuffle[size][Position(test, r)] = i) \in test
      OBVIOUS
    <2>1. i \in 1 .. size
      BY <1>4, <1>7
    <2>2. \E r \in test : Shuffle[size][Position(test, r)] = i
      BY <2>1, <1>4
    <2> QED BY <2>2
  <1>9. Sample(data, n) = [i \in 1 .. m |-> CHOOSE r \in test : Shuffle[size][Position(test, r)] = i]
    BY <1>1, <1>3, <1>5 DEF Sample
  <1>10. PICK s : s = Sample(data, n)
    OBVIOUS
  <1>11. s \in [1 .. m -> test]
    BY <1>8, <1>9, <1>10
  <1> QED BY <1>1, <1>7, <1>10, <1>11

-------------------------------------------------------------------------------
(* The examples shown.                                                      *)

LEMMA PoolsAre ==
    ASSUME NEW data \in SUBSET Corpus
    PROVE  /\ \A t : PoolOf(data, t) \in SUBSET Corpus /\ PoolOf(data, t) \subseteq TrainRows(data)
           /\ \A r \in TrainRows(data) : \E k \in DOMAIN Tags :
                Labels(data)[r] = Tags[k] /\ r \in PoolOf(data, Tags[k])
  <1>1. TrainRows(data) \subseteq data
    BY PartsApart
  <1>2. ASSUME NEW r \in data PROVE \E k \in DOMAIN Tags : Labels(data)[r] = Tags[k]
    <2>1. Labels(data)[r] = Label(data, r)
      BY DEF Labels
    <2>2. Label(data, r) = Other \/ (Label(data, r) = TagTable[ItemCode[r]]
                                     /\ TagTable[ItemCode[r]] # Absent)
      BY DEF Label
    <2>3. r \in Corpus
      OBVIOUS
    <2> QED BY <2>1, <2>2, <2>3, TagsAssumption
  <1> QED BY <1>1, <1>2 DEF PoolOf

LEMMA TurnsAreFinite == ASSUME NEW data PROVE IsFiniteSet(Turns(data))
  <1>1. PICK S : S = {Tags[t] : t \in DOMAIN Tags}
    OBVIOUS
  <1>2. Tags \in Seq(S)
    BY <1>1, TagsAssumption
  <1>3. DOMAIN Tags = 1 .. Len(Tags) /\ Len(Tags) \in Nat
    BY <1>2
  <1>4. IsFiniteSet(DOMAIN Tags)
    BY <1>3, FS_Interval
  <1>5. Cardinality(Corpus) \in Nat
    BY CorpusAssumption, FS_CardinalityType
  <1>6. IsFiniteSet(1 .. Cardinality(Corpus))
    BY <1>5, FS_Interval
  <1>7. IsFiniteSet((1 .. Cardinality(Corpus)) \X DOMAIN Tags)
    BY <1>4, <1>6, FS_Product
  <1> QED BY <1>7, FS_Subset DEF Turns

\* Whoever has his turn before another whose turn does not come.
LEMMA EarlierDealt ==
    ASSUME NEW data, NEW few \in Nat, NEW u \in Turns(data), u \notin Dealt(data, few),
           NEW v \in Dealt(data, few)
    PROVE  Before(v, u)
  <1> DEFINE earlier(w) == {x \in Turns(data) : Before(x, w)}
  <1>1. /\ \A w : IsFiniteSet(earlier(w)) /\ Cardinality(earlier(w)) \in Nat
        /\ v \in Turns(data)
        /\ Cardinality(earlier(v)) < few /\ ~(Cardinality(earlier(u)) < few)
    <2>1. \A w : IsFiniteSet(earlier(w)) /\ Cardinality(earlier(w)) \in Nat
      <3> SUFFICES ASSUME NEW w PROVE IsFiniteSet(earlier(w)) /\ Cardinality(earlier(w)) \in Nat
        OBVIOUS
      <3>1. earlier(w) \in SUBSET Turns(data)
        OBVIOUS
      <3> HIDE DEF earlier
      <3> QED BY <3>1, TurnsAreFinite, FS_Subset, FS_CardinalityType
    <2> QED BY <2>1 DEF Dealt
  <1> SUFFICES ASSUME ~Before(v, u) PROVE FALSE
    OBVIOUS
  <1>2. \A w \in Turns(data) : w[1] \in Int /\ w[2] \in Int
    <2>1. PICK S : S = {Tags[t] : t \in DOMAIN Tags}
      OBVIOUS
    <2>2. Tags \in Seq(S)
      BY <2>1, TagsAssumption
    <2>3. DOMAIN Tags = 1 .. Len(Tags) /\ Len(Tags) \in Nat
      BY <2>2
    <2>4. \A t \in DOMAIN Tags : t \in Int
      BY <2>3
    <2> QED BY <2>4 DEF Turns
  <1>3. earlier(u) \subseteq earlier(v)
    <2> SUFFICES ASSUME NEW w \in Turns(data), Before(w, u) PROVE Before(w, v)
      OBVIOUS
    <2>1. /\ w[1] \in Int /\ w[2] \in Int /\ u[1] \in Int /\ u[2] \in Int
          /\ v[1] \in Int /\ v[2] \in Int
      BY <1>1, <1>2
    <2> QED BY <2>1 DEF Before
  <1> HIDE DEF earlier
  <1>4. Cardinality(earlier(u)) <= Cardinality(earlier(v))
    BY <1>1, <1>3, FS_Subset
  <1> QED BY <1>1, <1>4

\* The turns a tag has had.
DealtOf(data, few, t) == {u \in Dealt(data, few) : u[2] = t}

LEMMA DealtIsFinite ==
    ASSUME NEW data, NEW few, NEW t
    PROVE  IsFiniteSet(DealtOf(data, few, t)) /\ Cardinality(DealtOf(data, few, t)) \in Nat
  <1>1. DealtOf(data, few, t) \in SUBSET Turns(data)
    BY DEF DealtOf, Dealt
  <1> QED BY <1>1, TurnsAreFinite, FS_Subset, FS_CardinalityType

\* The place a row has in its pool, shuffled.
PlaceIn(pool, r) == Shuffle[Cardinality(pool)][Position(pool, r)]

LEMMA ShownIs ==
    ASSUME NEW data, NEW few
    PROVE  \A r : r \in Shown(data, few) <=> \E t \in DOMAIN Tags :
              /\ r \in PoolOf(data, Tags[t])
              /\ PlaceIn(PoolOf(data, Tags[t]), r)
                   > Cardinality(PoolOf(data, Tags[t])) - Cardinality(DealtOf(data, few, t))
  BY DEF Shown, PlaceIn, DealtOf

LEMMA ShownFromPools ==
    ASSUME NEW data \in SUBSET Corpus, NEW few, NEW r \in Shown(data, few)
    PROVE  \E t \in DOMAIN Tags :
              /\ r \in PoolOf(data, Tags[t])
              /\ DealtOf(data, few, t) # {}
              /\ Cardinality(DealtOf(data, few, t)) = 1
                    => PlaceIn(PoolOf(data, Tags[t]), r) = Cardinality(PoolOf(data, Tags[t]))
  <1>1. PICK t \in DOMAIN Tags :
              /\ r \in PoolOf(data, Tags[t])
              /\ PlaceIn(PoolOf(data, Tags[t]), r)
                   > Cardinality(PoolOf(data, Tags[t])) - Cardinality(DealtOf(data, few, t))
    BY ShownIs
  <1>2. PICK pool : pool = PoolOf(data, Tags[t])
    OBVIOUS
  <1>3. PICK n : n = Cardinality(pool)
    OBVIOUS
  <1>4. PICK d : d = Cardinality(DealtOf(data, few, t))
    OBVIOUS
  <1>5. pool \in SUBSET Corpus
    BY <1>2, PoolsAre
  <1>6. n \in Nat /\ PlaceIn(pool, r) \in 1 .. n
    BY <1>1, <1>2, <1>3, <1>5, ShuffledOnce DEF PlaceIn
  <1>7. d \in Nat
    BY <1>4, DealtIsFinite
  <1>8. PlaceIn(pool, r) > n - d
    BY <1>1, <1>2, <1>3, <1>4
  <1>9. d # 0 /\ (d = 1 => PlaceIn(pool, r) = n)
    BY <1>6, <1>7, <1>8
  <1>10. DealtOf(data, few, t) # {}
    BY <1>9, <1>4, FS_EmptySet
  <1> QED BY <1>1, <1>2, <1>3, <1>4, <1>9, <1>10

LEMMA ShownOnceDealt ==
    ASSUME NEW data \in SUBSET Corpus, NEW few, NEW t \in DOMAIN Tags,
           DealtOf(data, few, t) # {}, PoolOf(data, Tags[t]) # {}
    PROVE  \E r \in PoolOf(data, Tags[t]) : r \in Shown(data, few)
  <1>2. PICK pool : pool = PoolOf(data, Tags[t])
    OBVIOUS
  <1>3. PICK n : n = Cardinality(pool)
    OBVIOUS
  <1>4. PICK d : d = Cardinality(DealtOf(data, few, t))
    OBVIOUS
  <1>5. pool \in SUBSET Corpus
    BY <1>2, PoolsAre
  <1>6. n \in Nat /\ IsFiniteSet(pool)
        /\ \A i \in 1 .. n : \E r \in pool : PlaceIn(pool, r) = i
    BY <1>3, <1>5, ShuffledOnce DEF PlaceIn
  <1>7. d \in Nat /\ d # 0
    BY <1>4, DealtIsFinite, FS_EmptySet
  <1>8. n # 0
    BY <1>2, <1>3, <1>6, FS_EmptySet
  <1>9. PICK r \in pool : PlaceIn(pool, r) = n
    BY <1>6, <1>8
  <1>10. n > n - d
    BY <1>6, <1>7
  <1>11. r \in Shown(data, few)
    BY <1>2, <1>3, <1>4, <1>9, <1>10, ShownIs
  <1> QED BY <1>2, <1>11

\* The tags there are examples of.
KnownTags(data) == {Labels(data)[r] : r \in TrainRows(data)}

\* A tag without a turn: then nobody has had a second, so fewer are shown than there are tags.
LEMMA OneEachAtMost ==
    ASSUME NEW data \in SUBSET Corpus, NEW few \in Nat, NEW k \in DOMAIN Tags,
           Tags[k] \in KnownTags(data), DealtOf(data, few, k) = {}
    PROVE  Cardinality(Shown(data, few)) < Cardinality(KnownTags(data))
  <1> DEFINE first == <<1, k>>
  <1>1. PICK r0 \in TrainRows(data) : Tags[k] = Labels(data)[r0]
    BY DEF KnownTags
  <1>2. r0 \in PoolOf(data, Tags[k])
    BY <1>1 DEF PoolOf
  <1>3. /\ IsFiniteSet(PoolOf(data, Tags[k]))
        /\ Cardinality(PoolOf(data, Tags[k])) \in Nat /\ Cardinality(Corpus) \in Nat
        /\ Cardinality(PoolOf(data, Tags[k])) # 0 /\ Cardinality(Corpus) # 0
    <2>1. PICK pool : pool = PoolOf(data, Tags[k])
      OBVIOUS
    <2>2. pool \in SUBSET Corpus /\ r0 \in pool /\ pool # {}
      BY <2>1, <1>2, PoolsAre
    <2>3. IsFiniteSet(pool) /\ IsFiniteSet(Corpus) /\ Corpus # {}
      BY <2>2, CorpusAssumption, FS_Subset
    <2> QED BY <2>1, <2>2, <2>3, FS_CardinalityType, FS_EmptySet
  <1>4. first \in Turns(data) /\ first[1] = 1 /\ first[2] = k
    BY <1>3 DEF Turns
  <1>5. first \notin Dealt(data, few)
    BY <1>4 DEF DealtOf
  <1>6. PICK u0 : u0 = first
    OBVIOUS
  <1> HIDE DEF first
  <1>7. ASSUME NEW v \in Dealt(data, few) PROVE v = <<1, v[2]>> /\ v[2] # k
    <2>1. Before(v, u0)
      BY <1>4, <1>5, <1>6, EarlierDealt
    <2>2. v \in (1 .. Cardinality(Corpus)) \X DOMAIN Tags
      BY DEF Dealt, Turns
    <2>3. v[1] \in Int /\ v[1] >= 1 /\ v = <<v[1], v[2]>>
      BY <2>2, <1>3
    <2>4. v[1] = 1
      BY <2>1, <2>3, <1>4, <1>6 DEF Before
    <2>5. v[2] # k
      BY <1>7 DEF DealtOf
    <2> QED BY <2>3, <2>4, <2>5
  <1>8. ASSUME NEW t, DealtOf(data, few, t) # {}
        PROVE  t # k /\ Cardinality(DealtOf(data, few, t)) = 1
    <2>1. PICK v \in Dealt(data, few) : v[2] = t
      BY <1>8 DEF DealtOf
    <2>2. \A w \in DealtOf(data, few, t) : w = <<1, t>>
      BY <1>7 DEF DealtOf
    <2>3. v \in DealtOf(data, few, t)
      BY <2>1 DEF DealtOf
    <2>4. DealtOf(data, few, t) = {<<1, t>>}
      BY <2>2, <2>3
    <2> QED BY <2>4, <2>1, <1>7, FS_Singleton
  <1>9. PICK shown : shown = Shown(data, few)
    OBVIOUS
  <1>10. PICK labels : labels = Labels(data)
    OBVIOUS
  <1>11. PICK rest : rest = KnownTags(data) \ {Tags[k]}
    OBVIOUS
  <1>12. ASSUME NEW r \in shown
         PROVE  \E t \in DOMAIN Tags :
                   /\ t # k /\ labels[r] = Tags[t] /\ r \in TrainRows(data)
                   /\ r \in PoolOf(data, Tags[t])
                   /\ PlaceIn(PoolOf(data, Tags[t]), r) = Cardinality(PoolOf(data, Tags[t]))
    <2>1. PICK t \in DOMAIN Tags :
              /\ r \in PoolOf(data, Tags[t])
              /\ DealtOf(data, few, t) # {}
              /\ Cardinality(DealtOf(data, few, t)) = 1
                    => PlaceIn(PoolOf(data, Tags[t]), r) = Cardinality(PoolOf(data, Tags[t]))
      BY <1>9, ShownFromPools
    <2>2. t # k /\ Cardinality(DealtOf(data, few, t)) = 1
      BY <2>1, <1>8
    <2>3. labels[r] = Tags[t] /\ r \in TrainRows(data)
      BY <2>1, <1>10 DEF PoolOf
    <2> QED BY <2>1, <2>2, <2>3
  <1>13. ASSUME NEW r \in shown PROVE labels[r] \in rest
    <2>1. PICK t \in DOMAIN Tags : t # k /\ labels[r] = Tags[t] /\ r \in TrainRows(data)
      BY <1>12
    <2>2. Tags[t] # Tags[k]
      BY <2>1, TagsAssumption
    <2>3. labels[r] \in KnownTags(data)
      BY <2>1, <1>10 DEF KnownTags
    <2> QED BY <2>1, <2>2, <2>3, <1>11
  <1>14. ASSUME NEW r \in shown, NEW s \in shown, labels[r] = labels[s] PROVE r = s
    <2>1. PICK t \in DOMAIN Tags : /\ labels[r] = Tags[t] /\ r \in PoolOf(data, Tags[t])
             /\ PlaceIn(PoolOf(data, Tags[t]), r) = Cardinality(PoolOf(data, Tags[t]))
      BY <1>12
    <2>2. PICK t2 \in DOMAIN Tags : /\ labels[s] = Tags[t2] /\ s \in PoolOf(data, Tags[t2])
             /\ PlaceIn(PoolOf(data, Tags[t2]), s) = Cardinality(PoolOf(data, Tags[t2]))
      BY <1>12
    <2>3. PICK pool : pool = PoolOf(data, Tags[t])
      OBVIOUS
    <2>4. r \in pool /\ s \in pool /\ PlaceIn(pool, r) = PlaceIn(pool, s)
      BY <2>1, <2>2, <2>3, <1>14
    <2>5. pool \in SUBSET Corpus
      BY <2>3, PoolsAre
    <2>6. \A x, y \in pool : PlaceIn(pool, x) = PlaceIn(pool, y) => x = y
      BY <2>5, ShuffledOnce DEF PlaceIn
    <2> QED BY <2>4, <2>6
  <1>15. IsFiniteSet(KnownTags(data))
    <2>1. PICK f : f = [r \in TrainRows(data) |-> labels[r]]
      OBVIOUS
    <2>2. f \in Surjection(TrainRows(data), KnownTags(data))
      BY <2>1, <1>10 DEF Surjection, KnownTags
    <2>3. IsFiniteSet(TrainRows(data))
      BY PartsApart, CorpusAssumption, FS_Subset
    <2> QED BY <2>2, <2>3, FS_Surjection
  <1>16. /\ IsFiniteSet(rest) /\ Cardinality(rest) = Cardinality(KnownTags(data)) - 1
         /\ Cardinality(KnownTags(data)) \in Nat
    BY <1>11, <1>15, FS_RemoveElement, FS_CardinalityType
  <1>17. PICK f : f = [r \in shown |-> labels[r]]
    OBVIOUS
  <1>18. f \in Injection(shown, rest)
    <2>1. f \in [shown -> rest]
      BY <1>13, <1>17
    <2>2. \A r, s \in shown : f[r] = f[s] => r = s
      BY <1>14, <1>17
    <2> QED BY <2>1, <2>2 DEF Injection, IsInjective
  <1>19. Cardinality(shown) <= Cardinality(rest) /\ IsFiniteSet(shown)
    BY <1>16, <1>18, FS_Injection
  <1>20. Cardinality(shown) \in Nat
    BY <1>19, FS_CardinalityType
  <1> QED BY <1>9, <1>16, <1>19, <1>20

LEMMA TagsShown ==
    ASSUME NEW data \in SUBSET Corpus, NEW few \in Nat,
           Cardinality(Shown(data, few)) >= Cardinality(KnownTags(data))
    PROVE  {Labels(data)[r] : r \in Shown(data, few)} = KnownTags(data)
  <1>1. Shown(data, few) \subseteq TrainRows(data)
    BY ShownIs, PoolsAre
  <1>2. ASSUME NEW tag \in KnownTags(data)
        PROVE  \E r \in Shown(data, few) : Labels(data)[r] = tag
    <2>1. PICK r0 \in TrainRows(data) : tag = Labels(data)[r0]
      BY DEF KnownTags
    <2>2. PICK k \in DOMAIN Tags : tag = Tags[k] /\ r0 \in PoolOf(data, Tags[k])
      BY <2>1, PoolsAre
    <2>3. DealtOf(data, few, k) # {}
      <3>1. SUFFICES ASSUME DealtOf(data, few, k) = {} PROVE FALSE
        OBVIOUS
      <3>2. Cardinality(Shown(data, few)) < Cardinality(KnownTags(data))
        BY <3>1, <2>2, OneEachAtMost
      <3>3. Cardinality(Shown(data, few)) \in Nat /\ Cardinality(KnownTags(data)) \in Nat
        <4>1. IsFiniteSet(TrainRows(data))
          BY PartsApart, CorpusAssumption, FS_Subset
        <4>2. IsFiniteSet(Shown(data, few))
          BY <4>1, <1>1, FS_Subset
        <4>3. PICK f : f = [r \in TrainRows(data) |-> Labels(data)[r]]
          OBVIOUS
        <4>4. f \in Surjection(TrainRows(data), KnownTags(data))
          BY <4>3 DEF Surjection, KnownTags
        <4>5. IsFiniteSet(KnownTags(data))
          BY <4>1, <4>4, FS_Surjection
        <4> QED BY <4>2, <4>5, FS_CardinalityType
      <3> QED BY <3>2, <3>3
    <2>4. PICK r \in PoolOf(data, Tags[k]) : r \in Shown(data, few)
      BY <2>2, <2>3, ShownOnceDealt
    <2>5. Labels(data)[r] = tag
      BY <2>2, <2>4 DEF PoolOf
    <2> QED BY <2>4, <2>5
  <1> QED BY <1>1, <1>2 DEF KnownTags

-------------------------------------------------------------------------------
(* ExpInv: where each line of metrics.jsonl and each file of predictions    *)
(* comes from, and what a program that has begun holds.                     *)

\* A file of predictions.
FileOK(f) ==
    /\ Len(f.answers) = Len(f.sample)
    /\ \A i \in DOMAIN f.answers : f.answers[i] \in {i, Other}
    /\ f.slug # Absent => f.model = f.slug
    /\ f.slug = Absent /\ f.few \notin Overwritten => f.model = Qwen

\* The lines of metrics.jsonl.
SearchLine(m) ==
    \E data \in SUBSET Corpus : \E best \in Winners[data] :
        m = [by |-> "hparam_grid", data |-> data, fits |-> {Final(data, best)}]

\* tuning_gain_breakdown: its grid may be of other rows than it measures.
BreakdownLine(m) ==
    \E data, chosenOn \in SUBSET Corpus : \E tuned \in Winners[chosenOn] :
        m = [by |-> "tuning_gain_breakdown", data |-> data, chosenOn |-> chosenOn,
             tuned |-> tuned, fits |-> Cells(data, tuned)]

\* llm_title_tagging.
LabelLine(m) ==
    \E data \in SUBSET Corpus, llm \in Models, few \in Nat :
        \E sampled \in SUBSET TestRows(data) :
            m = [by |-> "llm_title_tagging", data |-> data, model |-> llm,
                 few |-> Cardinality(Shown(data, few)), slug |-> llm,
                 shown |-> Shown(data, few),
                 fits |-> {Trained(Baseline, TrainRows(data), sampled)}]

\* llm_metrics_recovered.
RecoveredLine(m) ==
    \E few, llm, of, compared :
        /\ m = [by |-> "llm_metrics_recovered", few |-> few, model |-> llm, of |-> of,
                compared |-> compared]
        /\ llm \in {of, Unknown}

\* The file the line names is of its model.
HasFile(m) == \E f \in predictions : SameName(f, m) /\ f.model = m.model

\* The files.
PredictionsOK == \A f \in predictions : FileOK(f)

\* The lines.
LinesOK ==
    \A m \in metrics : \/ SearchLine(m) \/ BreakdownLine(m)
                       \/ LabelLine(m) /\ HasFile(m)
                       \/ RecoveredLine(m)

\* The grid is of some rows, with all its best settings.
GridOK ==
    grid # Absent \/ breakdown # Absent =>
        \E data \in SUBSET Corpus : grid = [data |-> data, best |-> Winners[data]]

\* A search picks among the best settings of its rows.
SearchOK ==
    gridSearch # Absent =>
        /\ gridSearch \in [data : SUBSET Corpus, best : {gridSearch.best}]
        /\ gridSearch.best # Absent => gridSearch.best \in Winners[gridSearch.data]

\* A breakdown has rows.
BreakdownOK == breakdown # Absent => breakdown.data \in SUBSET Corpus

\* A labelling: its sample is from Test, its examples are dealt, each answer is about its
\* title or about nothing.
IsLabelling(l) ==
    /\ l \in [data : SUBSET Corpus, model : Models, sample : Seq(TestRows(l.data)),
              shown : {l.shown}, answers : Seq(Nat \cup {Unknown, Other}), attempt : Nat]
    /\ \E few \in Nat : l.shown = Shown(l.data, few)
    /\ Len(l.answers) <= Len(l.sample)
    /\ \A i \in DOMAIN l.answers : l.answers[i] \in {i, Unknown, Other}

\* Its predictions are in their file.
Saved(l, stored) ==
    \E f \in stored : f.few = Cardinality(l.shown) /\ f.slug = l.model /\ f.model = l.model

\* A labelling that is to be recorded is saved.
LabellingOK ==
    labelling # Absent =>
        IsLabelling(labelling) /\ (labelling.attempt = 0 => Saved(labelling, predictions))

\* The invariant.
ExpInv ==
    /\ usable \in SUBSET Corpus
    /\ PredictionsOK /\ LinesOK /\ GridOK /\ SearchOK /\ BreakdownOK /\ LabellingOK

-------------------------------------------------------------------------------
(* What follows of it.                                                      *)

LEMMA LinesOf ==
    ASSUME LinesOK
    PROVE  /\ \A m \in Lines("hparam_grid") : SearchLine(m)
           /\ \A m \in Lines("tuning_gain_breakdown") : BreakdownLine(m)
           /\ \A m \in Lines("llm_title_tagging") : LabelLine(m) /\ HasFile(m)
           /\ \A m \in Lines("llm_metrics_recovered") : RecoveredLine(m)
           /\ \A m \in MeasuredLines : SearchLine(m) \/ BreakdownLine(m) \/ LabelLine(m)
  <1>1. \A m : SearchLine(m) => m.by = "hparam_grid"
    BY DEF SearchLine
  <1>2. \A m : BreakdownLine(m) => m.by = "tuning_gain_breakdown"
    BY DEF BreakdownLine
  <1>3. \A m : LabelLine(m) => m.by = "llm_title_tagging"
    BY DEF LabelLine
  <1>4. \A m : RecoveredLine(m) => m.by = "llm_metrics_recovered"
    BY DEF RecoveredLine
  <1> QED BY <1>1, <1>2, <1>3, <1>4 DEF LinesOK, Lines, MeasuredLines

LEMMA UnseenIfLines == ASSUME LinesOK PROVE MeasuredUnseen
  <1>1. ASSUME NEW m, SearchLine(m) PROVE \A f \in m.fits : Apart(f.learned, f.tested)
    <2>1. PICK data, best : m.fits = {Final(data, best)}
      BY <1>1 DEF SearchLine
    <2> QED BY <2>1, PartsApart DEF Final, Trained
  <1>2. ASSUME NEW m, BreakdownLine(m)
        PROVE  /\ \A f \in m.fits : Apart(f.learned, f.tested)
               /\ m.chosenOn = m.data => \A f \in m.fits : Apart(ValRows(m.chosenOn), f.tested)
    <2>1. PICK data, chosenOn, tuned : /\ m.fits = Cells(data, tuned)
                                       /\ m.chosenOn = chosenOn /\ m.data = data
      BY <1>2 DEF BreakdownLine
    <2>2. \A f \in Cells(data, tuned) :
             /\ f.tested = TestRows(data)
             /\ f.learned \in {TrainRows(data), TrainRows(data) \cup ValRows(data)}
      BY DEF Cells, Trained
    <2>3. /\ Apart(TrainRows(data), TestRows(data))
          /\ Apart(TrainRows(data) \cup ValRows(data), TestRows(data))
          /\ Apart(ValRows(data), TestRows(data))
      BY PartsApart
    <2>4. ASSUME NEW f \in m.fits PROVE Apart(f.learned, f.tested)
      <3>1. /\ f.tested = TestRows(data)
            /\ f.learned \in {TrainRows(data), TrainRows(data) \cup ValRows(data)}
        BY <2>1, <2>2
      <3>2. CASE f.learned = TrainRows(data)
        BY <3>1, <3>2, <2>3
      <3>3. CASE f.learned = TrainRows(data) \cup ValRows(data)
        BY <3>1, <3>3, <2>3
      <3> QED BY <3>1, <3>2, <3>3
    <2>5. m.chosenOn = m.data => \A f \in m.fits : Apart(ValRows(m.chosenOn), f.tested)
      BY <2>1, <2>2, <2>3
    <2> QED BY <2>4, <2>5
  <1>3. ASSUME NEW m, LabelLine(m)
        PROVE  \A f \in m.fits : Apart(f.learned, f.tested) /\ Apart(m.shown, f.tested)
    <2>0. PICK data \in SUBSET Corpus, few \in Nat : \E sampled \in SUBSET TestRows(data) :
             /\ m.fits = {Trained(Baseline, TrainRows(data), sampled)}
             /\ m.shown = Shown(data, few)
      BY <1>3 DEF LabelLine
    <2>1. PICK sampled \in SUBSET TestRows(data) :
             /\ m.fits = {Trained(Baseline, TrainRows(data), sampled)}
             /\ m.shown = Shown(data, few)
      BY <2>0
    <2>2. Shown(data, few) \subseteq TrainRows(data)
      BY ShownIs, PoolsAre
    <2>3. Apart(TrainRows(data), TestRows(data))
      BY PartsApart
    <2>4. Apart(TrainRows(data), sampled) /\ Apart(Shown(data, few), sampled)
      BY <2>2, <2>3 DEF Apart, TitlesIn
    <2> QED BY <2>1, <2>4 DEF Trained
  <1> QED BY <1>1, <1>2, <1>3, LinesOf DEF MeasuredUnseen

LEMMA ReproducedIfLines == ASSUME LinesOK PROVE BreakdownReproduces
  <1> SUFFICES ASSUME NEW g \in Lines("hparam_grid"), NEW b \in Lines("tuning_gain_breakdown"),
                      g.data = b.data, b.chosenOn = b.data, Cardinality(Winners[b.data]) = 1
               PROVE  g.fits \subseteq b.fits
    BY DEF BreakdownReproduces
  <1>0. PICK data \in SUBSET Corpus : \E best \in Winners[data] :
           g.data = data /\ g.fits = {Final(data, best)}
    <2>1. SearchLine(g)
      BY LinesOf
    <2>2. PICK data \in SUBSET Corpus : \E best \in Winners[data] :
             g = [by |-> "hparam_grid", data |-> data, fits |-> {Final(data, best)}]
      BY <2>1 DEF SearchLine
    <2> QED BY <2>2
  <1>1. PICK best \in Winners[data] : g.data = data /\ g.fits = {Final(data, best)}
    BY <1>0
  <1>2. BreakdownLine(b)
    BY LinesOf
  <1>3. PICK chosenOn : \E tuned \in Winners[chosenOn] :
           b.chosenOn = chosenOn /\ b.fits = Cells(b.data, tuned)
    BY <1>2 DEF BreakdownLine
  <1>4. PICK tuned \in Winners[data] : b.fits = Cells(data, tuned)
    BY <1>1, <1>3
  <1>5. PICK w : Winners[data] = {w}
    <2>1. IsFiniteSet(Winners[data]) /\ Cardinality(Winners[data]) = 1
      BY <1>1, ExpAssumption
    <2> QED BY <2>1, FS_Singleton
  <1>6. tuned = best
    BY <1>1, <1>4, <1>5
  <1>7. Final(data, tuned) \in Cells(data, tuned)
    BY DEF Final, Cells
  <1> QED BY <1>1, <1>4, <1>6, <1>7

LEMMA ShownIfLines == ASSUME LinesOK PROVE EveryTagShown
  <1> SUFFICES ASSUME NEW m \in Lines("llm_title_tagging"),
                      m.few >= Cardinality(KnownTags(m.data))
               PROVE  {Labels(m.data)[r] : r \in m.shown} = KnownTags(m.data)
    BY DEF EveryTagShown, KnownTags
  <1>1. LabelLine(m)
    BY LinesOf
  <1>2. PICK data \in SUBSET Corpus, few \in Nat :
           m.data = data /\ m.few = Cardinality(Shown(data, few)) /\ m.shown = Shown(data, few)
    BY <1>1 DEF LabelLine
  <1> QED BY <1>2, TagsShown

LEMMA HoldIfExpInv == ASSUME ExpInv PROVE ExperimentsHold
  <1>1. MeasuredUnseen /\ BreakdownReproduces /\ EveryTagShown
    BY UnseenIfLines, ReproducedIfLines, ShownIfLines DEF ExpInv
  <1>2. AnswersAligned
    BY DEF ExpInv, PredictionsOK, FileOK, AnswersAligned
  <1>3. PredictionsKept
    <2>1. \A m \in Lines("llm_title_tagging") : HasFile(m)
      BY LinesOf DEF ExpInv
    <2>2. \A m \in Lines("llm_metrics_recovered") : RecoveredLine(m)
      BY LinesOf DEF ExpInv
    <2>3. \A m : RecoveredLine(m) => m.model \in {m.of, Unknown}
      BY DEF RecoveredLine
    <2> QED BY <2>1, <2>2, <2>3 DEF PredictionsKept, HasFile
  <1> QED BY <1>1, <1>2, <1>3 DEF ExperimentsHold

-------------------------------------------------------------------------------
(* ExpInv is kept by every step.                                            *)

LEMMA ExpInitHolds == ASSUME ExpInit PROVE ExpInv
  <1>1. PredictionsOK
    <2>1. PICK last \in Models :
            predictions = {Predictions(k, Absent, IF k \in Overwritten THEN last ELSE Qwen, <<>>, <<>>) :
                             k \in OldFiles}
      BY DEF ExpInit
    <2> QED BY <2>1 DEF PredictionsOK, FileOK, Predictions
  <1> QED BY <1>1 DEF ExpInit, ExpInv, LinesOK, GridOK, SearchOK, BreakdownOK, LabellingOK

\* What a step leaves alone stays right.
LEMMA LeftAlone ==
    /\ PredictionsOK /\ UNCHANGED predictions => PredictionsOK'
    /\ LinesOK /\ UNCHANGED <<metrics, predictions>> => LinesOK'
    /\ GridOK /\ UNCHANGED <<grid, breakdown>> => GridOK'
    /\ SearchOK /\ UNCHANGED gridSearch => SearchOK'
    /\ BreakdownOK /\ UNCHANGED breakdown => BreakdownOK'
    /\ LabellingOK /\ UNCHANGED <<labelling, predictions>> => LabellingOK'
  <1>1. PredictionsOK /\ UNCHANGED predictions => PredictionsOK'
    BY DEF PredictionsOK
  <1>2. LinesOK /\ UNCHANGED <<metrics, predictions>> => LinesOK'
    BY DEF LinesOK, HasFile
  <1>3. GridOK /\ UNCHANGED <<grid, breakdown>> => GridOK'
    BY DEF GridOK
  <1>4. SearchOK /\ UNCHANGED gridSearch => SearchOK'
    BY DEF SearchOK
  <1>5. BreakdownOK /\ UNCHANGED breakdown => BreakdownOK'
    BY DEF BreakdownOK
  <1>6. LabellingOK /\ UNCHANGED <<labelling, predictions>> => LabellingOK'
    BY DEF LabellingOK
  <1> QED BY <1>1, <1>2, <1>3, <1>4, <1>5, <1>6

LEMMA ExpInvNextIs ==
    ExpInv' <=> (/\ usable' \in SUBSET Corpus
                 /\ PredictionsOK' /\ LinesOK' /\ GridOK' /\ SearchOK' /\ BreakdownOK' /\ LabellingOK')
  BY DEF ExpInv

\* A line more, of a kind that needs no file or has one.
LEMMA LineAdded ==
    ASSUME LinesOK, UNCHANGED predictions, NEW m, metrics' = metrics \cup {m},
           SearchLine(m) \/ BreakdownLine(m) \/ (LabelLine(m) /\ HasFile(m))
    PROVE  LinesOK'
  <1>1. \A l : HasFile(l) => HasFile(l)'
    BY DEF HasFile
  <1> QED BY <1>1 DEF LinesOK

LEMMA RecodeKeeps == ASSUME ExpInv, NEW r \in Changing, Recode(r) PROVE ExpInv'
  <1>1. usable' \in SUBSET Corpus
    BY CorpusAssumption DEF ExpInv, Recode
  <1>2. UNCHANGED <<grid, predictions, metrics, gridSearch, breakdown, labelling>>
    BY DEF Recode
  <1> QED BY <1>1, <1>2, LeftAlone, ExpInvNextIs DEF ExpInv

LEMMA SearchKeeps ==
    ASSUME ExpInv, SearchLoad \/ SearchGrid \/ SearchRecord \/ SearchDies
    PROVE  ExpInv'
  <1>1. UNCHANGED <<usable, predictions, breakdown, labelling>>
    BY DEF SearchLoad, SearchGrid, SearchRecord, SearchDies
  <1>2. usable' \in SUBSET Corpus /\ PredictionsOK' /\ BreakdownOK' /\ LabellingOK'
    BY <1>1, LeftAlone DEF ExpInv
  <1>3. ASSUME SearchLoad PROVE LinesOK' /\ GridOK' /\ SearchOK'
    <2>1. UNCHANGED <<grid, metrics>> /\ gridSearch' = [data |-> usable, best |-> Absent]
      BY <1>3 DEF SearchLoad
    <2>2. SearchOK'
      BY <2>1 DEF SearchOK, ExpInv
    <2> QED BY <2>1, <2>2, <1>1, LeftAlone DEF ExpInv
  <1>4. ASSUME SearchGrid PROVE LinesOK' /\ GridOK' /\ SearchOK'
    <2>1. gridSearch # Absent /\ UNCHANGED metrics
          /\ grid' = [data |-> gridSearch.data, best |-> Winners[gridSearch.data]]
      BY <1>4 DEF SearchGrid
    <2>2. PICK first \in Winners[gridSearch.data] : gridSearch' = [gridSearch EXCEPT !.best = first]
      BY <1>4 DEF SearchGrid
    <2>3. gridSearch \in [data : SUBSET Corpus, best : {gridSearch.best}]
      BY <2>1 DEF ExpInv, SearchOK
    <2>4. gridSearch' = [data |-> gridSearch.data, best |-> first] /\ gridSearch.data \in SUBSET Corpus
      BY <2>2, <2>3
    <2>5. SearchOK'
      BY <2>2, <2>4 DEF SearchOK
    <2>6. GridOK'
      BY <2>1, <2>4 DEF GridOK
    <2> QED BY <2>1, <2>5, <2>6, <1>1, LeftAlone DEF ExpInv
  <1>5. ASSUME SearchRecord PROVE LinesOK' /\ GridOK' /\ SearchOK'
    <2>1. /\ gridSearch # Absent /\ gridSearch.best # Absent /\ UNCHANGED grid
          /\ gridSearch' = Absent
      BY <1>5 DEF SearchRecord
    <2>2. PICK m : m = [by |-> "hparam_grid", data |-> gridSearch.data,
                        fits |-> {Final(gridSearch.data, gridSearch.best)}]
      OBVIOUS
    <2>3. metrics' = metrics \cup {m}
      BY <1>5, <2>2 DEF SearchRecord, Record
    <2>4. gridSearch.data \in SUBSET Corpus /\ gridSearch.best \in Winners[gridSearch.data]
      BY <2>1 DEF ExpInv, SearchOK
    <2>5. SearchLine(m)
      BY <2>2, <2>4 DEF SearchLine
    <2>6. LinesOK'
      BY <2>3, <2>5, <1>1, LineAdded DEF ExpInv
    <2>7. SearchOK'
      BY <2>1 DEF SearchOK
    <2> QED BY <2>1, <2>6, <2>7, <1>1, LeftAlone DEF ExpInv
  <1>6. ASSUME SearchDies PROVE LinesOK' /\ GridOK' /\ SearchOK'
    <2>1. UNCHANGED <<grid, metrics>> /\ gridSearch' = Absent
      BY <1>6 DEF SearchDies
    <2>2. SearchOK'
      BY <2>1 DEF SearchOK
    <2> QED BY <2>1, <2>2, <1>1, LeftAlone DEF ExpInv
  <1> QED BY <1>2, <1>3, <1>4, <1>5, <1>6, ExpInvNextIs

LEMMA BreakdownKeeps == ASSUME ExpInv, BreakdownLoad \/ BreakdownRecord PROVE ExpInv'
  <1>1. UNCHANGED <<usable, grid, predictions, gridSearch, labelling>>
    BY DEF BreakdownLoad, BreakdownRecord
  <1>2. usable' \in SUBSET Corpus /\ PredictionsOK' /\ SearchOK' /\ LabellingOK'
    BY <1>1, LeftAlone DEF ExpInv
  <1>3. ASSUME BreakdownLoad PROVE LinesOK' /\ GridOK' /\ BreakdownOK'
    <2>1. grid # Absent /\ breakdown' = [data |-> usable] /\ UNCHANGED metrics
      BY <1>3 DEF BreakdownLoad
    <2>2. GridOK'
      BY <2>1, <1>1 DEF GridOK, ExpInv
    <2>3. BreakdownOK'
      BY <2>1 DEF BreakdownOK, ExpInv
    <2> QED BY <2>1, <2>2, <2>3, <1>1, LeftAlone DEF ExpInv
  <1>4. ASSUME BreakdownRecord PROVE LinesOK' /\ GridOK' /\ BreakdownOK'
    <2>1. breakdown # Absent /\ breakdown' = Absent
      BY <1>4 DEF BreakdownRecord
    <2>2. PICK chosenOn \in SUBSET Corpus : grid = [data |-> chosenOn, best |-> Winners[chosenOn]]
      BY <2>1 DEF ExpInv, GridOK
    <2>3. PICK tuned \in grid.best :
             Record([by |-> "tuning_gain_breakdown", data |-> breakdown.data,
                     chosenOn |-> grid.data, tuned |-> tuned,
                     fits |-> Cells(breakdown.data, tuned)])
      BY <1>4 DEF BreakdownRecord
    <2>4. PICK m : m = [by |-> "tuning_gain_breakdown", data |-> breakdown.data,
                        chosenOn |-> chosenOn, tuned |-> tuned,
                        fits |-> Cells(breakdown.data, tuned)]
      OBVIOUS
    <2>5. metrics' = metrics \cup {m} /\ tuned \in Winners[chosenOn]
      BY <2>2, <2>3, <2>4 DEF Record
    <2>6. breakdown.data \in SUBSET Corpus
      BY <2>1 DEF ExpInv, BreakdownOK
    <2>7. BreakdownLine(m)
      BY <2>4, <2>5, <2>6 DEF BreakdownLine
    <2>8. LinesOK'
      BY <2>5, <2>7, <1>1, LineAdded DEF ExpInv
    <2>9. GridOK' /\ BreakdownOK'
      BY <2>1, <2>2, <1>1 DEF GridOK, BreakdownOK
    <2> QED BY <2>8, <2>9
  <1> QED BY <1>2, <1>3, <1>4, ExpInvNextIs

LEMMA LabelLoadKeeps == ASSUME ExpInv, LabelLoad PROVE ExpInv'
  <1>1. UNCHANGED <<usable, grid, predictions, metrics, gridSearch, breakdown>>
    BY DEF LabelLoad
  <1>2. PICK llm \in Models, n \in SampleSizes, few \in FewShots :
         labelling' = [data |-> usable, model |-> llm, sample |-> Sample(usable, n),
                       shown |-> Shown(usable, few), answers |-> <<>>, attempt |-> 1]
    BY DEF LabelLoad
  <1>3. PICK l : l = [data |-> usable, model |-> llm, sample |-> Sample(usable, n),
                      shown |-> Shown(usable, few), answers |-> <<>>, attempt |-> 1]
    OBVIOUS
  <1>4. /\ usable \in SUBSET Corpus /\ few \in Nat
        /\ Sample(usable, n) \in Seq(TestRows(usable))
    BY SampleOfTest, ExpAssumption DEF ExpInv
  <1>5. IsLabelling(l)
    <2>1. Len(<<>>) = 0 /\ <<>> \in Seq(Nat \cup {Unknown, Other}) /\ DOMAIN <<>> = {}
      OBVIOUS
    <2>2. Len(Sample(usable, n)) \in Nat
      BY <1>4
    <2>3. Len(l.answers) <= Len(l.sample)
      BY <1>3, <2>1, <2>2
    <2>4. /\ l \in [data : SUBSET Corpus, model : Models, sample : Seq(TestRows(l.data)),
                    shown : {l.shown}, answers : Seq(Nat \cup {Unknown, Other}), attempt : Nat]
      BY <1>3, <1>4, <2>1
    <2>5. \A i \in DOMAIN l.answers : l.answers[i] \in {i, Unknown, Other}
      BY <1>3, <2>1
    <2>6. l.shown = Shown(l.data, few)
      BY <1>3
    <2> QED BY <1>4, <2>3, <2>4, <2>5, <2>6 DEF IsLabelling
  <1>6. LabellingOK'
    <2>1. labelling' = l /\ l.attempt # 0
      BY <1>2, <1>3
    <2> QED BY <2>1, <1>5 DEF LabellingOK
  <1> QED BY <1>1, <1>6, LeftAlone, ExpInvNextIs DEF ExpInv

\* Answers to the titles of a call, put behind those there are.
LEMMA AnswersAppended ==
    ASSUME NEW l, IsLabelling(l), NEW add \in Seq(Nat \cup {Unknown, Other}),
           Len(l.answers) + Len(add) <= Len(l.sample),
           \A i \in DOMAIN add : add[i] \in {Len(l.answers) + i, Unknown, Other}
    PROVE  /\ IsLabelling([l EXCEPT !.answers = @ \o add, !.attempt = 1])
           /\ [l EXCEPT !.answers = @ \o add, !.attempt = 1].attempt # 0
  <1>1. PICK s : s = l.answers
    OBVIOUS
  <1>2. PICK T : T = Nat \cup {Unknown, Other}
    OBVIOUS
  <1>3. s \in Seq(T) /\ add \in Seq(T)
    BY <1>1, <1>2 DEF IsLabelling
  <1>4. PICK all : all = s \o add
    OBVIOUS
  <1>5. /\ all \in Seq(T) /\ Len(all) = Len(s) + Len(add)
        /\ DOMAIN all = 1 .. Len(s) + Len(add)
        /\ DOMAIN s = 1 .. Len(s) /\ DOMAIN add = 1 .. Len(add)
        /\ Len(s) \in Nat /\ Len(add) \in Nat
    BY <1>3, <1>4
  <1>6. \A i \in DOMAIN all : all[i] \in {i, Unknown, Other}
    <2> SUFFICES ASSUME NEW i \in DOMAIN all PROVE all[i] \in {i, Unknown, Other}
      OBVIOUS
    <2>1. i \in 1 .. Len(s) + Len(add)
      BY <1>5
    <2>2. CASE i <= Len(s)
      <3>1. i \in DOMAIN s /\ all[i] = s[i]
        BY <2>1, <2>2, <1>3, <1>4, <1>5
      <3> QED BY <3>1, <1>1 DEF IsLabelling
    <2>3. CASE ~(i <= Len(s))
      <3>1. PICK j : j = i - Len(s)
        OBVIOUS
      <3>2. j \in 1 .. Len(add) /\ Len(s) + j = i
        BY <2>1, <2>3, <3>1, <1>5
      <3>3. all[i] = add[j]
        BY <2>1, <2>3, <3>1, <1>3, <1>4, <1>5
      <3>4. add[j] \in {Len(s) + j, Unknown, Other}
        BY <3>2, <1>1, <1>5
      <3> QED BY <3>2, <3>3, <3>4
    <2> QED BY <2>2, <2>3
  <1>7. PICK k : k = [l EXCEPT !.answers = @ \o add, !.attempt = 1]
    OBVIOUS
  <1>8. l \in [data : SUBSET Corpus, model : Models, sample : Seq(TestRows(l.data)),
               shown : {l.shown}, answers : Seq(T), attempt : Nat]
    BY <1>2 DEF IsLabelling
  <1>9. k = [data |-> l.data, model |-> l.model, sample |-> l.sample, shown |-> l.shown,
             answers |-> all, attempt |-> 1]
    BY <1>1, <1>4, <1>7, <1>8
  <1>10. k \in [data : SUBSET Corpus, model : Models, sample : Seq(TestRows(k.data)),
                shown : {k.shown}, answers : Seq(T), attempt : Nat]
    BY <1>5, <1>8, <1>9
  <1>11. \E few \in Nat : k.shown = Shown(k.data, few)
    BY <1>9 DEF IsLabelling
  <1>12. Len(k.answers) <= Len(k.sample)
    BY <1>1, <1>5, <1>9
  <1>13. \A i \in DOMAIN k.answers : k.answers[i] \in {i, Unknown, Other}
    BY <1>6, <1>9
  <1>14. IsLabelling(k)
    BY <1>2, <1>10, <1>11, <1>12, <1>13 DEF IsLabelling
  <1> QED BY <1>7, <1>9, <1>14

LEMMA LeftIs ==
    ASSUME IsLabelling(labelling)
    PROVE  /\ Left \in Nat
           /\ Len(labelling.answers) + Left <= Len(labelling.sample)
           /\ Left = 0 => Len(labelling.answers) = Len(labelling.sample)
  <1>1. /\ labelling.sample \in Seq(TestRows(labelling.data))
        /\ labelling.answers \in Seq(Nat \cup {Unknown, Other})
        /\ Len(labelling.answers) <= Len(labelling.sample)
    BY DEF IsLabelling
  <1>2. PICK a : a = Len(labelling.answers)
    OBVIOUS
  <1>3. PICK s : s = Len(labelling.sample)
    OBVIOUS
  <1>4. a \in Nat /\ s \in Nat /\ a <= s
    BY <1>1, <1>2, <1>3
  <1>5. Batch \in Nat \ {0}
    BY ExpAssumption
  <1>6. PICK left : left = IF Batch < s - a THEN Batch ELSE s - a
    OBVIOUS
  <1>7. left \in Nat /\ a + left <= s /\ (left = 0 => a = s)
    BY <1>4, <1>5, <1>6
  <1>8. Left = left
    BY <1>2, <1>3, <1>6 DEF Left, Smaller
  <1> QED BY <1>2, <1>3, <1>7, <1>8

LEMMA AskingKeeps == ASSUME ExpInv, Ask \/ AskAgain \/ AskGivesUp PROVE ExpInv'
  <1>1. UNCHANGED <<usable, grid, predictions, metrics, gridSearch, breakdown>> /\ labelling # Absent
    BY DEF Ask, AskAgain, AskGivesUp, Asking
  <1>2. IsLabelling(labelling)
    BY <1>1 DEF ExpInv, LabellingOK
  <1>3. PICK l : l = labelling
    OBVIOUS
  <1>4. PICK left : left = Left
    OBVIOUS
  <1>5. /\ IsLabelling(l) /\ left \in Nat /\ Len(l.answers) + left <= Len(l.sample)
        /\ Len(l.answers) \in Nat
    <2>1. l.answers \in Seq(Nat \cup {Unknown, Other})
      BY <1>2, <1>3 DEF IsLabelling
    <2> QED BY <2>1, <1>2, <1>3, <1>4, LeftIs
  <1>6. ASSUME Ask PROVE IsLabelling(labelling') /\ labelling'.attempt # 0
    <2>1. PICK given \in [1 .. left -> {TRUE, FALSE}] :
            labelling' = [labelling EXCEPT !.answers = @ \o Placed(given), !.attempt = 1]
      BY <1>4, <1>6 DEF Ask, Answered
    <2>2. PICK add : add = Placed(given)
      OBVIOUS
    <2>3. add = [i \in 1 .. left |-> IF given[i] THEN Len(l.answers) + i ELSE Unknown]
      BY <2>1, <2>2, <1>3 DEF Placed
    <2>4. \A i \in 1 .. left : add[i] \in {Len(l.answers) + i, Unknown, Other}
      BY <2>3
    <2>5. \A i \in 1 .. left : Len(l.answers) + i \in Nat
      BY <1>5
    <2>6. add \in [1 .. left -> Nat \cup {Unknown, Other}]
      BY <2>3, <2>4, <2>5
    <2>7. add \in Seq(Nat \cup {Unknown, Other}) /\ Len(add) = left /\ DOMAIN add = 1 .. left
      BY <2>6, <1>5
    <2>8. labelling' = [l EXCEPT !.answers = @ \o add, !.attempt = 1]
      BY <2>1, <2>2, <1>3
    <2>9. Len(l.answers) + Len(add) <= Len(l.sample)
      BY <1>5, <2>7
    <2>10. \A i \in DOMAIN add : add[i] \in {Len(l.answers) + i, Unknown, Other}
      BY <2>4, <2>7
    <2> QED BY <2>7, <2>8, <2>9, <2>10, <1>5, AnswersAppended
  <1>7. ASSUME AskAgain PROVE IsLabelling(labelling') /\ labelling'.attempt # 0
    <2>1. labelling' = [l EXCEPT !.attempt = @ + 1]
      BY <1>3, <1>7 DEF AskAgain
    <2>2. PICK T : T = Nat \cup {Unknown, Other}
      OBVIOUS
    <2>3. l \in [data : SUBSET Corpus, model : Models, sample : Seq(TestRows(l.data)),
                 shown : {l.shown}, answers : Seq(T), attempt : Nat]
      BY <1>5, <2>2 DEF IsLabelling
    <2>4. PICK k : k = labelling'
      OBVIOUS
    <2>5. /\ k = [data |-> l.data, model |-> l.model, sample |-> l.sample, shown |-> l.shown,
                  answers |-> l.answers, attempt |-> l.attempt + 1]
          /\ l.attempt + 1 \in Nat /\ l.attempt + 1 # 0
      BY <2>1, <2>3, <2>4
    <2>6. k \in [data : SUBSET Corpus, model : Models, sample : Seq(TestRows(k.data)),
                 shown : {k.shown}, answers : Seq(T), attempt : Nat]
      BY <2>3, <2>5
    <2>7. IsLabelling(k)
      BY <2>2, <2>5, <2>6, <1>5 DEF IsLabelling
    <2> QED BY <2>4, <2>5, <2>7
  <1>8. ASSUME AskGivesUp PROVE IsLabelling(labelling') /\ labelling'.attempt # 0
    <2>1. PICK add : add = [i \in 1 .. left |-> Other]
      OBVIOUS
    <2>2. labelling' = [l EXCEPT !.answers = @ \o add, !.attempt = 1]
      BY <1>3, <1>4, <1>8, <2>1 DEF AskGivesUp
    <2>3. add \in Seq(Nat \cup {Unknown, Other}) /\ Len(add) = left /\ DOMAIN add = 1 .. left
      BY <2>1, <1>5
    <2>4. \A i \in DOMAIN add : add[i] \in {Len(l.answers) + i, Unknown, Other}
      BY <2>1, <2>3
    <2>5. Len(l.answers) + Len(add) <= Len(l.sample)
      BY <1>5, <2>3
    <2> QED BY <2>2, <2>3, <2>4, <2>5, <1>5, AnswersAppended
  <1>9. LabellingOK'
    <2>1. IsLabelling(labelling') /\ labelling'.attempt # 0
      BY <1>6, <1>7, <1>8
    <2> QED BY <2>1 DEF LabellingOK, IsLabelling
  <1> QED BY <1>1, <1>9, LeftAlone, ExpInvNextIs DEF ExpInv

LEMMA LabelSaveKeeps == ASSUME ExpInv, LabelSave PROVE ExpInv'
  <1>1. /\ UNCHANGED <<usable, grid, metrics, gridSearch, breakdown>>
        /\ labelling # Absent /\ Left = 0
        /\ predictions' = {f \in predictions : ~SameName(f, Answers)} \cup {Answers}
        /\ labelling' = [labelling EXCEPT !.attempt = 0]
    BY DEF LabelSave
  <1>2. IsLabelling(labelling)
    BY <1>1 DEF ExpInv, LabellingOK
  <1>3. PICK l : l = labelling
    OBVIOUS
  <1>4. PICK T : T = Nat \cup {Unknown, Other}
    OBVIOUS
  <1>5. l \in [data : SUBSET Corpus, model : Models, sample : Seq(TestRows(l.data)),
               shown : {l.shown}, answers : Seq(T), attempt : Nat]
    BY <1>2, <1>3, <1>4 DEF IsLabelling
  <1>6. PICK valid : valid = Valid(l.answers)
    OBVIOUS
  <1>7. PICK file : file = Answers
    OBVIOUS
  <1>8. file = [few |-> Cardinality(l.shown), slug |-> l.model, model |-> l.model,
                sample |-> l.sample, answers |-> valid]
    BY <1>3, <1>6, <1>7 DEF Answers, Predictions, Slug
  <1>9. /\ Len(valid) = Len(l.sample)
        /\ \A i \in DOMAIN valid : valid[i] \in {i, Other}
    <2>1. Len(l.answers) = Len(l.sample)
      BY <1>1, <1>2, <1>3, LeftIs
    <2>2. DOMAIN l.answers = 1 .. Len(l.answers) /\ Len(l.answers) \in Nat
      BY <1>5
    <2>3. \A i \in DOMAIN l.answers : l.answers[i] \in {i, Unknown, Other}
      BY <1>2, <1>3 DEF IsLabelling
    <2>4. valid = [i \in 1 .. Len(l.answers) |->
                     IF l.answers[i] = Unknown THEN Other ELSE l.answers[i]]
      BY <1>6, <2>2 DEF Valid
    <2>5. Len(valid) = Len(l.answers) /\ DOMAIN valid = 1 .. Len(l.answers)
      BY <2>2, <2>4
    <2>6. \A i \in 1 .. Len(l.answers) : valid[i] \in {i, Other}
      BY <2>2, <2>3, <2>4
    <2> QED BY <2>1, <2>5, <2>6
  <1>10. l.model \in Models /\ l.model # Absent
    BY <1>5, ExpAssumption
  <1>11. FileOK(file)
    BY <1>8, <1>9, <1>10 DEF FileOK
  <1>12. PredictionsOK'
    BY <1>1, <1>7, <1>11 DEF PredictionsOK, ExpInv
  <1>13. ASSUME NEW m, LabelLine(m), HasFile(m) PROVE HasFile(m)'
    <2>1. PICK f \in predictions : SameName(f, m) /\ f.model = m.model
      BY <1>13 DEF HasFile
    <2>2. CASE ~SameName(f, file)
      BY <1>1, <1>7, <2>1, <2>2 DEF HasFile
    <2>3. CASE SameName(f, file)
      <3>1. m.slug = m.model
        BY <1>13 DEF LabelLine
      <3>2. SameName(file, m)
        BY <2>1, <2>3 DEF SameName
      <3>3. file.model = m.model
        BY <3>1, <3>2, <1>8 DEF SameName
      <3> QED BY <3>2, <3>3, <1>1, <1>7 DEF HasFile
    <2> QED BY <2>2, <2>3
  <1>14. LinesOK'
    BY <1>1, <1>13 DEF LinesOK, ExpInv
  <1>15. PICK k : k = labelling'
    OBVIOUS
  <1>16. k = [data |-> l.data, model |-> l.model, sample |-> l.sample, shown |-> l.shown,
              answers |-> l.answers, attempt |-> 0]
    BY <1>1, <1>3, <1>5, <1>15
  <1>17. k \in [data : SUBSET Corpus, model : Models, sample : Seq(TestRows(k.data)),
                shown : {k.shown}, answers : Seq(T), attempt : Nat]
    BY <1>5, <1>16
  <1>18. IsLabelling(k)
    BY <1>2, <1>3, <1>4, <1>16, <1>17 DEF IsLabelling
  <1>19. Saved(k, predictions')
    BY <1>1, <1>7, <1>8, <1>16 DEF Saved
  <1>20. LabellingOK'
    BY <1>15, <1>18, <1>19 DEF LabellingOK, IsLabelling, Saved
  <1> QED BY <1>1, <1>12, <1>14, <1>20, LeftAlone, ExpInvNextIs DEF ExpInv

LEMMA LabelRecordKeeps == ASSUME ExpInv, LabelRecord PROVE ExpInv'
  <1>1. /\ UNCHANGED <<usable, grid, predictions, gridSearch, breakdown>>
        /\ labelling # Absent /\ labelling.attempt = 0 /\ labelling' = Absent
    BY DEF LabelRecord
  <1>2. PICK l : l = labelling
    OBVIOUS
  <1>3. PICK sampled : sampled = {l.sample[i] : i \in DOMAIN l.sample}
    OBVIOUS
  <1>4. PICK m : m = [by |-> "llm_title_tagging", data |-> l.data, model |-> l.model,
                      few |-> Cardinality(l.shown), slug |-> l.model, shown |-> l.shown,
                      fits |-> {Trained(Baseline, TrainRows(l.data), sampled)}]
    OBVIOUS
  <1>5. metrics' = metrics \cup {m}
    BY <1>2, <1>3, <1>4 DEF LabelRecord, Record, Slug
  <1>6. IsLabelling(l) /\ Saved(l, predictions)
    BY <1>1, <1>2 DEF ExpInv, LabellingOK
  <1>7. PICK few \in Nat : l.shown = Shown(l.data, few)
    BY <1>6 DEF IsLabelling
  <1>8. l.data \in SUBSET Corpus /\ l.model \in Models /\ l.sample \in Seq(TestRows(l.data))
    BY <1>6 DEF IsLabelling
  <1>9. sampled \in SUBSET TestRows(l.data)
    <2>1. DOMAIN l.sample = 1 .. Len(l.sample)
      BY <1>8
    <2>2. \A i \in 1 .. Len(l.sample) : l.sample[i] \in TestRows(l.data)
      BY <1>8
    <2> QED BY <2>1, <2>2, <1>3
  <1>10. LabelLine(m)
    BY <1>4, <1>7, <1>8, <1>9 DEF LabelLine
  <1>11. HasFile(m)
    BY <1>4, <1>6 DEF HasFile, Saved, SameName
  <1>12. LinesOK'
    BY <1>1, <1>5, <1>10, <1>11, LineAdded DEF ExpInv
  <1>13. LabellingOK'
    BY <1>1 DEF LabellingOK
  <1> QED BY <1>1, <1>12, <1>13, LeftAlone, ExpInvNextIs DEF ExpInv

LEMMA RecoverKeeps == ASSUME ExpInv, Recover PROVE ExpInv'
  <1>1. /\ UNCHANGED <<usable, grid, predictions, gridSearch, breakdown, labelling>>
        /\ metrics' = metrics \cup
             {[by |-> "llm_metrics_recovered", few |-> f.few, model |-> Named(f), of |-> f.model,
               compared |-> Compared(f)] : f \in predictions}
    BY DEF Recover
  <1>2. \A f \in predictions : Named(f) \in {f.model, Unknown}
    BY DEF ExpInv, PredictionsOK, FileOK, Named
  <1>3. ASSUME NEW m \in metrics', m \notin metrics PROVE RecoveredLine(m)
    <2>1. PICK f \in predictions :
             m = [by |-> "llm_metrics_recovered", few |-> f.few, model |-> Named(f),
                  of |-> f.model, compared |-> Compared(f)]
      BY <1>1, <1>3
    <2> QED BY <2>1, <1>2 DEF RecoveredLine
  <1>4. \A m : HasFile(m) => HasFile(m)'
    BY <1>1 DEF HasFile
  <1>5. LinesOK'
    BY <1>3, <1>4 DEF LinesOK, ExpInv
  <1> QED BY <1>1, <1>5, LeftAlone, ExpInvNextIs DEF ExpInv

LEMMA ExpInvNext == ASSUME ExpInv, [ExpNext]_expVars PROVE ExpInv'
  <1>1. CASE \E r \in Changing : Recode(r)
    BY <1>1, RecodeKeeps
  <1>2. CASE SearchLoad \/ SearchGrid \/ SearchRecord \/ SearchDies
    BY <1>2, SearchKeeps
  <1>3. CASE BreakdownLoad \/ BreakdownRecord
    BY <1>3, BreakdownKeeps
  <1>4. CASE LabelLoad
    BY <1>4, LabelLoadKeeps
  <1>5. CASE Ask \/ AskAgain \/ AskGivesUp
    BY <1>5, AskingKeeps
  <1>6. CASE LabelSave
    BY <1>6, LabelSaveKeeps
  <1>7. CASE LabelRecord
    BY <1>7, LabelRecordKeeps
  <1>8. CASE Recover
    BY <1>8, RecoverKeeps
  <1>9. CASE UNCHANGED expVars
    <2>1. UNCHANGED <<usable, grid, predictions, metrics, gridSearch, breakdown, labelling>>
      BY <1>9 DEF expVars
    <2> QED BY <2>1, LeftAlone, ExpInvNextIs DEF ExpInv
  <1> QED BY <1>1, <1>2, <1>3, <1>4, <1>5, <1>6, <1>7, <1>8, <1>9 DEF ExpNext

\* In whatever order the experiments run, whatever is coded between them and whatever calls
\* fail: nothing is measured on a title learned from or shown; on the same rows, with one
\* best setting, the breakdown (15) has the number of the search (14); as many examples as
\* there are tags show each tag (11); an answer is about its title; and what stands in
\* metrics.jsonl has its predictions, or a model it is named after (16).
THEOREM ExperimentsHoldHolds == ExpSpec => []ExperimentsHold
  <1>1. ExpInit => ExpInv
    BY ExpInitHolds
  <1>2. ExpInv /\ [ExpNext]_expVars => ExpInv'
    BY ExpInvNext
  <1>3. ExpInv => ExperimentsHold
    BY HoldIfExpInv
  <1> QED BY <1>1, <1>2, <1>3, PTL DEF ExpSpec

===============================================================================
