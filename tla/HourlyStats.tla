------------------------------ MODULE HourlyStats ------------------------------
(* The download statistics of the collection DAG (ingestion/daily_stats.py, *)
(* its tasks update_5min_stats and update_hourly_stats): one object per     *)
(* window and service, merged one service at a time into the object of its  *)
(* hour, which the run that ends on the hour makes final.  A window is      *)
(* named by its start, the cursor the run found; time is in minutes.        *)
EXTENDS Integers, Sequences, FiniteSets, FiniteSetsExt

CONSTANTS
    Services,       \* BIZ_DIVS and "all" in the order of the loops
    All,            \* "all"
    Period,         \* minutes between two runs
    Hour,           \* minutes in an hour
    CollectMinutes,
    GapThreshold,   \* GAP_THRESHOLD_MINUTES
    Retries,        \* default_args["retries"]
    Lateness,       \* a run starts at most this late (bound)
    MaxTime,        \* last minute considered (bound)
    MaxFaults       \* failed downloads and task attempts (bound)

ASSUME StatsAssumption ==
    /\ Services \in Seq(STRING) /\ Services # <<>>
    /\ All \in {Services[i] : i \in DOMAIN Services}
    /\ Period \in Nat \ {0} /\ Hour \in Nat \ {0} /\ Hour % Period = 0
    /\ CollectMinutes \in Nat /\ GapThreshold \in Nat
    /\ CollectMinutes <= GapThreshold /\ Period <= GapThreshold
    /\ Retries \in Nat /\ Lateness \in Nat /\ MaxTime \in Nat /\ MaxFaults \in Nat

VARIABLES
    now,        \* the start of the last run, windowEndIso of its plan
    cursor,     \* bidding_daily_last_success_at
    phase,      \* what the run does next
    start,      \* its window_start
    success,    \* its pipeline_status is "success"
    manifest,   \* the newest download manifest: the run that wrote it, files per service
    next,       \* the service the hourly task has reached
    tries,      \* failed attempts of the task
    five,       \* stats_5min_key: window start and service to payload
    hourly,     \* stats_hour_key: hour and service to payload
    faults,
    tally,      \* history: files of the runs whose window starts in an hour
    disturbed   \* history: hours with a late run, a failure or a repeated window

run == <<now, cursor, phase, start, success, manifest, next, tries>>
vars == <<run, five, hourly, faults, tally, disturbed>>

Biz == {Services[i] : i \in DOMAIN Services}
Times == 0 .. MaxTime
Hours == 0 .. (MaxTime \div Hour)
HourOf(t) == t \div Hour            \* floor_hour

None == [ok |-> FALSE, files |-> -1]
Empty == [status |-> "partial", seen |-> {}, succeeded |-> 0, failed |-> 0,
          files |-> 0, missing |-> {}]
NoHour == [Empty EXCEPT !.status = "absent"]

NoFiles == [b \in Biz |-> 0]           \* empty_download_summary
NoManifest == [at |-> -1, files |-> NoFiles]

Phases == {"idle", "download", "five", "merge", "finalize"}

\* What the objects hold: the counts of one window, and those of an hour.
Window == [ok : BOOLEAN, files : Nat \union {-1}]
HourObject == [status : {"absent", "partial", "final", "final_with_missing"},
               seen : SUBSET Times, succeeded : Nat, failed : Nat, files : Nat,
               missing : SUBSET Times]

TypeOK ==
    /\ now \in Times /\ cursor \in Times /\ start \in Times
    /\ phase \in Phases
    /\ success \in BOOLEAN
    /\ manifest \in [at : Times \union {-1}, files : [Biz -> Nat]]
    /\ next \in DOMAIN Services
    /\ tries \in 0 .. Retries
    /\ five \in [Times -> [Biz -> Window]]
    /\ hourly \in [Hours -> [Biz -> HourObject]]
    /\ faults \in 0 .. MaxFaults
    /\ tally \in [Hours -> [Biz -> Nat]]
    /\ disturbed \subseteq Hours

Init ==
    /\ now = 0 /\ cursor = 0 /\ start = 0
    /\ phase = "idle"
    /\ success = FALSE /\ manifest = NoManifest
    /\ next = 1
    /\ tries = 0
    /\ five = [t \in Times |-> [b \in Biz |-> None]]
    /\ hourly = [h \in Hours |-> [b \in Biz |-> NoHour]]
    /\ faults = 0
    /\ tally = [h \in Hours |-> [b \in Biz |-> 0]]
    /\ disturbed = {}

\* The hours a run of the window [from, to] has to do with.
Touched(from, to) == HourOf(from) .. HourOf(to)

Expected(h) == {t \in Times : HourOf(t) = h /\ (t - h * Hour) % Period = 0}

-------------------------------------------------------------------------------
(* The run around the statistics.                                           *)

\* plan_window of the next run, which may be late or come after runs that were
\* skipped; the gap beyond the threshold is left to the backfill.
StartRun ==
    /\ phase = "idle"
    /\ \E t \in (now + 1) .. MaxTime :
         LET gap == t - cursor > GapThreshold
         IN  /\ t % Period <= Lateness
             /\ now' = t
             /\ start' = IF gap THEN t - CollectMinutes ELSE cursor
             /\ cursor' = start'
             /\ disturbed' = IF t - now = Period /\ t % Period = 0 /\ cursor = now
                             THEN disturbed
                             ELSE disturbed \union Touched(now, t) \union Touched(cursor, t)
    /\ phase' = "download"
    /\ UNCHANGED <<success, manifest, next, tries, five, hourly, faults, tally>>

\* The four services of a manifest and their sum (summarize_download).
Manifests ==
    {files \in [Biz -> 0 .. Len(Services)] :
        /\ \A b \in Biz \ {All} : files[b] <= 1
        /\ files[All] = SumFunctionOnSet(files, Biz \ {All})}

Count(files) == tally' = [tally EXCEPT ![HourOf(start)] = [b \in Biz |-> @[b] + files[b]]]

\* put_manifest, by the run in hand.
Manifest(files) == [at |-> now, files |-> files]

\* download_daily_files has succeeded and mark_success moves the cursor.
Download ==
    /\ phase = "download"
    /\ \E files \in Manifests : manifest' = Manifest(files) /\ Count(files)
    /\ success' = TRUE
    /\ cursor' = now
    /\ phase' = "five"
    /\ tries' = 0
    /\ UNCHANGED <<now, start, next, five, hourly, faults, disturbed>>

\* An attempt fails, which has written its manifest or not, and is repeated.
DownloadAgain ==
    /\ phase = "download"
    /\ tries < Retries /\ faults < MaxFaults
    /\ tries' = tries + 1
    /\ faults' = faults + 1
    /\ \/ UNCHANGED manifest
       \/ \E files \in Manifests : manifest' = Manifest(files)
    /\ UNCHANGED <<now, cursor, phase, start, success, next, five, hourly, tally, disturbed>>

\* The last attempt fails, or the cursor is not written; update_5min_stats runs all the
\* same (all_done).  What counts is the last manifest the run has written.
DownloadFails ==
    /\ phase = "download"
    /\ faults < MaxFaults
    /\ faults' = faults + 1
    /\ \/ UNCHANGED manifest
       \/ \E files \in Manifests : manifest' = Manifest(files)
    /\ Count(IF manifest'.at = now THEN manifest'.files ELSE NoFiles)
    /\ success' \in BOOLEAN
    /\ disturbed' = disturbed \union Touched(start, now)
    /\ phase' = "five"
    /\ tries' = 0
    /\ UNCHANGED <<now, cursor, start, next, five, hourly>>

\* The run is over, and what its tasks handed on is gone.
Leave ==
    /\ phase' = "idle"
    /\ tries' = 0
    /\ start' = 0
    /\ success' = FALSE

\* An attempt of a statistics task fails; after the last one the run is over.
Fail ==
    /\ faults < MaxFaults
    /\ faults' = faults + 1
    /\ next' = 1
    /\ IF tries < Retries
       THEN /\ tries' = tries + 1
            /\ phase' = IF phase = "five" THEN "five" ELSE "merge"
            /\ UNCHANGED <<start, success, disturbed>>
       ELSE /\ Leave
            /\ disturbed' = disturbed \union Touched(start, now)

-------------------------------------------------------------------------------
(* update_5min_stats                                                        *)

\* Mutated form: the newest manifest of the hours since the run began, whoever wrote it.
NewestManifest ==
    IF manifest.at >= 0 /\ HourOf(manifest.at) >= HourOf(now) THEN manifest.files ELSE NoFiles

\* find_latest_download_manifest: of the hours since the run began the newest manifest,
\* if it is not older than the run.
FindLatestDownloadManifest ==
    IF HourOf(manifest.at) >= HourOf(now) /\ manifest.at >= now THEN manifest.files
    ELSE NoFiles

Payload(b) == [ok |-> success, files |-> FindLatestDownloadManifest[b]]

\* write_5min_stats: the object of an earlier run of the same window is replaced.
WriteFiveMin ==
    /\ phase = "five"
    /\ five' = [five EXCEPT ![start] = [b \in Biz |-> Payload(b)]]
    /\ phase' = "merge"
    /\ next' = 1
    /\ tries' = 0
    /\ UNCHANGED <<now, cursor, start, success, manifest, hourly, faults, tally, disturbed>>

WriteFiveMinFails ==
    /\ phase = "five"
    /\ \E n \in 0 .. Len(Services) - 1 :
         five' = [five EXCEPT ![start] =
                    [b \in Biz |-> IF \E i \in 1 .. n : Services[i] = b
                                   THEN Payload(b) ELSE @[b]]]
    /\ Fail
    /\ UNCHANGED <<now, cursor, manifest, hourly, tally>>

-------------------------------------------------------------------------------
(* update_hourly_stats                                                      *)

\* Mutated form: no look at seen_windows.
MergeFiveMinAgain(hour, w, payload) ==
    [hour EXCEPT !.seen = @ \union {w},
                 !.succeeded = @ + (IF payload.ok THEN 1 ELSE 0),
                 !.failed = @ + (IF payload.ok THEN 0 ELSE 1),
                 !.files = @ + payload.files]

\* merge_5min_into_hourly: a window that has been seen counts no more.
MergeFiveMin(hour, w, payload) ==
    IF w \in hour.seen THEN hour
    ELSE [hour EXCEPT !.seen = @ \union {w},
                      !.succeeded = @ + (IF payload.ok THEN 1 ELSE 0),
                      !.failed = @ + (IF payload.ok THEN 0 ELSE 1),
                      !.files = @ + payload.files]

Current(h, b) == IF hourly[h][b] = NoHour THEN Empty ELSE hourly[h][b]

Merged(h, b) ==
    [MergeFiveMin(Current(h, b), start, five[start][b]) EXCEPT !.status = "partial"]

Advance(done) ==
    IF next < Len(Services)
    THEN next' = next + 1 /\ UNCHANGED <<phase, tries, start, success>>
    ELSE /\ next' = 1
         /\ IF done = "idle" THEN Leave
            ELSE phase' = done /\ UNCHANGED <<tries, start, success>>

\* One service: its object is read, merged and written back.
MergeService ==
    LET h == HourOf(start)
        b == Services[next]
    IN  /\ phase = "merge"
        /\ hourly' = [hourly EXCEPT ![h][b] = Merged(h, b)]
        /\ Advance(IF now % Hour = 0 THEN "finalize" ELSE "idle")
        /\ UNCHANGED <<now, cursor, manifest, five, faults, tally, disturbed>>

\* finalize_hourly
Finalized(h, b) ==
    LET missing == Expected(h) \ Current(h, b).seen
    IN  [Current(h, b) EXCEPT !.missing = missing,
                              !.status = IF missing = {} THEN "final"
                                                         ELSE "final_with_missing"]

HourBegun == HourOf(now)

\* The hour that ends with the window.
HourClosed == HourOf(now - 1)

\* One service of that hour.
FinalizeService ==
    LET h == HourClosed
        b == Services[next]
    IN  /\ phase = "finalize"
        /\ hourly' = [hourly EXCEPT ![h][b] = Finalized(h, b)]
        /\ Advance("idle")
        /\ UNCHANGED <<now, cursor, manifest, five, faults, tally, disturbed>>

\* Mutated form: the retry goes on where the attempt before has failed.
HourlyFailsSkipping ==
    /\ phase \in {"merge", "finalize"}
    /\ faults < MaxFaults
    /\ faults' = faults + 1
    /\ Advance(IF phase = "merge" /\ now % Hour = 0 THEN "finalize" ELSE "idle")
    /\ UNCHANGED <<now, cursor, manifest, five, hourly, tally, disturbed>>

\* The task dies between two services; the retry begins with the first.
HourlyFails ==
    /\ phase \in {"merge", "finalize"}
    /\ Fail
    /\ UNCHANGED <<now, cursor, manifest, five, hourly, tally>>

Next ==
    \/ StartRun \/ Download \/ DownloadAgain \/ DownloadFails
    \/ WriteFiveMin \/ WriteFiveMinFails
    \/ MergeService \/ FinalizeService \/ HourlyFails

Spec == Init /\ [][Next]_vars

-------------------------------------------------------------------------------
(* Properties.                                                              *)

\* No file counts twice, however often tasks are repeated, windows are taken up
\* again by a later run and manifests of earlier ones lie about: an hour never shows more than its runs have
\* downloaded, nor more runs than windows (seen_windows, line 269).
NeverCountedTwice ==
    \A h \in Hours, b \in Biz :
        /\ hourly[h][b].files <= tally[h][b]
        /\ hourly[h][b].succeeded + hourly[h][b].failed = Cardinality(hourly[h][b].seen)

\* Between two runs the services of an undisturbed hour have the same windows, and
\* "all" is the sum of the others, though each is a separate object.
ServicesAgree ==
    phase = "idle" =>
        \A h \in Hours \ disturbed :
            /\ \A b, c \in Biz : hourly[h][b].seen = hourly[h][c].seen
            /\ hourly[h][All].files =
                 SumFunctionOnSet([b \in Biz |-> hourly[h][b].files], Biz \ {All})

\* An hour whose runs were on time and succeeded, attempts of the statistics tasks
\* that were repeated apart, is final, complete and counts every file.
QuietHourFinal ==
    phase = "idle" =>
        \A h \in Hours \ disturbed : (h + 1) * Hour <= now =>
            \A b \in Biz :
                /\ hourly[h][b].status = "final"
                /\ hourly[h][b].files = tally[h][b]

\* A run past the hour has made the hour before final, as line 362 says.
PassedHourFinal ==
    phase = "idle" =>
        \A h \in Hours : (h + 1) * Hour <= now =>
            \A b \in Biz : hourly[h][b].status \in {"final", "final_with_missing"}

===============================================================================
