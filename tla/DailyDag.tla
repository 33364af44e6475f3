------------------------------- MODULE DailyDag -------------------------------
(***************************************************************************)
(* The five-minute collection DAG (ingestion/dags/bidding_daily_dag.py)    *)
(* with the scripts its tasks run: the collector (raw_json_daily.py), the  *)
(* downloader (json_file_download_daily.py) and the RDS loader             *)
(* (db/load_curated_daily_to_rds.py).                                      *)
(*                                                                         *)
(* Time is counted in minutes, the unit to which the DAG truncates its     *)
(* cursors.  Something that happens in minute t happens at or after t:00.  *)
(* A notice stands for one record of the API with its attachments; every   *)
(* notice stays open, and its publication time is exact to the minute.     *)
(* The two statistics tasks share nothing with the others and are left to  *)
(* the module of the statistics.                                           *)
(***************************************************************************)
EXTENDS Integers

CONSTANTS
    Notices,          \* records of the notice API
    Archives,         \* those whose document count is known only after download
    Category,         \* position in OPERATIONS of each notice's category
    Categories,       \* number of categories
    CursorSet,        \* whether the collection cursor exists at the start
    Period,           \* minutes between two schedules
    CollectMinutes,
    DownloadMinutes,
    GapThreshold,     \* GAP_THRESHOLD_MINUTES
    Lookback,         \* LOOKBACK_BUFFER
    Retries,          \* default_args["retries"]
    DayLength,        \* minutes in a day
    StartLimit,       \* a run starts at most this late (bound)
    RunLimit,         \* and takes at most this long (bound)
    Deadline,         \* minutes after which a notice has to be in bid_table
    MaxTime,          \* last minute considered (bound)
    MaxFaults         \* failed task attempts (bound)

ASSUME MinutesAssumption ==
    /\ Period \in Nat \ {0}
    /\ CollectMinutes \in Nat \ {0}
    /\ DownloadMinutes \in Nat
    /\ GapThreshold \in Nat
    /\ CollectMinutes <= GapThreshold
    /\ Lookback \in Nat
    /\ DayLength \in Nat \ {0}

ASSUME BoundsAssumption ==
    /\ Retries \in Nat
    /\ StartLimit \in Nat
    /\ RunLimit \in Nat
    /\ Deadline \in Nat
    /\ MaxTime \in Nat
    /\ MaxFaults \in Nat

ASSUME NoticesAssumption ==
    /\ Archives \subseteq Notices
    /\ Categories \in Nat \ {0}
    /\ Category \in [Notices -> 1 .. Categories]
    /\ CursorSet \in BOOLEAN

VARIABLES
    now,
    published,   \* minute in which the API began to return the notice
    curated,     \* its object under raw/curated/daily/: LastModified, and whether
                 \* expected_file_count has been corrected
    files,       \* notices whose attachments are all in S3
    rows,        \* what its row of bid_table says
    cursor,      \* Airflow variable bidding_daily_last_success_at
    rdsCursor,   \* Airflow variable bidding_daily_rds_last_success_at
    loadedFrom,  \* from when on the first load that was marked took objects
    marked,      \* minutes that a gap manifest in S3 leaves to the backfill
    onlyLogged,  \* minutes whose manifest S3 refused: only Airflow's log names them
    outside,     \* minutes whose objects a successful download did not look at
    slot,        \* schedule of the last run
    run,         \* whether a run is active, and since when
    task,        \* state of its tasks
    tries,       \* failed attempts of its tasks
    plan,        \* what plan_window returned
    category,    \* the category the collector has reached
    faults

stored == <<curated, files, rows>>
manifests == <<marked, onlyLogged>>
rds == <<rdsCursor, loadedFrom>>
cursors == <<cursor, rds, manifests, outside>>
vars == <<now, published, stored, cursors, slot, run, task, tries, plan, category, faults>>

Unset == -1
Times == Unset .. MaxTime
Minutes == (0 - CollectMinutes) .. MaxTime

Tasks == {"plan", "collect", "download", "mark", "load", "markRds"}

\* The task each task waits for.
Upstream == [collect |-> "plan", download |-> "collect", mark |-> "download",
             load |-> "download", markRds |-> "load"]

Idle == [active |-> FALSE, since |-> 0]
NoPlan == [cursor |-> 0, end |-> Unset, collect |-> 0, download |-> 0]
Waiting == [t \in Tasks |-> "waiting"]
NoTries == [t \in Tasks |-> 0]

\* The range of days a window touches is the range of partitions it lists.
Day(t) == t \div DayLength
Larger(a, b) == IF a < b THEN b ELSE a

TypeOK ==
    /\ now \in 0 .. MaxTime
    /\ published \in [Notices -> Times]
    /\ curated \in [Notices -> [at : Times, counted : BOOLEAN]]
    /\ files \subseteq Notices
    /\ rows \in [Notices -> {"absent", "estimated", "counted"}]
    /\ cursor \in Times
    /\ rdsCursor \in Times
    /\ loadedFrom \in Minutes
    /\ marked \subseteq Minutes
    /\ onlyLogged \subseteq Minutes
    /\ outside \subseteq Minutes
    /\ slot \in Times
    /\ run \in [active : BOOLEAN, since : 0 .. MaxTime]
    /\ task \in [Tasks -> {"waiting", "success", "failed"}]
    /\ tries \in [Tasks -> 0 .. Retries]
    /\ plan \in [cursor : Minutes, end : Times,
                 collect : Nat, download : Nat]
    /\ category \in 1 .. Categories
    /\ faults \in 0 .. MaxFaults

Init ==
    /\ now = 0
    /\ published = [n \in Notices |-> Unset]
    /\ curated = [n \in Notices |-> [at |-> Unset, counted |-> FALSE]]
    /\ files = {}
    /\ rows = [n \in Notices |-> "absent"]
    /\ cursor = IF CursorSet THEN 0 ELSE Unset
    /\ rdsCursor \in {Unset, 0}
    /\ loadedFrom = 0
    /\ marked = {}
    /\ onlyLogged = {}
    /\ outside = {}
    /\ slot = Unset
    /\ run = Idle
    /\ task = Waiting
    /\ tries = NoTries
    /\ plan = NoPlan
    /\ category = 1
    /\ faults = 0

-------------------------------------------------------------------------------
(* Around the DAG: the clock, the API, the scheduler.                       *)

\* Time passes, as long as nothing takes longer than the two limits allow.
Tick ==
    /\ now < MaxTime
    /\ IF run.active THEN now + 1 - run.since <= RunLimit
                     ELSE now + 1 - (slot + 1) * Period <= StartLimit
    /\ now' = now + 1
    /\ UNCHANGED <<published, stored, cursors, slot, run, task, tries, plan,
                   category, faults>>

Publish(n) ==
    /\ published[n] = Unset
    /\ published' = [published EXCEPT ![n] = now]
    /\ UNCHANGED <<now, stored, cursors, slot, run, task, tries, plan, category, faults>>

\* max_active_runs = 1 and catchup = False: the run of the latest schedule,
\* once the run before it is over.
StartRun ==
    /\ ~run.active
    /\ now \div Period > slot
    /\ slot' = now \div Period
    /\ run' = [active |-> TRUE, since |-> now]
    /\ UNCHANGED <<now, published, stored, cursors, task, tries, plan, category, faults>>

\* An attempt of t may begin: a first one, or a retry, which is never sooner
\* than the failure but may be any time later.
Ready(t) ==
    /\ run.active
    /\ task[t] = "waiting"
    /\ t # "plan" => task[Upstream[t]] = "success"

EndRun ==
    /\ run.active
    /\ \A t \in Tasks : ~Ready(t)
    /\ run' = Idle
    /\ task' = Waiting
    /\ tries' = NoTries
    /\ plan' = NoPlan
    /\ category' = 1
    /\ UNCHANGED <<now, published, stored, cursors, slot, faults>>

Succeed(t) ==
    /\ task' = [task EXCEPT ![t] = "success"]
    /\ UNCHANGED <<tries, faults>>

\* record_failed_window: the window of the plan, or of now if there is none.
FailedWindow ==
    IF plan # NoPlan THEN plan.cursor .. plan.end
                     ELSE (now - CollectMinutes) .. now

\* put_gap_manifest, once for each of the windows: an error of S3 is swallowed,
\* and then the window is in Airflow's log only.
PutManifests(windows) ==
    \E refused \in SUBSET windows :
        /\ marked' = marked \union UNION (windows \ refused)
        /\ onlyLogged' = onlyLogged \union UNION refused

\* An attempt fails; after the last one the failure callback runs, which for
\* load_daily_to_rds only logs.  written: the window the attempt had given up.
Fail(t, written) ==
    /\ Ready(t)
    /\ faults < MaxFaults
    /\ faults' = faults + 1
    /\ IF tries[t] < Retries
       THEN /\ tries' = [tries EXCEPT ![t] = @ + 1]
            /\ PutManifests(written)
            /\ UNCHANGED task
       ELSE /\ task' = [task EXCEPT ![t] = "failed"]
            /\ PutManifests(written \union (IF t = "load" THEN {} ELSE {FailedWindow}))
            /\ UNCHANGED tries

-------------------------------------------------------------------------------
(* plan_window                                                              *)

\* parse_cursor
From == IF cursor = Unset THEN now - CollectMinutes ELSE cursor

GapExceeded == now - From > GapThreshold
SkippedEnd == now - CollectMinutes

\* The window that plan_window gives up, if it does.
Skipped == IF GapExceeded THEN {From .. SkippedEnd} ELSE {}

Planned ==
    LET collect == IF GapExceeded THEN CollectMinutes
                                  ELSE Larger(CollectMinutes, now - From)
    IN  [cursor   |-> IF GapExceeded THEN SkippedEnd ELSE From,
         end      |-> now,
         collect  |-> collect,
         download |-> Larger(DownloadMinutes, collect)]

Plan ==
    /\ Ready("plan")
    /\ Succeed("plan")
    /\ PutManifests(Skipped)
    /\ cursor' = IF GapExceeded THEN SkippedEnd ELSE cursor
    /\ plan' = Planned
    /\ UNCHANGED <<now, published, stored, rds, outside, slot, run, category>>

\* It fails before it has done anything, after the manifest, or after it has
\* also moved the cursor.
PlanFails ==
    /\ \E written \in {{}, Skipped} :
         /\ Fail("plan", written)
         /\ \/ UNCHANGED cursor
            \/ written # {} /\ cursor' = SkippedEnd
    /\ UNCHANGED <<now, published, stored, rds, outside, slot, run, plan, category>>

-------------------------------------------------------------------------------
(* collect_daily_notices: raw_json_daily.py                                 *)

\* Mutated form: the window is open at its start.
WantedAfter(c) ==
    {n \in Notices : /\ Category[n] = c
                     /\ published[n] # Unset
                     /\ plan.end - plan.collect < published[n]
                     /\ published[n] <= plan.end}

\* The records of category c in the window, both ends included (in_window).
Wanted(c) ==
    {n \in Notices : /\ Category[n] = c
                     /\ published[n] # Unset
                     /\ plan.end - plan.collect <= published[n]
                     /\ published[n] <= plan.end}

\* to_curated knows the number of documents except for archives; the object
\* replaces the one of an earlier collection.
Collected(put) ==
    [n \in Notices |-> IF n \in put THEN [at |-> now, counted |-> n \notin Archives]
                                    ELSE curated[n]]

\* One category at a time: the first one may be long written when the last is.
Collect ==
    /\ Ready("collect")
    /\ curated' = Collected(Wanted(category))
    /\ IF category < Categories
       THEN /\ category' = category + 1
            /\ UNCHANGED <<task, tries, faults>>
       ELSE /\ Succeed("collect")
            /\ UNCHANGED category
    /\ UNCHANGED <<now, published, files, rows, cursors, slot, run, plan>>

\* A request or an upload fails midway; the retry begins with the first category.
CollectFails ==
    /\ Fail("collect", {})
    /\ \E put \in SUBSET Wanted(category) : curated' = Collected(put)
    /\ category' = 1
    /\ UNCHANGED <<now, published, files, rows, cursor, rds, outside, slot, run, plan>>

-------------------------------------------------------------------------------
(* download_daily_files: json_file_download_daily.py                        *)

\* The window of an attempt ends when the attempt starts.
Looked == now - plan.download

\* iter_recent_curated: objects of the listed partitions whose LastModified is
\* in the window.  An object written in the first minute of the window may be
\* on either side of its start.
Recent ==
    LET from == Looked
        Listed == {n \in Notices : /\ curated[n].at # Unset
                                   /\ Day(published[n]) \in Day(from) .. Day(now)}
    IN  {{n \in Listed : curated[n].at > from} \union edge :
           edge \in SUBSET {n \in Listed : curated[n].at = from}}

\* correct_expected_counts rewrites the objects whose count was wrong.
Counted(fixed) ==
    [n \in Notices |-> IF n \in fixed /\ ~curated[n].counted
                       THEN [at |-> now, counted |-> TRUE]
                       ELSE curated[n]]

\* Minutes of the run's own window that the attempt does not reach: it comes so
\* late that its window begins after the plan, or their day has gone by.
Unreached ==
    {t \in Minutes : /\ plan.end - plan.collect <= t /\ t <= plan.end
                     /\ plan.end <= Looked \/ Day(t) < Day(Looked)}

\* Mutated form: only what this attempt has uploaded is counted.
DownloadCountingNew ==
    /\ Ready("download")
    /\ \E found \in Recent :
         /\ files' = files \union found
         /\ curated' = Counted(found \ files)
    /\ outside' = outside \union Unreached
    /\ Succeed("download")
    /\ UNCHANGED <<now, published, rows, cursor, rds, manifests, slot, run, plan, category>>

Download ==
    /\ Ready("download")
    /\ \E found \in Recent :
         /\ files' = files \union found
         /\ curated' = Counted(found)
    /\ outside' = outside \union Unreached
    /\ Succeed("download")
    /\ UNCHANGED <<now, published, rows, cursor, rds, manifests, slot, run, plan, category>>

\* Some attachments fail, a correction or the manifest does, or the script dies.
DownloadFails ==
    /\ Fail("download", {})
    /\ \E found \in Recent : \E got \in SUBSET found :
         /\ files' = files \union got
         /\ \E fixed \in SUBSET got : curated' = Counted(fixed)
    /\ UNCHANGED <<now, published, rows, cursor, rds, outside, slot, run, plan, category>>

-------------------------------------------------------------------------------
(* mark_success, load_daily_to_rds and mark_rds_success                     *)

Mark ==
    /\ Ready("mark")
    /\ Succeed("mark")
    /\ cursor' = plan.end
    /\ UNCHANGED <<now, published, stored, rds, manifests, outside, slot, run, plan, category>>

\* The variable may have been written before the attempt dies.
MarkFails ==
    /\ Fail("mark", {})
    /\ cursor' \in {cursor, plan.end}
    /\ UNCHANGED <<now, published, stored, rds, outside, slot, run, plan, category>>

Since == IF rdsCursor = Unset THEN plan.cursor ELSE rdsCursor

\* Mutated form: no lookback, and the first minute is excluded.
ModifiedAfter ==
    {n \in Notices : /\ curated[n].at # Unset
                     /\ Day(published[n]) \in Day(Since) .. Day(plan.end)
                     /\ curated[n].at \in (Since + 1) .. (plan.end - 1)}

\* list_recent_json_keys.  An object written in the minute of until is later
\* than until.
Modified ==
    {n \in Notices : /\ curated[n].at # Unset
                     /\ Day(published[n]) \in Day(Since - Lookback) .. Day(plan.end)
                     /\ curated[n].at \in (Since - Lookback) .. (plan.end - 1)}

Content(n) == IF curated[n].counted THEN "counted" ELSE "estimated"

\* write_rows: one transaction.
Upserted == [n \in Notices |-> IF n \in Modified THEN Content(n) ELSE rows[n]]

Load ==
    /\ Ready("load")
    /\ Succeed("load")
    /\ rows' = Upserted
    /\ UNCHANGED <<now, published, curated, files, cursors, slot, run, plan, category>>

\* It fails before the commit, or dies after it.
LoadFails ==
    /\ Fail("load", {})
    /\ rows' \in {rows, Upserted}
    /\ UNCHANGED <<now, published, curated, files, cursor, rds, outside, slot, run,
                   plan, category>>

\* The first time, the load took what is newer than the plan's own window.
MarkLoaded ==
    /\ rdsCursor' = plan.end
    /\ loadedFrom' = IF rdsCursor = Unset THEN plan.cursor ELSE loadedFrom

MarkRds ==
    /\ Ready("markRds")
    /\ Succeed("markRds")
    /\ MarkLoaded
    /\ UNCHANGED <<now, published, stored, cursor, manifests, outside, slot, run, plan, category>>

MarkRdsFails ==
    /\ Fail("markRds", {})
    /\ UNCHANGED rds \/ MarkLoaded
    /\ UNCHANGED <<now, published, stored, cursor, outside, slot, run, plan, category>>

-------------------------------------------------------------------------------

Next ==
    \/ Tick
    \/ \E n \in Notices : Publish(n)
    \/ StartRun
    \/ EndRun
    \/ Plan \/ PlanFails
    \/ Collect \/ CollectFails
    \/ Download \/ DownloadFails
    \/ Mark \/ MarkFails
    \/ Load \/ LoadFails
    \/ MarkRds \/ MarkRdsFails

Spec == Init /\ [][Next]_vars

-------------------------------------------------------------------------------
(* Properties                                                               *)

\* Minutes that the run of their window left out: to the backfill by a manifest, to
\* whoever reads the log where S3 refused the manifest, or to nobody where a late
\* download, or one after midnight, no longer looked at them.
LeftOut == marked \union onlyLogged \union outside

\* What the collection cursor has passed has been collected and its
\* attachments downloaded, or its minute was left out for one of these causes.
CursorCovers ==
    \A n \in Notices :
        published[n] # Unset /\ published[n] < cursor
            => n \in files \/ published[n] \in LeftOut

\* The object was written so long after the midnight that ended the notice's day
\* that a load no longer lists the partition of that day.
PastMidnight(n) == Day(published[n]) < Day(curated[n].at - Lookback)

\* What was written before the RDS cursor is in bid_table, as it was written,
\* except past midnight, and what was older than the window of the first load.
RdsCovers ==
    \A n \in Notices :
        curated[n].at # Unset /\ curated[n].at < rdsCursor
            => \/ rows[n] = Content(n)
               \/ PastMidnight(n)
               \/ curated[n].at < loadedFrom

\* Neither cursor leaves anything behind it undone.
CursorsCover == CursorCovers /\ RdsCovers

\* As long as no more attempts have failed than a retry absorbs, a notice whose
\* minute was not left out has its attachments in S3 and, except past midnight, a
\* row with the corrected count within Deadline minutes.
DeliveredInTime ==
    \A n \in Notices :
        faults <= Retries /\ published[n] # Unset /\ published[n] + Deadline <= now
            => \/ published[n] \in LeftOut
               \/ n \in files /\ (rows[n] = "counted" \/ PastMidnight(n))

===============================================================================
