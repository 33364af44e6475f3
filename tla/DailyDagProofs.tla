---------------------------- MODULE DailyDagProofs ----------------------------
(***************************************************************************)
(* Theorems about DailyDag, for any notices, categories, periods, windows, *)
(* retries and numbers of failures.                                        *)
(***************************************************************************)
EXTENDS DailyDag, TLAPS

USE DEF rds, manifests

-------------------------------------------------------------------------------
(* The clock, the tasks and the plan.                                       *)

Clock ==
    /\ \A n \in Notices :
         /\ published[n] <= now /\ curated[n].at <= now
         /\ curated[n].at # Unset => published[n] # Unset /\ published[n] <= curated[n].at
    /\ cursor <= now /\ rdsCursor <= now
    /\ run.active => run.since <= now /\ now <= run.since + RunLimit

InRun ==
    /\ ~run.active => task = Waiting
    /\ task["collect"] # "waiting" => task["plan"] = "success"
    /\ task["download"] # "waiting" => task["collect"] = "success"
    /\ task["mark"] # "waiting" => task["download"] = "success"
    /\ task["load"] # "waiting" => task["download"] = "success"
    /\ task["markRds"] # "waiting" => task["load"] = "success"
    /\ task["plan"] = "success" =>
         /\ run.since <= plan.end /\ plan.end <= now /\ plan.cursor <= plan.end
         /\ plan.end - plan.cursor <= plan.collect
         /\ plan.collect <= plan.download /\ DownloadMinutes <= plan.download

Base == TypeOK /\ Clock /\ InRun

LEMMA Bounds ==
    /\ Period \in Nat \ {0} /\ CollectMinutes \in Nat \ {0} /\ DownloadMinutes \in Nat
    /\ GapThreshold \in Nat /\ CollectMinutes <= GapThreshold /\ Lookback \in Nat
    /\ DayLength \in Nat \ {0} /\ Retries \in Nat /\ StartLimit \in Nat
    /\ RunLimit \in Nat /\ Deadline \in Nat /\ MaxTime \in Nat /\ MaxFaults \in Nat
    /\ Categories \in Nat \ {0} /\ Category \in [Notices -> 1 .. Categories]
    /\ CursorSet \in BOOLEAN
  BY MinutesAssumption, BoundsAssumption, NoticesAssumption

LEMMA ReadyTask ==
    ASSUME NEW t \in Tasks, Ready(t)
    PROVE  /\ run.active /\ task[t] = "waiting"
           /\ t = "collect" => task["plan"] = "success"
           /\ t = "download" => task["collect"] = "success"
           /\ t = "mark" => task["download"] = "success"
           /\ t = "load" => task["download"] = "success"
           /\ t = "markRds" => task["load"] = "success"
  BY DEF Ready, Upstream, Tasks

LEMMA SucceedTask ==
    ASSUME TypeOK, NEW t \in Tasks, Succeed(t)
    PROVE  /\ task' \in [Tasks -> {"waiting", "success", "failed"}]
           /\ task'[t] = "success"
           /\ \A u \in Tasks : u # t => task'[u] = task[u]
           /\ tries' = tries /\ faults' = faults
  BY DEF Succeed, TypeOK

\* The minutes of the windows are in a manifest or in the log.
LEMMA ManifestsPut ==
    ASSUME TypeOK, NEW windows \in SUBSET SUBSET Minutes, PutManifests(windows)
    PROVE  /\ marked \subseteq marked' /\ onlyLogged \subseteq onlyLogged'
           /\ marked' \subseteq Minutes /\ onlyLogged' \subseteq Minutes
           /\ \A w \in windows : w \subseteq marked' \union onlyLogged'
  <1>1. PICK refused \in SUBSET windows :
          /\ marked' = marked \union UNION (windows \ refused)
          /\ onlyLogged' = onlyLogged \union UNION refused
    BY DEF PutManifests
  <1>2. marked \subseteq Minutes /\ onlyLogged \subseteq Minutes
    BY DEF TypeOK
  <1>3. UNION (windows \ refused) \subseteq Minutes /\ UNION refused \subseteq Minutes
    OBVIOUS
  <1>4. ASSUME NEW w \in windows PROVE w \subseteq marked' \union onlyLogged'
    <2>1. w \subseteq UNION (windows \ refused) \/ w \subseteq UNION refused
      BY <1>4
    <2> QED BY <1>1, <2>1
  <1> QED BY <1>1, <1>2, <1>3, <1>4

LEMMA FailTask ==
    ASSUME TypeOK, NEW t \in Tasks, NEW written \in SUBSET SUBSET Minutes,
           Fail(t, written)
    PROVE  /\ task' \in [Tasks -> {"waiting", "success", "failed"}]
           /\ task'[t] \in {"waiting", "failed"}
           /\ \A u \in Tasks : u # t => task'[u] = task[u]
           /\ tries' \in [Tasks -> 0 .. Retries]
           /\ faults' \in 0 .. MaxFaults
           /\ marked \subseteq marked' /\ onlyLogged \subseteq onlyLogged'
           /\ marked' \subseteq Minutes /\ onlyLogged' \subseteq Minutes
           /\ \A w \in written : w \subseteq marked' \union onlyLogged'
  <1>1. task[t] = "waiting" /\ faults' = faults + 1 /\ faults < MaxFaults
    BY ReadyTask DEF Fail
  <1>2. faults' \in 0 .. MaxFaults
    BY <1>1, Bounds DEF TypeOK
  <1>3. CASE tries[t] < Retries
    <2>1. /\ tries' = [tries EXCEPT ![t] = @ + 1] /\ task' = task
          /\ PutManifests(written)
      BY <1>3 DEF Fail
    <2>2. tries' \in [Tasks -> 0 .. Retries]
      BY <1>3, <2>1, Bounds DEF TypeOK
    <2> QED BY <1>1, <1>2, <2>1, <2>2, ManifestsPut DEF TypeOK
  <1>4. CASE ~(tries[t] < Retries)
    <2>1. FailedWindow \subseteq Minutes
      BY Bounds DEF FailedWindow, TypeOK, Minutes, Times, Unset
    <2> DEFINE windows == written \union (IF t = "load" THEN {} ELSE {FailedWindow})
    <2>2. /\ task' = [task EXCEPT ![t] = "failed"] /\ tries' = tries
          /\ PutManifests(windows)
      BY <1>4 DEF Fail
    <2>3. windows \in SUBSET SUBSET Minutes /\ written \subseteq windows
      BY <2>1
    <2> HIDE DEF windows
    <2> QED BY <1>1, <1>2, <2>2, <2>3, ManifestsPut DEF TypeOK
  <1> QED BY <1>3, <1>4

\* What plan_window computes.
LEMMA PlanIs ==
    ASSUME Base
    PROVE  /\ From \in Minutes /\ From <= now
           /\ Planned \in [cursor : Minutes, end : Times, collect : Nat, download : Nat]
           /\ Planned.end = now /\ Planned.cursor <= now
           /\ now - Planned.cursor <= Planned.collect
           /\ Planned.collect <= Planned.download /\ DownloadMinutes <= Planned.download
           /\ Planned.collect <= GapThreshold
           /\ GapExceeded => /\ cursor # Unset /\ From = cursor
                             /\ cursor < SkippedEnd /\ SkippedEnd <= now
                             /\ SkippedEnd \in Times /\ Planned.cursor = SkippedEnd
                             /\ Planned.collect = CollectMinutes
           /\ ~GapExceeded => /\ Planned.cursor = From
                              /\ Planned.collect = Larger(CollectMinutes, now - From)
           /\ Skipped \in SUBSET SUBSET Minutes
  <1>1. now \in 0 .. MaxTime /\ cursor \in Times /\ cursor <= now
    BY DEF Base, TypeOK, Clock
  <1>2. From \in Minutes /\ From <= now
    BY <1>1, Bounds DEF From, Minutes, Times, Unset
  <1>3. GapExceeded => /\ cursor # Unset /\ From = cursor
                       /\ cursor < SkippedEnd /\ SkippedEnd <= now /\ SkippedEnd \in Times
    BY <1>1, Bounds DEF GapExceeded, From, SkippedEnd, Times, Unset
  <1>4. Skipped \in SUBSET SUBSET Minutes
    BY <1>1, <1>2, <1>3, Bounds DEF Skipped, Minutes, Times, Unset
  <1>5. CASE GapExceeded
    BY <1>1, <1>2, <1>3, <1>4, <1>5, Bounds
       DEF Planned, Larger, Minutes, Times, Unset, SkippedEnd
  <1>6. CASE ~GapExceeded
    BY <1>1, <1>2, <1>4, <1>6, Bounds
       DEF Planned, Larger, Minutes, Times, Unset, GapExceeded
  <1> QED BY <1>5, <1>6

\* The schedule of a run that starts now.
LEMMA SlotIs ==
    ASSUME TypeOK
    PROVE  /\ now \div Period \in Times /\ now \div Period \in Nat
           /\ (now \div Period) * Period <= now
           /\ now < (now \div Period + 1) * Period
  <1> DEFINE q == now \div Period
  <1>1. now \in Nat /\ now <= MaxTime /\ Period \in Nat /\ Period >= 1 /\ MaxTime \in Nat
    BY Bounds DEF TypeOK
  <1>2. q \in Nat /\ q * Period <= now /\ now < (q + 1) * Period
    BY <1>1
  <1>3. q <= now
    <2> HIDE DEF q
    <2>1. q <= q * Period
      BY <1>1, <1>2
    <2>2. q * Period \in Int
      BY <1>1, <1>2
    <2> QED BY <1>1, <1>2, <2>1, <2>2
  <1> HIDE DEF q
  <1>4. q \in Times
    BY <1>1, <1>2, <1>3 DEF Times, Unset
  <1> QED BY <1>2, <1>4 DEF q

LEMMA BaseInit == Init => Base
  <1> SUFFICES ASSUME Init PROVE Base
    OBVIOUS
  <1>1. TypeOK
    BY Bounds DEF Init, TypeOK, Times, Minutes, Unset, Idle, NoPlan, Waiting, NoTries
  <1>2. Clock
    BY Bounds DEF Init, Clock, Idle, Unset
  <1>3. InRun
    BY DEF Init, InRun, Waiting, Tasks
  <1> QED BY <1>1, <1>2, <1>3 DEF Base

LEMMA BaseClock == Base /\ (Tick \/ \E n \in Notices : Publish(n)) => Base'
  <1> SUFFICES ASSUME Base, Tick \/ \E n \in Notices : Publish(n) PROVE Base'
    OBVIOUS
  <1> USE DEF Base
  <1>1. CASE Tick
    <2>1. /\ now' = now + 1 /\ now < MaxTime
          /\ run.active => now + 1 - run.since <= RunLimit
          /\ UNCHANGED <<published, stored, cursors, slot, run, task, tries, plan,
                         category, faults>>
      BY <1>1 DEF Tick
    <2>2. now \in 0 .. MaxTime /\ now' \in 0 .. MaxTime /\ run.since \in 0 .. MaxTime
      BY <2>1, Bounds DEF TypeOK
    <2>3. TypeOK'
      BY <2>1, <2>2 DEF TypeOK, stored, cursors
    <2>4. Clock'
      BY <2>1, <2>2, Bounds DEF TypeOK, Clock, stored, cursors, Times, Unset
    <2>5. InRun'
      BY <2>1, <2>2, Bounds DEF TypeOK, InRun, Times, Unset
    <2> QED BY <2>3, <2>4, <2>5
  <1>2. ASSUME NEW n \in Notices, Publish(n) PROVE Base'
    <2>1. /\ published' = [published EXCEPT ![n] = now]
          /\ UNCHANGED <<now, stored, cursors, slot, run, task, tries, plan, category, faults>>
      BY <1>2 DEF Publish
    <2>2. now \in Times /\ now <= now /\ now # Unset
      BY Bounds DEF TypeOK, Times, Unset
    <2>3. TypeOK'
      BY <2>1, <2>2 DEF TypeOK, stored, cursors
    <2>4. Clock'
      <3>1. curated[n].at = Unset
        BY <1>2 DEF Publish, Clock
      <3> QED BY <2>1, <2>2, <3>1 DEF TypeOK, Clock, stored, cursors
    <2>5. InRun'
      BY <2>1 DEF InRun
    <2> QED BY <2>3, <2>4, <2>5
  <1> QED BY <1>1, <1>2

LEMMA BaseRun == Base /\ (StartRun \/ EndRun) => Base'
  <1> SUFFICES ASSUME Base, StartRun \/ EndRun PROVE Base'
    OBVIOUS
  <1> USE DEF Base
  <1>1. CASE StartRun
    <2>1. now \div Period \in Times
      BY SlotIs DEF Base
    <2>2. TypeOK'
      BY <1>1, <2>1 DEF StartRun, TypeOK, stored, cursors
    <2>3. Clock'
      BY <1>1, Bounds DEF StartRun, TypeOK, Clock, stored, cursors
    <2>4. InRun'
      BY <1>1 DEF StartRun, InRun, Waiting, Tasks
    <2> QED BY <2>2, <2>3, <2>4
  <1>2. CASE EndRun
    <2>1. TypeOK'
      BY <1>2, Bounds DEF EndRun, TypeOK, stored, cursors, Idle, NoPlan, Waiting, NoTries,
                          Times, Minutes, Unset
    <2>2. Clock'
      BY <1>2 DEF EndRun, Clock, stored, cursors, Idle
    <2>3. InRun'
      BY <1>2 DEF EndRun, InRun, Waiting, Tasks
    <2> QED BY <2>1, <2>2, <2>3
  <1> QED BY <1>1, <1>2

LEMMA BasePlan == Base /\ (Plan \/ PlanFails) => Base'
  <1> SUFFICES ASSUME Base, Plan \/ PlanFails PROVE Base'
    OBVIOUS
  <1> USE DEF Base
  <1>1. CASE Plan
    <2>1. /\ Ready("plan") /\ Succeed("plan")
          /\ PutManifests(Skipped)
          /\ cursor' = IF GapExceeded THEN SkippedEnd ELSE cursor
          /\ plan' = Planned
          /\ UNCHANGED <<now, published, stored, rds, outside, slot, run, category>>
      BY <1>1 DEF Plan
    <2>2. "plan" \in Tasks
      BY DEF Tasks
    <2>3. /\ task' \in [Tasks -> {"waiting", "success", "failed"}]
          /\ task'["plan"] = "success"
          /\ \A u \in Tasks : u # "plan" => task'[u] = task[u]
          /\ tries' = tries /\ faults' = faults
      BY <2>1, <2>2, SucceedTask
    <2>4. run.active /\ task["plan"] = "waiting"
      BY <2>1, <2>2, ReadyTask
    <2>5. cursor' \in Times /\ cursor' <= now
      BY <2>1, PlanIs DEF TypeOK, Clock
    <2>9. marked' \subseteq Minutes /\ onlyLogged' \subseteq Minutes
      BY <2>1, PlanIs, ManifestsPut
    <2>6. TypeOK'
      BY <2>1, <2>3, <2>5, <2>9, PlanIs DEF TypeOK, stored
    <2>7. Clock'
      BY <2>1, <2>5 DEF Clock, stored
    <2>8. InRun'
      BY <2>1, <2>3, <2>4, PlanIs DEF InRun, Tasks, TypeOK, Clock
    <2> QED BY <2>6, <2>7, <2>8
  <1>2. CASE PlanFails
    <2>1. PICK written \in {{}, Skipped} :
            /\ Fail("plan", written)
            /\ \/ UNCHANGED cursor
               \/ written # {} /\ cursor' = SkippedEnd
      BY <1>2 DEF PlanFails
    <2>2. UNCHANGED <<now, published, stored, rds, outside, slot, run, plan, category>>
      BY <1>2 DEF PlanFails
    <2>3. "plan" \in Tasks /\ written \in SUBSET SUBSET Minutes
      BY PlanIs DEF Tasks
    <2>4. /\ task' \in [Tasks -> {"waiting", "success", "failed"}]
          /\ task'["plan"] \in {"waiting", "failed"}
          /\ \A u \in Tasks : u # "plan" => task'[u] = task[u]
          /\ tries' \in [Tasks -> 0 .. Retries]
          /\ faults' \in 0 .. MaxFaults
          /\ marked' \subseteq Minutes /\ onlyLogged' \subseteq Minutes
      BY <2>1, <2>3, FailTask
    <2>5. run.active /\ task["plan"] = "waiting"
      BY <2>1, <2>3, ReadyTask DEF Fail
    <2>6. cursor' \in Times /\ cursor' <= now
      BY <2>1, PlanIs DEF TypeOK, Clock, Skipped
    <2>7. TypeOK'
      BY <2>2, <2>4, <2>6 DEF TypeOK, stored
    <2>8. Clock'
      BY <2>2, <2>6 DEF Clock, stored
    <2>9. InRun'
      BY <2>2, <2>4, <2>5 DEF InRun, Tasks
    <2> QED BY <2>7, <2>8, <2>9
  <1> QED BY <1>1, <1>2

\* What a collector or a downloader writes bears the time of now.
LEMMA WrittenNow ==
    ASSUME Base
    PROVE  /\ \A put \in SUBSET Wanted(category) :
                /\ Collected(put) \in [Notices -> [at : Times, counted : BOOLEAN]]
                /\ \A n \in Notices :
                     /\ n \in put => Collected(put)[n].at = now
                     /\ n \notin put => Collected(put)[n] = curated[n]
           /\ \A found \in Recent : found \subseteq Notices
                                    /\ \A n \in found : curated[n].at # Unset
           /\ \A fixed \in SUBSET Notices :
                /\ Counted(fixed) \in [Notices -> [at : Times, counted : BOOLEAN]]
                /\ \A n \in Notices :
                     \/ /\ n \in fixed /\ ~curated[n].counted
                        /\ Counted(fixed)[n] = [at |-> now, counted |-> TRUE]
                     \/ /\ ~(n \in fixed /\ ~curated[n].counted)
                        /\ Counted(fixed)[n] = curated[n]
  <1>1. now \in Times /\ curated \in [Notices -> [at : Times, counted : BOOLEAN]]
    BY Bounds DEF Base, TypeOK, Times, Unset
  <1>2. \A put : Collected(put) \in [Notices -> [at : Times, counted : BOOLEAN]]
    BY <1>1 DEF Collected
  <1>3. \A fixed : Counted(fixed) \in [Notices -> [at : Times, counted : BOOLEAN]]
    BY <1>1 DEF Counted
  <1>4. \A found \in Recent : found \subseteq Notices
                              /\ \A n \in found : curated[n].at # Unset
    BY DEF Recent
  <1>5. \A put : \A n \in Notices : /\ n \in put => Collected(put)[n].at = now
                                    /\ n \notin put => Collected(put)[n] = curated[n]
    BY DEF Collected
  <1>6. \A fixed \in SUBSET Notices : \A n \in Notices :
          \/ /\ n \in fixed /\ ~curated[n].counted
             /\ Counted(fixed)[n] = [at |-> now, counted |-> TRUE]
          \/ /\ ~(n \in fixed /\ ~curated[n].counted)
             /\ Counted(fixed)[n] = curated[n]
    BY DEF Counted
  <1> QED BY <1>2, <1>3, <1>4, <1>5, <1>6

\* Only objects written now have changed.
Rewritten ==
    /\ curated' \in [Notices -> [at : Times, counted : BOOLEAN]]
    /\ \A n \in Notices : \/ curated'[n] = curated[n]
                          \/ curated'[n].at = now /\ published[n] # Unset

LEMMA Rewrites ==
    ASSUME Base, Collect \/ CollectFails \/ Download \/ DownloadFails
    PROVE  Rewritten
  <1>1. now # Unset
    BY DEF Base, TypeOK, Unset
  <1>2. CASE Collect \/ CollectFails
    <2>1. PICK put \in SUBSET Wanted(category) : curated' = Collected(put)
      BY <1>2 DEF Collect, CollectFails
    <2>2. \A n \in Notices : n \in put => published[n] # Unset
      BY DEF Wanted
    <2>3. \A n \in Notices : /\ n \in put => curated'[n].at = now
                             /\ n \notin put => curated'[n] = curated[n]
      BY <2>1, WrittenNow
    <2>4. curated' \in [Notices -> [at : Times, counted : BOOLEAN]]
      BY <2>1, WrittenNow
    <2>5. \A n \in Notices : \/ curated'[n] = curated[n]
                             \/ curated'[n].at = now /\ published[n] # Unset
      <3> SUFFICES ASSUME NEW n \in Notices
                   PROVE  \/ curated'[n] = curated[n]
                          \/ curated'[n].at = now /\ published[n] # Unset
        OBVIOUS
      <3>1. CASE n \in put
        BY <2>2, <2>3, <3>1
      <3>2. CASE n \notin put
        BY <2>3, <3>2
      <3> QED BY <3>1, <3>2
    <2> QED BY <2>4, <2>5 DEF Rewritten
  <1>3. CASE Download \/ DownloadFails
    <2>1. PICK fixed \in SUBSET Notices :
            curated' = Counted(fixed) /\ \A n \in fixed : curated[n].at # Unset
      BY <1>3, WrittenNow DEF Download, DownloadFails
    <2>2. \A n \in fixed : published[n] # Unset
      BY <2>1 DEF Base, Clock
    <2> QED BY <2>1, <2>2, WrittenNow DEF Rewritten
  <1> QED BY <1>2, <1>3

\* A step that rewrites objects and moves tasks within the run.
LEMMA BaseRewritten ==
    ASSUME Base, Rewritten, InRun', files' \subseteq Notices,
           task' \in [Tasks -> {"waiting", "success", "failed"}],
           tries' \in [Tasks -> 0 .. Retries], faults' \in 0 .. MaxFaults,
           marked' \subseteq Minutes, onlyLogged' \subseteq Minutes,
           outside' \subseteq Minutes, category' \in 1 .. Categories,
           UNCHANGED <<now, published, rows, cursor, rds, slot, run, plan>>
    PROVE  Base'
  <1>1. TypeOK'
    BY DEF Base, TypeOK, Rewritten
  <1>2. Clock'
    <2>1. \A n \in Notices :
            /\ published'[n] <= now' /\ curated'[n].at <= now'
            /\ curated'[n].at # Unset => published'[n] # Unset /\ published'[n] <= curated'[n].at
      <3> SUFFICES ASSUME NEW n \in Notices
                   PROVE  /\ published[n] <= now /\ curated'[n].at <= now
                          /\ curated'[n].at # Unset =>
                               published[n] # Unset /\ published[n] <= curated'[n].at
        OBVIOUS
      <3>1. now <= now
        BY DEF Base, TypeOK
      <3> QED BY <3>1 DEF Base, Clock, Rewritten
    <2>2. /\ cursor' <= now' /\ rdsCursor' <= now'
          /\ run'.active => run'.since <= now' /\ now' <= run'.since + RunLimit
      BY DEF Base, Clock
    <2> QED BY <2>1, <2>2 DEF Clock
  <1> QED BY <1>1, <1>2 DEF Base

LEMMA BaseCollect == Base /\ (Collect \/ CollectFails) => Base'
  <1> SUFFICES ASSUME Base, Collect \/ CollectFails PROVE Base'
    OBVIOUS
  <1>1. Rewritten /\ "collect" \in Tasks /\ Categories \in Nat \ {0}
    BY Rewrites, Bounds DEF Tasks
  <1>2. CASE Collect
    <2>1. /\ Ready("collect")
          /\ UNCHANGED <<now, published, files, rows, cursors, slot, run, plan>>
      BY <1>2 DEF Collect
    <2>2. task["plan"] = "success" /\ task["collect"] = "waiting"
      BY <1>1, <2>1, ReadyTask
    <2>3. CASE category < Categories
      <3>1. category' = category + 1 /\ UNCHANGED <<task, tries, faults>>
        BY <1>2, <2>3 DEF Collect
      <3>2. category' \in 1 .. Categories
        BY <1>1, <2>3, <3>1 DEF Base, TypeOK
      <3>3. InRun'
        BY <2>1, <3>1 DEF Base, InRun
      <3> QED BY <1>1, <2>1, <3>1, <3>2, <3>3, BaseRewritten DEF cursors, Base, TypeOK
    <2>4. CASE ~(category < Categories)
      <3>1. Succeed("collect") /\ category' = category
        BY <1>2, <2>4 DEF Collect
      <3>2. /\ task' \in [Tasks -> {"waiting", "success", "failed"}]
            /\ task'["collect"] = "success"
            /\ \A u \in Tasks : u # "collect" => task'[u] = task[u]
            /\ tries' = tries /\ faults' = faults
        BY <1>1, <3>1, SucceedTask DEF Base
      <3>3. InRun'
        BY <2>1, <2>2, <3>2 DEF Base, InRun, Tasks, Ready
      <3> QED BY <1>1, <2>1, <3>1, <3>2, <3>3, BaseRewritten DEF cursors, Base, TypeOK
    <2> QED BY <2>3, <2>4
  <1>3. CASE CollectFails
    <2>1. /\ Fail("collect", {}) /\ category' = 1
          /\ UNCHANGED <<now, published, files, rows, cursor, rds, outside, slot, run, plan>>
      BY <1>3 DEF CollectFails
    <2>2. task["plan"] = "success" /\ task["collect"] = "waiting" /\ run.active
      BY <1>1, <2>1, ReadyTask DEF Fail
    <2>3. /\ task' \in [Tasks -> {"waiting", "success", "failed"}]
          /\ task'["collect"] \in {"waiting", "failed"}
          /\ \A u \in Tasks : u # "collect" => task'[u] = task[u]
          /\ tries' \in [Tasks -> 0 .. Retries]
          /\ faults' \in 0 .. MaxFaults
          /\ marked' \subseteq Minutes /\ onlyLogged' \subseteq Minutes
      BY <1>1, <2>1, FailTask DEF Base
    <2>4. InRun'
      BY <2>1, <2>2, <2>3 DEF Base, InRun, Tasks
    <2>5. category' \in 1 .. Categories /\ files' \subseteq Notices /\ outside' \subseteq Minutes
      BY <1>1, <2>1 DEF Base, TypeOK
    <2> QED BY <1>1, <2>1, <2>3, <2>4, <2>5, BaseRewritten
  <1> QED BY <1>2, <1>3

LEMMA BaseDownload == Base /\ (Download \/ DownloadFails) => Base'
  <1> SUFFICES ASSUME Base, Download \/ DownloadFails PROVE Base'
    OBVIOUS
  <1>1. Rewritten /\ "download" \in Tasks
    BY Rewrites DEF Tasks
  <1>2. CASE Download
    <2>1. /\ Ready("download") /\ Succeed("download")
          /\ \E found \in Recent : files' = files \union found
          /\ outside' = outside \union Unreached
          /\ UNCHANGED <<now, published, rows, cursor, rds, manifests, slot, run, plan,
                         category>>
      BY <1>2 DEF Download
    <2>2. task["collect"] = "success" /\ task["download"] = "waiting" /\ run.active
      BY <1>1, <2>1, ReadyTask
    <2>3. /\ task' \in [Tasks -> {"waiting", "success", "failed"}]
          /\ task'["download"] = "success"
          /\ \A u \in Tasks : u # "download" => task'[u] = task[u]
          /\ tries' = tries /\ faults' = faults
      BY <1>1, <2>1, SucceedTask DEF Base
    <2>4. InRun'
      BY <2>1, <2>2, <2>3 DEF Base, InRun, Tasks
    <2>5. files' \subseteq Notices
      BY <2>1, WrittenNow DEF Base, TypeOK
    <2>6. outside' \subseteq Minutes
      <3>1. Unreached \subseteq Minutes
        BY DEF Unreached
      <3> QED BY <2>1, <3>1 DEF Base, TypeOK
    <2> QED BY <1>1, <2>1, <2>3, <2>4, <2>5, <2>6, BaseRewritten DEF Base, TypeOK
  <1>3. CASE DownloadFails
    <2>1. /\ Fail("download", {})
          /\ \E found \in Recent : \E got \in SUBSET found : files' = files \union got
          /\ UNCHANGED <<now, published, rows, cursor, rds, outside, slot, run, plan,
                         category>>
      BY <1>3 DEF DownloadFails
    <2>2. task["collect"] = "success" /\ task["download"] = "waiting" /\ run.active
      BY <1>1, <2>1, ReadyTask DEF Fail
    <2>3. /\ task' \in [Tasks -> {"waiting", "success", "failed"}]
          /\ task'["download"] \in {"waiting", "failed"}
          /\ \A u \in Tasks : u # "download" => task'[u] = task[u]
          /\ tries' \in [Tasks -> 0 .. Retries]
          /\ faults' \in 0 .. MaxFaults
          /\ marked' \subseteq Minutes /\ onlyLogged' \subseteq Minutes
      BY <1>1, <2>1, FailTask DEF Base
    <2>4. InRun'
      BY <2>1, <2>2, <2>3 DEF Base, InRun, Tasks
    <2>5. files' \subseteq Notices
      BY <2>1, WrittenNow DEF Base, TypeOK
    <2> QED BY <1>1, <2>1, <2>3, <2>4, <2>5, BaseRewritten DEF Base, TypeOK
  <1> QED BY <1>2, <1>3

\* A task after the download runs only when there is a plan.
LEMMA PlannedBefore ==
    ASSUME Base, NEW t \in {"mark", "load", "markRds"}, Ready(t)
    PROVE  /\ t \in Tasks /\ run.active /\ task[t] = "waiting"
           /\ task["download"] = "success" /\ task["collect"] = "success"
           /\ task["plan"] = "success" /\ plan.end \in Times /\ plan.end <= now
           /\ plan.end # Unset
           /\ t = "markRds" => task["load"] = "success"
  <1>1. t \in Tasks
    BY DEF Tasks
  <1>2. /\ run.active /\ task[t] = "waiting"
        /\ t = "mark" => task["download"] = "success"
        /\ t = "load" => task["download"] = "success"
        /\ t = "markRds" => task["load"] = "success"
    BY <1>1, ReadyTask
  <1>3. task["download"] = "success"
    BY <1>2 DEF Base, InRun
  <1>4. task["collect"] = "success" /\ task["plan"] = "success"
    BY <1>3 DEF Base, InRun
  <1>5. run.since \in 0 .. MaxTime /\ plan.end \in Times
    BY DEF Base, TypeOK
  <1>6. run.since <= plan.end /\ plan.end <= now
    BY <1>4 DEF Base, InRun
  <1>7. plan.end # Unset
    BY <1>5, <1>6, Bounds DEF Times, Unset
  <1> QED BY <1>1, <1>2, <1>3, <1>4, <1>5, <1>6, <1>7

\* Such a task moves a cursor to the end of the plan, or fills in rows.
LEMMA BaseLast ==
    Base /\ (Mark \/ MarkFails \/ Load \/ LoadFails \/ MarkRds \/ MarkRdsFails) => Base'
  <1> SUFFICES ASSUME Base, Mark \/ MarkFails \/ Load \/ LoadFails \/ MarkRds \/ MarkRdsFails
               PROVE  Base'
    OBVIOUS
  <1>1. PICK t \in {"mark", "load", "markRds"} : Ready(t) /\ (Succeed(t) \/ Fail(t, {}))
    BY DEF Mark, MarkFails, Load, LoadFails, MarkRds, MarkRdsFails, Fail
  <1>2. /\ t \in Tasks /\ run.active /\ task[t] = "waiting"
        /\ task["download"] = "success" /\ task["collect"] = "success"
        /\ task["plan"] = "success" /\ plan.end \in Times /\ plan.end <= now
        /\ t = "markRds" => task["load"] = "success"
    BY <1>1, PlannedBefore
  <1>3. /\ UNCHANGED <<now, published, curated, files, outside, slot, run, plan, category>>
        /\ cursor' \in {cursor, plan.end} /\ rdsCursor' \in {rdsCursor, plan.end}
        /\ loadedFrom' \in {loadedFrom, plan.cursor}
        /\ rows' \in {rows, Upserted}
    BY DEF Mark, MarkFails, Load, LoadFails, MarkRds, MarkRdsFails, MarkLoaded, stored, cursors
  <1>4. /\ task' \in [Tasks -> {"waiting", "success", "failed"}]
        /\ \A u \in Tasks : u # t => task'[u] = task[u]
        /\ tries' \in [Tasks -> 0 .. Retries] /\ faults' \in 0 .. MaxFaults
    BY <1>1, <1>2, SucceedTask, FailTask DEF Base, TypeOK
  <1>5. marked' \subseteq Minutes /\ onlyLogged' \subseteq Minutes
    <2>1. UNCHANGED manifests \/ Fail(t, {})
      BY <1>1 DEF Mark, MarkFails, Load, LoadFails, MarkRds, MarkRdsFails, cursors,
                  Succeed, Fail, Tasks, Base, TypeOK
    <2> QED BY <2>1, <1>2, FailTask DEF Base, TypeOK
  <1>6. Upserted \in [Notices -> {"absent", "estimated", "counted"}]
    BY DEF Base, TypeOK, Upserted, Content
  <1>7. TypeOK'
    BY <1>2, <1>3, <1>4, <1>5, <1>6 DEF Base, TypeOK
  <1>8. Clock'
    BY <1>2, <1>3 DEF Base, Clock
  <1>9. InRun'
    BY <1>2, <1>3, <1>4 DEF Base, InRun, Tasks
  <1> QED BY <1>7, <1>8, <1>9 DEF Base

LEMMA BaseStep == Base /\ [Next]_vars => Base'
  <1> SUFFICES ASSUME Base, [Next]_vars PROVE Base'
    OBVIOUS
  <1>1. CASE UNCHANGED vars
    BY <1>1 DEF Base, TypeOK, Clock, InRun, vars, stored, cursors
  <1>2. CASE Next
    BY <1>2, BaseClock, BaseRun, BasePlan, BaseCollect, BaseDownload, BaseLast DEF Next
  <1> QED BY <1>1, <1>2

LEMMA BaseHolds == Spec => []Base
  BY BaseInit, BaseStep, PTL DEF Spec

\* Cursors, windows, tasks and objects have their types after any run of the
\* tasks, failed ones included.
THEOREM TypeCorrect == Spec => []TypeOK
  <1>1. Base => TypeOK
    BY DEF Base
  <1> QED BY <1>1, BaseHolds, PTL

-------------------------------------------------------------------------------
(* What the collection cursor has passed.                                   *)

\* What was published before c is downloaded, or left out for one of the causes.
Covered(c) ==
    \A n \in Notices :
        published[n] # Unset /\ published[n] < c
            => n \in files \/ published[n] \in LeftOut

\* The window's records in the categories that this attempt has collected have
\* been written since the plan.
WindowWritten ==
    \A n \in Notices :
        /\ task["plan"] = "success" /\ published[n] # Unset
        /\ plan.end - plan.collect <= published[n] /\ published[n] < plan.end
        /\ \/ task["collect"] = "success"
           \/ task["collect"] = "waiting" /\ Category[n] < category
        => curated[n].at # Unset /\ plan.end <= curated[n].at

Covering ==
    /\ cursor # Unset
    /\ Covered(cursor)
    /\ task["plan"] # "success" => category = 1
    /\ task["plan"] = "success" => Covered(plan.cursor) /\ plan.collect <= GapThreshold
    /\ task["download"] = "success" => Covered(plan.end)
    /\ WindowWritten

\* Publications, downloads and the minutes left out are never taken back.
LEMMA Grows ==
    ASSUME Base, [Next]_vars
    PROVE  /\ files \subseteq files' /\ LeftOut \subseteq LeftOut'
           /\ \A n \in Notices :
                \/ published'[n] = published[n]
                \/ published[n] = Unset /\ published'[n] = now
  <1>1. CASE \/ UNCHANGED vars \/ Tick \/ StartRun \/ EndRun
             \/ (\E n \in Notices : Publish(n))
    <2>1. UNCHANGED <<files, marked, onlyLogged, outside>>
      BY <1>1 DEF vars, Tick, StartRun, EndRun, Publish, stored, cursors
    <2>2. \A n \in Notices : \/ published'[n] = published[n]
                             \/ published[n] = Unset /\ published'[n] = now
      BY <1>1 DEF vars, Tick, StartRun, EndRun, Publish, Base, TypeOK
    <2> QED BY <2>1, <2>2 DEF LeftOut
  <1>2. CASE Plan \/ PlanFails
    <2>1. UNCHANGED <<published, files, outside>>
      BY <1>2 DEF Plan, PlanFails, stored
    <2>2. \/ PutManifests(Skipped)
          \/ \E written \in {{}, Skipped} : Fail("plan", written)
      BY <1>2 DEF Plan, PlanFails
    <2>3. "plan" \in Tasks /\ \A written \in {{}, Skipped} : written \in SUBSET SUBSET Minutes
      BY PlanIs DEF Tasks
    <2>4. marked \subseteq marked' /\ onlyLogged \subseteq onlyLogged'
      BY <2>2, <2>3, PlanIs, ManifestsPut, FailTask DEF Base
    <2> QED BY <2>1, <2>4 DEF LeftOut
  <1>3. CASE \/ Collect \/ CollectFails \/ Download \/ DownloadFails
             \/ Mark \/ MarkFails \/ Load \/ LoadFails \/ MarkRds \/ MarkRdsFails
    <2>1. published' = published /\ files \subseteq files' /\ outside \subseteq outside'
      BY <1>3 DEF Collect, CollectFails, Download, DownloadFails, Mark, MarkFails, Load,
                  LoadFails, MarkRds, MarkRdsFails, stored, cursors
    <2>2. UNCHANGED manifests \/ \E t \in Tasks : Fail(t, {})
      BY <1>3 DEF Collect, CollectFails, Download, DownloadFails, Mark, MarkFails, Load,
                  LoadFails, MarkRds, MarkRdsFails, Tasks, cursors
    <2>3. marked \subseteq marked' /\ onlyLogged \subseteq onlyLogged'
      BY <2>2, FailTask DEF Base
    <2> QED BY <2>1, <2>3 DEF LeftOut
  <1> QED BY <1>1, <1>2, <1>3 DEF Next

\* What is covered stays so: a later notice is published later.
LEMMA CoveredStays ==
    ASSUME Base, [Next]_vars, NEW c \in Int, c <= now, Covered(c)
    PROVE  Covered(c)'
  <1> SUFFICES ASSUME NEW n \in Notices, published'[n] # Unset, published'[n] < c
               PROVE  n \in files' \/ published'[n] \in LeftOut'
    BY DEF Covered
  <1>1. now \in Int
    BY DEF Base, TypeOK
  <1>2. published'[n] = published[n]
    BY <1>1, Grows
  <1>3. n \in files \/ published[n] \in LeftOut
    BY <1>2 DEF Covered
  <1> QED BY <1>2, <1>3, Grows

\* A step that leaves the window, the tasks on it and the cursor alone.
LEMMA CoveringKept ==
    ASSUME Base, [Next]_vars, Covering,
           UNCHANGED <<cursor, plan, category, curated>>,
           \A t \in {"plan", "collect", "download"} : task'[t] = task[t]
    PROVE  Covering'
  <1>1. /\ cursor \in Int /\ cursor <= now
        /\ task["plan"] = "success" => /\ plan.cursor \in Int /\ plan.cursor <= now
                                       /\ plan.end \in Int /\ plan.end <= now
        /\ now \in Int /\ plan.end \in Int
        /\ task["download"] = "success" => task["plan"] = "success"
    <2>1. /\ cursor \in Int /\ plan.cursor \in Int /\ plan.end \in Int /\ now \in Int
      BY Bounds DEF Base, TypeOK, Times, Minutes, Unset
    <2>2. task["download"] = "success" => task["plan"] = "success"
      BY DEF Base, InRun
    <2>3. cursor <= now /\ (task["plan"] = "success" => plan.cursor <= plan.end /\ plan.end <= now)
      BY DEF Base, InRun, Clock
    <2> QED BY <2>1, <2>2, <2>3
  <1>2. Covered(cursor)'
    <2>1. \A c \in Int : c <= now /\ Covered(c) => Covered(c)'
      BY CoveredStays
    <2>2. PICK c \in Int : c = cursor
      BY <1>1
    <2> QED BY <1>1, <2>1, <2>2 DEF Covering, Covered
  <1>3. task'["plan"] = "success" => Covered(plan.cursor)'
    <2>1. \A c \in Int : c <= now /\ Covered(c) => Covered(c)'
      BY CoveredStays
    <2> QED BY <1>1, <2>1 DEF Covering, Covered
  <1>4. task'["download"] = "success" => Covered(plan.end)'
    <2>1. \A c \in Int : c <= now /\ Covered(c) => Covered(c)'
      BY CoveredStays
    <2> QED BY <1>1, <2>1 DEF Covering, Covered
  <1>5. WindowWritten'
    <2> SUFFICES ASSUME NEW n \in Notices,
                        task'["plan"] = "success", published'[n] # Unset,
                        plan'.end - plan'.collect <= published'[n], published'[n] < plan'.end,
                        \/ task'["collect"] = "success"
                        \/ task'["collect"] = "waiting" /\ Category[n] < category'
                 PROVE  curated'[n].at # Unset /\ plan'.end <= curated'[n].at
      BY DEF WindowWritten
    <2>1. task["plan"] = "success"
      OBVIOUS
    <2>2. published'[n] = published[n]
      BY <1>1, <2>1, Grows
    <2> QED BY <2>1, <2>2 DEF Covering, WindowWritten
  <1> QED BY <1>2, <1>3, <1>4, <1>5 DEF Covering

LEMMA CoveringInit == Init /\ cursor # Unset => Covering
  BY DEF Init, Covering, Covered, WindowWritten, Waiting, Tasks, Unset

\* What plan_window gives up is named, in S3 or the log, before the cursor moves over it.
LEMMA CoveringPlan ==
    ASSUME Base, [Next]_vars, Covering, Plan \/ PlanFails
    PROVE  Covering'
  <1>1. /\ cursor \in Int /\ cursor <= now /\ now \in Int /\ cursor # Unset /\ From = cursor
        /\ CollectMinutes <= GapThreshold /\ Covered(cursor)
    BY Bounds DEF Base, TypeOK, Times, Minutes, Unset, Clock, Covering, From
  <1>2. "plan" \in Tasks /\ task["plan"] = "waiting" /\ task["download"] = "waiting"
    <2>1. "plan" \in Tasks /\ Ready("plan")
      BY DEF Plan, PlanFails, Fail, Tasks
    <2>2. task["plan"] = "waiting"
      BY <2>1, ReadyTask
    <2> QED BY <2>1, <2>2 DEF Base, InRun
  <1>3. category' = category /\ category = 1
    BY <1>2 DEF Plan, PlanFails, Covering
  <1>4. Covered(cursor)'
    \* A cursor that moves skips minutes that a manifest or the log names.
    <2>1. CASE cursor' = cursor
      <3>1. \A c \in Int : c <= now /\ Covered(c) => Covered(c)'
        BY CoveredStays
      <3> QED BY <1>1, <2>1, <3>1 DEF Covered
    <2>2. CASE cursor' # cursor
      <3>1. GapExceeded /\ cursor' = SkippedEnd /\ From .. SkippedEnd \subseteq LeftOut'
        <4>1. CASE Plan
          <5>1. GapExceeded /\ cursor' = SkippedEnd /\ PutManifests(Skipped)
            BY <2>2, <4>1 DEF Plan
          <5>2. From .. SkippedEnd \in Skipped
            BY <5>1 DEF Skipped
          <5> QED BY <5>1, <5>2, PlanIs, ManifestsPut DEF Base, LeftOut
        <4>2. CASE PlanFails
          <5>1. PICK written \in {{}, Skipped} :
                  Fail("plan", written) /\ written # {} /\ cursor' = SkippedEnd
            BY <2>2, <4>2 DEF PlanFails
          <5>2. Skipped = written
            BY <5>1
          <5>3. GapExceeded /\ From .. SkippedEnd \in written
            BY <5>1, <5>2 DEF Skipped
          <5>4. From .. SkippedEnd \subseteq LeftOut'
            BY <1>2, <5>1, <5>2, <5>3, PlanIs, FailTask DEF Base, LeftOut
          <5> QED BY <5>1, <5>3, <5>4
        <4> QED BY <4>1, <4>2
      <3>2. SkippedEnd \in Int
        BY <1>1, Bounds DEF SkippedEnd
      <3> SUFFICES ASSUME NEW n \in Notices, published'[n] # Unset, published'[n] < SkippedEnd
                   PROVE  n \in files' \/ published'[n] \in LeftOut'
        BY <3>1 DEF Covered
      <3>3. published' = published
        BY DEF Plan, PlanFails
      <3>4. published[n] \in Int
        BY DEF Base, TypeOK, Times, Unset
      <3>5. CASE published[n] < cursor
        BY <1>1, <3>3, <3>5, Grows DEF Covered
      <3>6. CASE ~(published[n] < cursor)
        <4>1. published[n] \in cursor .. SkippedEnd
          BY <1>1, <3>2, <3>3, <3>4, <3>6
        <4> QED BY <1>1, <3>1, <3>3, <4>1
      <3> QED BY <3>5, <3>6
    <2> QED BY <2>1, <2>2
  <1>5. cursor' # Unset
    <2>1. cursor' = cursor \/ (GapExceeded /\ cursor' = SkippedEnd)
      <3>1. CASE Plan
        BY <3>1 DEF Plan
      <3>2. CASE PlanFails
        BY <3>2 DEF PlanFails, Skipped
      <3> QED BY <3>1, <3>2
    <2>2. cursor >= Unset
      BY Bounds DEF Base, TypeOK, Times, Unset
    <2>3. GapExceeded => cursor < SkippedEnd /\ SkippedEnd \in Times
      BY PlanIs
    <2> QED BY <1>1, <2>1, <2>2, <2>3, Bounds DEF Unset, Times
  <1>6. CASE Plan
    <2>1. /\ Succeed("plan") /\ plan' = Planned
          /\ cursor' = IF GapExceeded THEN SkippedEnd ELSE cursor
          /\ UNCHANGED <<now, published>>
      BY <1>6 DEF Plan
    <2>2. task'["plan"] = "success" /\ task'["download"] = "waiting"
      BY <1>2, <2>1, SucceedTask DEF Base, Tasks
    <2>3. plan'.cursor = cursor' /\ plan'.collect <= GapThreshold
      BY <1>1, <2>1, PlanIs
    <2>4. Covered(plan.cursor)'
      BY <1>4, <2>3 DEF Covered
    <2>5. WindowWritten'
      <3>1. task["collect"] = "waiting" /\ task'["collect"] = "waiting"
        BY <1>2, <2>1, SucceedTask DEF Base, Tasks, InRun
      <3>2. \A n \in Notices : ~(Category[n] < category')
        BY <1>3, Bounds
      <3> QED BY <3>1, <3>2 DEF WindowWritten
    <2> QED BY <1>4, <1>5, <2>2, <2>3, <2>4, <2>5 DEF Covering
  <1>7. CASE PlanFails
    <2>1. \E written \in SUBSET SUBSET Minutes : Fail("plan", written)
      BY <1>7, PlanIs DEF PlanFails
    <2>2. task'["plan"] # "success" /\ task'["download"] = "waiting"
      BY <1>2, <2>1, FailTask DEF Base, Tasks
    <2> QED BY <1>3, <1>4, <1>5, <2>2 DEF Covering, WindowWritten
  <1> QED BY <1>6, <1>7

\* The collector writes the window's records of a category after the plan.
LEMMA CoveringCollect ==
    ASSUME Base, [Next]_vars, Covering, Collect \/ CollectFails
    PROVE  Covering'
  <1>1. "collect" \in Tasks /\ Ready("collect")
    BY DEF Collect, CollectFails, Fail, Tasks
  <1>2. /\ task["plan"] = "success" /\ task["collect"] = "waiting"
        /\ task["download"] = "waiting"
    <2>1. task["plan"] = "success" /\ task["collect"] = "waiting"
      BY <1>1, ReadyTask
    <2> QED BY <2>1 DEF Base, InRun
  <1>3. UNCHANGED <<now, published, plan, cursor, files>>
    BY DEF Collect, CollectFails, cursors
  <1>4. /\ cursor \in Int /\ cursor <= now /\ now \in Int
        /\ plan.cursor \in Int /\ plan.cursor <= plan.end /\ plan.end <= now /\ plan.end \in Int
    <2>1. /\ cursor \in Int /\ plan.cursor \in Int /\ plan.end \in Int /\ now \in Int
      BY Bounds DEF Base, TypeOK, Times, Minutes, Unset
    <2> QED BY <1>2, <2>1 DEF Base, InRun, Clock
  <1>5. task'["plan"] = "success" /\ task'["download"] = "waiting"
    BY <1>1, <1>2, SucceedTask, FailTask DEF Collect, CollectFails, Base, Tasks
  <1>6. Covered(cursor)' /\ Covered(plan.cursor)'
    <2>1. \A c \in Int : c <= now /\ Covered(c) => Covered(c)'
      BY CoveredStays
    <2>2. plan.cursor <= now /\ Covered(plan.cursor) /\ Covered(cursor)
      BY <1>2, <1>4 DEF Covering
    <2> QED BY <1>3, <1>4, <2>1, <2>2 DEF Covered
  <1>7. WindowWritten'
    <2> SUFFICES ASSUME NEW n \in Notices, published[n] # Unset,
                        plan.end - plan.collect <= published[n], published[n] < plan.end,
                        \/ task'["collect"] = "success"
                        \/ task'["collect"] = "waiting" /\ Category[n] < category'
                 PROVE  curated'[n].at # Unset /\ plan.end <= curated'[n].at
      BY <1>3 DEF WindowWritten
    <2>1. now # Unset /\ plan.end <= now /\ Rewritten
      BY <1>4, Rewrites DEF Base, TypeOK, Unset
    <2>2. CASE Collect
      <3>1. Category[n] \in Int /\ category \in 1 .. Categories /\ Categories \in Int
        BY Bounds DEF Base, TypeOK
      <3>2. CASE Category[n] = category
        <4>1. published[n] <= plan.end
          BY <1>4, Bounds DEF Base, TypeOK, Times, Unset
        <4>2. n \in Wanted(category)
          BY <3>2, <4>1 DEF Wanted
        <4>3. curated' = Collected(Wanted(category))
          BY <2>2 DEF Collect
        <4>4. curated'[n].at = now
          BY <4>2, <4>3 DEF Collected
        <4> QED BY <2>1, <4>4
      <3>3. CASE Category[n] # category
        <4>1. Category[n] < category
          <5>1. CASE category < Categories
            <6>1. category' = category + 1 /\ task'["collect"] = "waiting"
              BY <1>2, <2>2, <5>1 DEF Collect
            <6> QED BY <3>1, <3>3, <6>1
          <5>2. CASE ~(category < Categories)
            <6>1. Category[n] \in 1 .. Categories
              BY Bounds
            <6> QED BY <3>1, <3>3, <5>2, <6>1
          <5> QED BY <5>1, <5>2
        <4>2. curated[n].at # Unset /\ plan.end <= curated[n].at
          BY <1>2, <4>1 DEF Covering, WindowWritten
        <4> QED BY <2>1, <4>2 DEF Rewritten
      <3> QED BY <3>2, <3>3
    <2>3. CASE CollectFails
      <3>1. task'["collect"] \in {"waiting", "failed"} /\ category' = 1
        BY <1>1, <2>3, FailTask DEF CollectFails, Base
      <3>2. Category[n] \in 1 .. Categories /\ Categories \in Nat
        BY Bounds
      <3> QED BY <3>1, <3>2
    <2> QED BY <2>2, <2>3
  <1> QED BY <1>2, <1>3, <1>5, <1>6, <1>7 DEF Covering

LEMMA DaysInOrder ==
    ASSUME NEW s \in Int, NEW t \in Int, s <= t
    PROVE  Day(s) <= Day(t) /\ Day(s) \in Int /\ Day(t) \in Int
  <1> DEFINE p == s \div DayLength
             q == t \div DayLength
  <1>1. DayLength \in Nat /\ DayLength >= 1
    BY Bounds
  <1>2. /\ p \in Int /\ p * DayLength <= s /\ s < (p + 1) * DayLength
        /\ q \in Int /\ q * DayLength <= t /\ t < (q + 1) * DayLength
    BY <1>1
  <1> HIDE DEF p, q
  <1>3. ASSUME q + 1 <= p PROVE FALSE
    <2>1. \A x \in Nat : x * DayLength \in Nat
      BY <1>1
    <2>2. p * DayLength = (q + 1) * DayLength + (p - (q + 1)) * DayLength
      BY <1>1, <1>2
    <2>3. /\ (p - (q + 1)) * DayLength \in Nat
          /\ (q + 1) * DayLength \in Int /\ p * DayLength \in Int
      BY <1>1, <1>2, <1>3, <2>1
    <2> QED BY <1>2, <2>2, <2>3
  <1>4. p <= q
    BY <1>2, <1>3
  <1> QED BY <1>2, <1>4 DEF Day, p, q

\* An object of the run's window that a download does not find is named as unreached.
LEMMA InReach ==
    ASSUME Base, Covering, Ready("download"),
           NEW n \in Notices, published[n] # Unset,
           plan.cursor <= published[n], published[n] < plan.end,
           published[n] \notin Unreached
    PROVE  \A found \in Recent : n \in found
  <1>1. "download" \in Tasks
    BY DEF Tasks
  <1>2. run.active /\ task["collect"] = "success" /\ task["plan"] = "success"
    <2>1. run.active /\ task["collect"] = "success"
      BY <1>1, ReadyTask
    <2> QED BY <2>1 DEF Base, InRun
  <1>3. /\ now \in Nat /\ published[n] \in Int /\ published[n] <= now
        /\ published[n] \in Minutes /\ curated[n].at \in Int
        /\ plan.cursor \in Int /\ plan.end \in Int /\ plan.collect \in Int
        /\ plan.download \in Int
    BY Bounds DEF Base, TypeOK, Clock, Times, Minutes, Unset
  <1>4. plan.end - plan.cursor <= plan.collect
    BY <1>2 DEF Base, InRun
  <1>5. plan.end - plan.collect <= published[n]
    BY <1>3, <1>4
  <1>6. curated[n].at # Unset /\ plan.end <= curated[n].at
    BY <1>2, <1>5 DEF Covering, WindowWritten
  <1>7. Looked \in Int /\ ~(plan.end <= Looked) /\ ~(Day(published[n]) < Day(Looked))
    BY <1>3, <1>5 DEF Unreached, Looked
  <1>8. /\ Day(published[n]) <= Day(now)
        /\ Day(published[n]) \in Int /\ Day(now) \in Int /\ Day(Looked) \in Int
    BY <1>3, <1>7, DaysInOrder
  <1>9. Day(published[n]) \in Day(Looked) .. Day(now)
    BY <1>7, <1>8
  <1>10. Looked < curated[n].at
    BY <1>3, <1>6, <1>7
  <1> QED BY <1>6, <1>9, <1>10 DEF Recent

\* A download that succeeds has found the whole window, or names what it did not reach.
LEMMA CoveringDownload ==
    ASSUME Base, [Next]_vars, Covering, Download \/ DownloadFails
    PROVE  Covering'
  <1>1. "download" \in Tasks /\ Ready("download")
    BY DEF Download, DownloadFails, Fail, Tasks
  <1>2. task["plan"] = "success" /\ task["collect"] = "success"
    <2>1. task["collect"] = "success"
      BY <1>1, ReadyTask
    <2> QED BY <2>1 DEF Base, InRun
  <1>3. UNCHANGED <<now, published, plan, cursor, category>>
    BY DEF Download, DownloadFails, cursors
  <1>4. /\ cursor \in Int /\ cursor <= now /\ now \in Int
        /\ plan.cursor \in Int /\ plan.cursor <= plan.end /\ plan.end <= now /\ plan.end \in Int
    <2>1. /\ cursor \in Int /\ plan.cursor \in Int /\ plan.end \in Int /\ now \in Int
      BY Bounds DEF Base, TypeOK, Times, Minutes, Unset
    <2> QED BY <1>2, <2>1 DEF Base, InRun, Clock
  <1>5. task'["plan"] = "success" /\ task'["collect"] = "success"
    BY <1>1, <1>2, SucceedTask, FailTask DEF Download, DownloadFails, Base, Tasks
  <1>6. Covered(cursor)' /\ Covered(plan.cursor)'
    <2>1. \A c \in Int : c <= now /\ Covered(c) => Covered(c)'
      BY CoveredStays
    <2>2. plan.cursor <= now /\ Covered(plan.cursor) /\ Covered(cursor)
      BY <1>2, <1>4 DEF Covering
    <2> QED BY <1>3, <1>4, <2>1, <2>2 DEF Covered
  <1>7. WindowWritten'
    <2>1. now # Unset /\ Rewritten
      BY Rewrites DEF Base, TypeOK, Unset
    <2> QED BY <1>2, <1>3, <1>4, <1>5, <2>1 DEF WindowWritten, Covering, Rewritten
  <1>8. CASE Download
    <2>1. PICK found \in Recent : files' = files \union found
      BY <1>8 DEF Download
    <2>2. Covered(plan.end)'
      <3> SUFFICES ASSUME NEW n \in Notices, published[n] # Unset, published[n] < plan.end
                   PROVE  n \in files' \/ published[n] \in LeftOut'
        BY <1>3 DEF Covered
      <3>1. published[n] \in Int
        BY DEF Base, TypeOK, Times, Unset
      <3>2. CASE published[n] < plan.cursor
        BY <1>3, <1>6, <3>2 DEF Covered
      <3>3. CASE plan.cursor <= published[n]
        <4>1. outside' = outside \union Unreached
          BY <1>8 DEF Download
        <4> QED BY <1>1, <2>1, <3>3, <4>1, InReach DEF LeftOut
      <3> QED BY <1>4, <3>1, <3>2, <3>3
    <2> QED BY <1>2, <1>3, <1>5, <1>6, <1>7, <2>2 DEF Covering
  <1>9. CASE DownloadFails
    <2>1. task'["download"] # "success"
      BY <1>1, <1>9, FailTask DEF DownloadFails, Base
    <2> QED BY <1>2, <1>3, <1>5, <1>6, <1>7, <2>1 DEF Covering
  <1> QED BY <1>8, <1>9

\* The cursor moves to the end of a window that is covered.
LEMMA CoveringMark ==
    ASSUME Base, [Next]_vars, Covering, Mark \/ MarkFails
    PROVE  Covering'
  <1>1. "mark" \in Tasks /\ Ready("mark")
    BY DEF Mark, MarkFails, Fail, Tasks
  <1>2. /\ task["plan"] = "success" /\ task["download"] = "success"
        /\ task["collect"] = "success" /\ plan.end # Unset
    BY <1>1, PlannedBefore
  <1>3. /\ UNCHANGED <<now, published, curated, files, plan, category>>
        /\ cursor' \in {cursor, plan.end}
    BY DEF Mark, MarkFails, stored
  <1>4. /\ cursor \in Int /\ cursor <= now /\ now \in Int
        /\ plan.cursor \in Int /\ plan.cursor <= plan.end /\ plan.end <= now /\ plan.end \in Int
    <2>1. /\ cursor \in Int /\ plan.cursor \in Int /\ plan.end \in Int /\ now \in Int
      BY Bounds DEF Base, TypeOK, Times, Minutes, Unset
    <2> QED BY <1>2, <2>1 DEF Base, InRun, Clock
  <1>5. /\ task'["plan"] = "success" /\ task'["download"] = "success"
        /\ task'["collect"] = "success"
    BY <1>1, <1>2, SucceedTask, FailTask DEF Mark, MarkFails, Base, Tasks
  <1>6. Covered(cursor)' /\ Covered(plan.cursor)' /\ Covered(plan.end)'
    <2>1. \A c \in Int : c <= now /\ Covered(c) => Covered(c)'
      BY CoveredStays
    <2>2. /\ plan.cursor <= now /\ Covered(plan.cursor) /\ Covered(cursor)
          /\ Covered(plan.end)
      BY <1>2, <1>4 DEF Covering
    <2>3. \A n \in Notices : published'[n] # Unset /\ published'[n] < cursor'
                                 => n \in files' \/ published'[n] \in LeftOut'
      <3>1. CASE cursor' = cursor
        BY <1>4, <2>1, <2>2, <3>1 DEF Covered
      <3>2. CASE cursor' = plan.end
        BY <1>4, <2>1, <2>2, <3>2 DEF Covered
      <3> QED BY <1>3, <3>1, <3>2
    <2> QED BY <1>3, <1>4, <2>1, <2>2, <2>3 DEF Covered
  <1>7. WindowWritten'
    BY <1>2, <1>3, <1>5 DEF WindowWritten, Covering
  <1>8. cursor' # Unset
    BY <1>2, <1>3 DEF Covering
  <1> QED BY <1>2, <1>3, <1>5, <1>6, <1>7, <1>8 DEF Covering

LEMMA CoveringStep ==
    Base /\ Covering /\ [Next]_vars => Covering'
  <1> SUFFICES ASSUME Base, Covering, [Next]_vars PROVE Covering'
    OBVIOUS
  <1>1. CASE \/ UNCHANGED vars \/ Tick \/ StartRun
             \/ (\E n \in Notices : Publish(n))
    <2>1. /\ UNCHANGED <<cursor, plan, category, curated>>
          /\ task' = task
      BY <1>1 DEF vars, Tick, StartRun, Publish, stored, cursors
    <2> QED BY <2>1, CoveringKept
  <1>2. CASE EndRun
    <2>1. /\ UNCHANGED <<now, cursor, published, files, marked, onlyLogged, outside>>
          /\ task' = Waiting /\ category' = 1
      BY <1>2 DEF EndRun, stored, cursors
    <2>2. task'["plan"] = "waiting" /\ task'["download"] = "waiting"
      BY <2>1 DEF Waiting, Tasks
    <2>3. Covered(cursor)'
      BY <2>1 DEF Covering, Covered, LeftOut
    <2> QED BY <2>1, <2>2, <2>3 DEF Covering, WindowWritten
  <1>3. CASE Load \/ LoadFails \/ MarkRds \/ MarkRdsFails
    <2>1. UNCHANGED <<cursor, plan, category, curated>>
      BY <1>3 DEF Load, LoadFails, MarkRds, MarkRdsFails, stored, cursors
    <2>2. PICK t \in {"load", "markRds"} : Ready(t) /\ (Succeed(t) \/ Fail(t, {}))
      BY <1>3 DEF Load, LoadFails, MarkRds, MarkRdsFails, Fail
    <2>3. \A u \in {"plan", "collect", "download"} : task'[u] = task[u]
      BY <2>2, SucceedTask, FailTask DEF Base, Tasks
    <2> QED BY <2>1, <2>3, CoveringKept
  <1>4. CASE Plan \/ PlanFails
    BY <1>4, CoveringPlan
  <1>5. CASE Collect \/ CollectFails
    BY <1>5, CoveringCollect
  <1>6. CASE Download \/ DownloadFails
    BY <1>6, CoveringDownload
  <1>7. CASE Mark \/ MarkFails
    BY <1>7, CoveringMark
  <1> QED BY <1>1, <1>2, <1>3, <1>4, <1>5, <1>6, <1>7 DEF Next

\* Behind the collection cursor lies only what has its attachments, what a manifest or
\* the log names, and what a late download or one after midnight did not look at.
THEOREM CursorCoversHolds ==
    ASSUME CursorSet
    PROVE  Spec => []CursorCovers
  <1>1. Covering => CursorCovers
    BY DEF Covering, Covered, CursorCovers
  <1>2. Base /\ Covering /\ [Next]_vars => Covering'
    BY CoveringStep
  <1>3. Init => Covering
    BY CoveringInit DEF Init, Unset
  <1> QED BY <1>1, <1>2, <1>3, BaseHolds, PTL DEF Spec

-------------------------------------------------------------------------------
(* What the RDS cursor has passed.                                          *)

\* What was written from the one time to the other is in bid_table, as it was written,
\* except past midnight.
LoadedTo(from, c) ==
    \A n \in Notices :
        curated[n].at # Unset /\ from <= curated[n].at /\ curated[n].at < c
            => rows[n] = Content(n) \/ PastMidnight(n)

\* Where the loads begin, the first of which is under way as long as no cursor exists.
Begin == IF rdsCursor = Unset THEN plan.cursor ELSE loadedFrom

Loading ==
    /\ rdsCursor # Unset => LoadedTo(loadedFrom, rdsCursor)
    /\ task["load"] = "success" => LoadedTo(Begin, plan.end)

\* An object is rewritten later, and a load writes what the object says.
LEMMA LoadedStays ==
    ASSUME Base, [Next]_vars, NEW from \in Int, NEW c \in Int, c <= now, LoadedTo(from, c)
    PROVE  LoadedTo(from, c)'
  <1>1. now \in Int
    BY DEF Base, TypeOK
  <1>2. /\ \A n \in Notices : \/ curated'[n] = curated[n]
                             \/ curated'[n].at = now
        /\ \A n \in Notices : rows'[n] \in {rows[n], Content(n)}
    <2>1. CASE \/ UNCHANGED vars \/ Tick \/ StartRun \/ EndRun \/ Plan \/ PlanFails
               \/ Mark \/ MarkFails \/ MarkRds \/ MarkRdsFails
               \/ (\E n \in Notices : Publish(n))
      <3>1. UNCHANGED <<curated, rows>>
        BY <2>1 DEF vars, Tick, StartRun, EndRun, Plan, PlanFails, Mark, MarkFails,
                    MarkRds, MarkRdsFails, Publish, stored
      <3> QED BY <3>1
    <2>2. CASE Collect \/ CollectFails \/ Download \/ DownloadFails
      <3>1. rows' = rows
        BY <2>2 DEF Collect, CollectFails, Download, DownloadFails
      <3> QED BY <2>2, <3>1, Rewrites DEF Rewritten
    <2>3. CASE Load \/ LoadFails
      BY <2>3 DEF Load, LoadFails, Upserted, Base, TypeOK
    <2> QED BY <2>1, <2>2, <2>3 DEF Next
  <1> SUFFICES ASSUME NEW n \in Notices, curated'[n].at # Unset, from <= curated'[n].at,
                      curated'[n].at < c
               PROVE  rows'[n] = Content(n)' \/ PastMidnight(n)'
    BY DEF LoadedTo
  <1>3. curated'[n] = curated[n]
    BY <1>1, <1>2
  <1>4. rows[n] = Content(n) \/ PastMidnight(n)
    BY <1>3 DEF LoadedTo
  <1>5. Content(n)' = Content(n)
    BY <1>3 DEF Content
  <1>6. PastMidnight(n)' = PastMidnight(n)
    <2>1. published[n] # Unset
      BY <1>3 DEF Base, Clock
    <2>2. published'[n] = published[n]
      BY <2>1, Grows
    <2> QED BY <1>3, <2>2 DEF PastMidnight, Day
  <1> QED BY <1>2, <1>4, <1>5, <1>6

\* A load that commits brings in everything written before the plan: what is older
\* than its own window has been brought in.
LEMMA LoadReaches ==
    ASSUME Base, Ready("load"), rows' = Upserted, UNCHANGED <<published, curated, plan>>,
           NEW from \in Int,
           \/ rdsCursor = Unset /\ plan.cursor <= from
           \/ rdsCursor # Unset /\ LoadedTo(from, rdsCursor)
    PROVE  LoadedTo(from, plan.end)'
  <1> SUFFICES ASSUME NEW n \in Notices, curated[n].at # Unset, from <= curated[n].at,
                      curated[n].at < plan.end, ~PastMidnight(n)
               PROVE  Upserted[n] = Content(n)
    BY DEF LoadedTo, Content, PastMidnight, Day
  <1>1. plan.end <= now
    BY PlannedBefore
  <1>2. /\ Lookback \in Nat /\ rdsCursor \in Int /\ plan.end \in Int /\ plan.cursor \in Int
        /\ curated[n].at \in Int /\ published[n] \in Int /\ published[n] <= curated[n].at
    BY Bounds DEF Base, TypeOK, Clock, Times, Minutes, Unset
  <1>3. Since \in Int /\ (curated[n].at < Since => rows[n] = Content(n))
    BY <1>2 DEF Since, LoadedTo
  <1>4. CASE n \in Modified
    BY <1>4 DEF Upserted
  <1>5. CASE n \notin Modified /\ curated[n].at < Since
    BY <1>3, <1>5 DEF Upserted
  <1>6. CASE ~(curated[n].at < Since)
    <2>1. /\ Day(Since - Lookback) <= Day(curated[n].at - Lookback)
          /\ Day(Since - Lookback) \in Int /\ Day(curated[n].at - Lookback) \in Int
      BY <1>2, <1>3, <1>6, DaysInOrder
    <2>2. /\ Day(published[n]) <= Day(plan.end)
          /\ Day(published[n]) \in Int /\ Day(plan.end) \in Int
      BY <1>2, DaysInOrder
    <2>3. Day(published[n]) \in Day(Since - Lookback) .. Day(plan.end)
      BY <2>1, <2>2 DEF PastMidnight
    <2>4. curated[n].at \in (Since - Lookback) .. (plan.end - 1)
      BY <1>2, <1>3, <1>6
    <2>5. n \in Modified
      BY <2>3, <2>4 DEF Modified
    <2> QED BY <2>5 DEF Upserted
  <1> QED BY <1>4, <1>5, <1>6

LEMMA LoadingStep == Base /\ Loading /\ [Next]_vars => Loading'
  <1> SUFFICES ASSUME Base, Loading, [Next]_vars PROVE Loading'
    OBVIOUS
  <1>1. \A from, c \in Int : c <= now /\ LoadedTo(from, c) => LoadedTo(from, c)'
    BY LoadedStays
  <1>2. /\ rdsCursor \in Int /\ rdsCursor <= now /\ plan.end \in Int
        /\ loadedFrom \in Int /\ plan.cursor \in Int /\ Begin \in Int
    BY Bounds DEF Base, TypeOK, Times, Minutes, Unset, Clock, Begin
  <1>3. UNCHANGED rds => (rdsCursor' # Unset => LoadedTo(loadedFrom, rdsCursor)')
    BY <1>1, <1>2 DEF Loading, LoadedTo
  <1>4. task["load"] = "success" => plan.end <= now
    <2>1. task["load"] = "success" => task["plan"] = "success"
      BY DEF Base, InRun
    <2> QED BY <2>1 DEF Base, InRun
  <1>5. UNCHANGED <<rds, plan>> /\ task["load"] = "success" => LoadedTo(Begin, plan.end)'
    BY <1>1, <1>2, <1>4 DEF Loading, LoadedTo, Begin
  <1>6. CASE \/ UNCHANGED vars \/ Tick \/ StartRun \/ Collect
             \/ (\E n \in Notices : Publish(n))
    <2>1. /\ UNCHANGED <<rds, plan>>
          /\ task' = task \/ (Ready("collect") /\ Succeed("collect"))
      BY <1>6 DEF vars, Tick, StartRun, Publish, Collect, cursors
    <2>2. task'["load"] = task["load"]
      BY <2>1, SucceedTask DEF Base, Tasks
    <2> QED BY <1>3, <1>5, <2>1, <2>2 DEF Loading
  <1>7. CASE EndRun
    <2>1. UNCHANGED rds /\ task' = Waiting
      BY <1>7 DEF EndRun, cursors
    <2> QED BY <1>3, <2>1 DEF Loading, Waiting, Tasks
  <1>8. CASE Plan \/ PlanFails
    <2>1. Ready("plan") /\ "plan" \in Tasks /\ UNCHANGED rds
      BY <1>8 DEF Plan, PlanFails, Fail, Tasks
    <2>2. task["load"] # "success"
      BY <2>1, ReadyTask DEF Base, InRun
    <2>3. Succeed("plan") \/ \E written \in SUBSET SUBSET Minutes : Fail("plan", written)
      BY <1>8, PlanIs DEF Plan, PlanFails
    <2>4. task'["load"] # "success"
      BY <2>1, <2>2, <2>3, SucceedTask, FailTask DEF Base, Tasks
    <2> QED BY <1>3, <2>1, <2>4 DEF Loading
  <1>9. CASE CollectFails \/ Download \/ DownloadFails \/ Mark \/ MarkFails
    <2>1. UNCHANGED <<rds, plan>>
      BY <1>9 DEF CollectFails, Download, DownloadFails, Mark, MarkFails
    <2>2. \E t \in {"collect", "download", "mark"} : Succeed(t) \/ Fail(t, {})
      BY <1>9 DEF CollectFails, Download, DownloadFails, Mark, MarkFails
    <2>3. task'["load"] = task["load"]
      BY <2>2, SucceedTask, FailTask DEF Base, Tasks
    <2> QED BY <1>3, <1>5, <2>1, <2>3 DEF Loading
  <1>10. CASE Load \/ LoadFails
    <2>1. /\ Ready("load") /\ UNCHANGED <<rds, published, curated, plan>>
          /\ "load" \in Tasks
      BY <1>10 DEF Load, LoadFails, Fail, cursors, Tasks
    <2>2. CASE Load
      <3>1. LoadedTo(Begin, plan.end)'
        <4>1. PICK from \in Int : from = Begin
          BY <1>2
        <4>2. LoadedTo(from, plan.end)'
          BY <1>2, <2>1, <2>2, <4>1, LoadReaches DEF Load, Loading, Begin
        <4> QED BY <2>1, <4>1, <4>2 DEF LoadedTo, Begin
      <3> QED BY <1>3, <2>1, <3>1 DEF Loading
    <2>3. CASE LoadFails
      <3>1. task'["load"] # "success"
        BY <2>1, <2>3, FailTask DEF LoadFails, Base
      <3> QED BY <1>3, <2>1, <3>1 DEF Loading
    <2> QED BY <1>10, <2>2, <2>3
  <1>11. CASE MarkRds \/ MarkRdsFails
    <2>1. /\ Ready("markRds") /\ UNCHANGED <<plan, curated, rows>>
          /\ (UNCHANGED rds \/ MarkLoaded) /\ "markRds" \in Tasks
      BY <1>11 DEF MarkRds, MarkRdsFails, Fail, stored, Tasks
    <2>2. task["load"] = "success" /\ plan.end # Unset
      BY <2>1, PlannedBefore
    <2>3. CASE UNCHANGED rds
      BY <1>3, <1>5, <2>1, <2>2, <2>3 DEF Loading
    <2>4. CASE MarkLoaded
      <3>1. loadedFrom' = Begin /\ rdsCursor' = plan.end
        BY <2>4 DEF MarkLoaded, Begin
      <3>2. PICK from \in Int, c \in Int : from = Begin /\ c = plan.end
        BY <1>2
      <3>3. LoadedTo(from, c)'
        BY <1>1, <1>4, <2>2, <3>2 DEF Loading
      <3>4. LoadedTo(loadedFrom, plan.end)'
        BY <2>1, <3>1, <3>2, <3>3 DEF LoadedTo
      <3> QED BY <2>1, <2>2, <3>1, <3>4 DEF Loading, LoadedTo, Begin
    <2> QED BY <2>1, <2>3, <2>4
  <1> QED BY <1>6, <1>7, <1>8, <1>9, <1>10, <1>11 DEF Next

\* Neither cursor leaves anything behind it undone, however late and however often the
\* tasks fail, but for the causes that the two properties name.
THEOREM CursorsCoverHolds ==
    ASSUME CursorSet
    PROVE  Spec => []CursorsCover
  <1>1. Covering => CursorCovers
    BY DEF Covering, Covered, CursorCovers
  <1>2. Base /\ Loading => RdsCovers
    <2> SUFFICES ASSUME Base, Loading, NEW n \in Notices,
                        curated[n].at # Unset, curated[n].at < rdsCursor,
                        ~(curated[n].at < loadedFrom)
                 PROVE  rows[n] = Content(n) \/ PastMidnight(n)
      BY DEF RdsCovers
    <2>1. curated[n].at \in Times /\ rdsCursor \in Times /\ loadedFrom \in Int
      BY Bounds DEF Base, TypeOK, Minutes
    <2>2. rdsCursor # Unset /\ loadedFrom <= curated[n].at
      BY <2>1, Bounds DEF Times, Unset
    <2> QED BY <2>2 DEF Loading, LoadedTo
  <1>3. Base /\ Covering /\ [Next]_vars => Covering'
    BY CoveringStep
  <1>4. Base /\ Loading /\ [Next]_vars => Loading'
    BY LoadingStep
  <1>5. Init => Covering
    BY CoveringInit DEF Init, Unset
  <1>6. Init => Loading
    BY DEF Init, Loading, LoadedTo, Waiting, Tasks, Unset
  <1>7. CursorsCover <=> CursorCovers /\ RdsCovers
    BY DEF CursorsCover
  <1> QED BY <1>1, <1>2, <1>3, <1>4, <1>5, <1>6, <1>7, BaseHolds, PTL DEF Spec

-------------------------------------------------------------------------------
(* How long a notice takes.                                                 *)

\* The longest time from one cursor to the next run, and from the start of a window to
\* the run that collects it.
Gap == Larger(RunLimit, Period + StartLimit)
Reach == Larger(Gap, CollectMinutes)

\* Every attempt that failed is repeated.
NoneFailed == \A t \in Tasks : task[t] # "failed" /\ tries[t] <= faults

\* An object that no download has passed by is complete, or this run has written it and
\* will complete it; and no run collects a notice long after its publication.
InHand ==
    \A n \in Notices :
        /\ n \in files => curated[n].at # Unset
        /\ curated[n].at # Unset /\ published[n] \notin outside =>
             /\ curated[n].at <= published[n] + Reach + RunLimit
             /\ \/ n \in files /\ curated[n].counted
                \/ /\ task["plan"] = "success" /\ task["download"] # "success"
                   /\ plan.end <= curated[n].at
                   /\ plan.end - plan.collect <= published[n] /\ published[n] <= plan.end
                   /\ run.since <= published[n] + Reach

\* How far behind a run is.
Pace ==
    /\ ~run.active =>
         /\ slot * Period <= cursor /\ now <= cursor + Gap
         /\ rdsCursor # Unset => rdsCursor = cursor
    /\ run.active => slot * Period <= run.since
    /\ run.active /\ task["plan"] # "success" => run.since <= cursor + Gap
    /\ task["plan"] = "success" => run.since <= plan.end - plan.collect + Reach
    /\ task["mark"] = "success" => cursor = plan.end
    /\ task["markRds"] = "success" => rdsCursor = plan.end

\* What the loads have brought in; before the first nothing was there to load.
LoadedSoFar ==
    /\ rdsCursor # Unset => LoadedTo(0, rdsCursor)
    /\ rdsCursor = Unset => \A n \in Notices :
         curated[n].at # Unset => task["plan"] = "success" /\ plan.end <= curated[n].at
    /\ task["load"] = "success" => LoadedTo(0, plan.end)

Delivered(n) == n \in files /\ (rows[n] = "counted" \/ PastMidnight(n))
Owed(n) == published[n] # Unset /\ published[n] \notin LeftOut /\ ~Delivered(n)

\* A run that finds a notice undelivered has not started long after its publication.
Late ==
    \A n \in Notices :
        run.active /\ Owed(n) => run.since <= published[n] + Reach + RunLimit + Gap

OnTime == NoneFailed /\ InHand /\ Pace /\ LoadedSoFar /\ Late
Timely == faults <= Retries => OnTime

LEMMA Limits ==
    /\ Gap \in Nat /\ RunLimit <= Gap /\ Period + StartLimit <= Gap
    /\ Reach \in Nat /\ Gap <= Reach /\ CollectMinutes <= Reach
  BY Bounds DEF Gap, Reach, Larger

\* The times of a state are numbers.
LEMMA Numbers ==
    ASSUME Base
    PROVE  /\ now \in Nat /\ now <= MaxTime /\ cursor \in Int /\ cursor <= now
           /\ rdsCursor \in Int /\ slot \in Int /\ run.since \in Int
           /\ plan.end \in Int /\ plan.collect \in Int /\ plan.cursor \in Int
           /\ plan.download \in Int
           /\ Unset = -1 /\ faults \in Int /\ Retries \in Int
           /\ \A n \in Notices : published[n] \in Int /\ curated[n].at \in Int
           /\ \A t \in Tasks : tries[t] \in Int
  BY Bounds DEF Base, TypeOK, Clock, Times, Minutes, Unset

LEMMA NoneFailedStep ==
    ASSUME Base, NoneFailed, [Next]_vars, faults' <= Retries
    PROVE  NoneFailed'
  <1>1. faults \in Int /\ Retries \in Int /\ \A t \in Tasks : tries[t] \in 0 .. Retries
    BY Bounds DEF Base, TypeOK
  <1>2. CASE \/ UNCHANGED vars \/ Tick \/ StartRun \/ (\E n \in Notices : Publish(n))
             \/ (Collect /\ UNCHANGED <<task, tries, faults>>)
    BY <1>2 DEF vars, Tick, StartRun, Publish, NoneFailed
  <1>3. CASE EndRun
    BY <1>1, <1>3 DEF EndRun, Waiting, NoTries, NoneFailed, Base, TypeOK
  <1>4. CASE \E t \in Tasks : Succeed(t)
    <2>1. PICK t \in Tasks : Succeed(t)
      BY <1>4
    <2>2. task' = [task EXCEPT ![t] = "success"] /\ tries' = tries /\ faults' = faults
      BY <2>1 DEF Succeed
    <2> QED BY <2>2 DEF NoneFailed, Base, TypeOK
  <1>5. CASE \E t \in Tasks : \E written : Fail(t, written)
    <2>1. PICK t \in Tasks : \E written : Fail(t, written)
      BY <1>5
    <2>2. PICK written : Fail(t, written)
      BY <2>1
    <2>3. faults' = faults + 1 /\ tries[t] <= faults
      BY <2>2 DEF Fail, NoneFailed
    <2>4. tries[t] < Retries
      BY <1>1, <2>3
    <2>5. tries' = [tries EXCEPT ![t] = @ + 1] /\ task' = task
      BY <2>2, <2>4 DEF Fail
    <2>6. \A u \in Tasks : tries'[u] <= faults'
      <3> TAKE u \in Tasks
      <3>1. tries[u] <= faults /\ tries \in [Tasks -> 0 .. Retries]
        BY DEF NoneFailed, Base, TypeOK
      <3> QED BY <1>1, <2>3, <2>5, <3>1
    <2> QED BY <2>5, <2>6 DEF NoneFailed
  <1>6. \/ UNCHANGED vars \/ Tick \/ StartRun \/ (\E n \in Notices : Publish(n))
        \/ (Collect /\ UNCHANGED <<task, tries, faults>>)
        \/ EndRun
        \/ (\E t \in Tasks : Succeed(t))
        \/ (\E t \in Tasks : \E written : Fail(t, written))
    BY DEF Next, Tasks, Plan, PlanFails, Collect, CollectFails, Download, DownloadFails,
           Mark, MarkFails, Load, LoadFails, MarkRds, MarkRdsFails
  <1> QED BY <1>2, <1>3, <1>4, <1>5, <1>6

\* If none has failed, a run that ends has done everything.
LEMMA AllDone ==
    ASSUME Base, NoneFailed, EndRun
    PROVE  /\ \A t \in Tasks : task[t] = "success"
           /\ run.active
  <1>1. \A t \in Tasks : task[t] \in {"waiting", "success"}
    BY DEF Base, TypeOK, NoneFailed
  <1>2. run.active /\ \A t \in Tasks : ~Ready(t)
    BY DEF EndRun
  <1>3. task["plan"] = "success"
    BY <1>1, <1>2 DEF Ready, Tasks
  <1>4. task["collect"] = "success"
    BY <1>1, <1>2, <1>3 DEF Ready, Tasks, Upstream
  <1>5. task["download"] = "success"
    BY <1>1, <1>2, <1>4 DEF Ready, Tasks, Upstream
  <1>6. task["mark"] = "success" /\ task["load"] = "success"
    BY <1>1, <1>2, <1>5 DEF Ready, Tasks, Upstream
  <1>7. task["markRds"] = "success"
    BY <1>1, <1>2, <1>6 DEF Ready, Tasks, Upstream
  <1> QED BY <1>2, <1>3, <1>4, <1>5, <1>6, <1>7 DEF Tasks

\* The download finds every object that is not complete, or names its minute.
LEMMA InHandFound ==
    ASSUME Base, InHand, Ready("download"), NEW n \in Notices, curated[n].at # Unset,
           published[n] \notin outside \union Unreached,
           ~(n \in files /\ curated[n].counted)
    PROVE  \A found \in Recent : n \in found
  <1>1. /\ plan.end <= curated[n].at
        /\ plan.end - plan.collect <= published[n] /\ published[n] <= plan.end
    BY DEF InHand
  <1>2. /\ published[n] \in Minutes /\ published[n] \in Int /\ published[n] <= now
        /\ plan.download \in Int /\ now \in Int /\ plan.end \in Int /\ curated[n].at \in Int
    BY Bounds DEF Base, TypeOK, Clock, Times, Minutes, Unset
  <1>3. Looked \in Int /\ ~(plan.end <= Looked) /\ ~(Day(published[n]) < Day(Looked))
    BY <1>1, <1>2 DEF Unreached, Looked
  <1>4. /\ Day(published[n]) <= Day(now)
        /\ Day(published[n]) \in Int /\ Day(now) \in Int /\ Day(Looked) \in Int
    BY <1>2, <1>3, DaysInOrder
  <1>5. Day(published[n]) \in Day(Looked) .. Day(now)
    BY <1>3, <1>4
  <1>6. Looked < curated[n].at
    BY <1>1, <1>2, <1>3
  <1> QED BY <1>5, <1>6 DEF Recent

\* Each step leaves objects complete or in the hands of the run.
LEMMA InHandStep ==
    ASSUME Base, NoneFailed, InHand, Pace, [Next]_vars
    PROVE  InHand'
  <1> USE Limits, Numbers
  <1>1. CASE \/ UNCHANGED vars \/ Tick \/ StartRun \/ Plan \/ PlanFails
             \/ (\E n \in Notices : Publish(n))
    <2>1. UNCHANGED <<curated, files, outside>>
      BY <1>1 DEF vars, Tick, StartRun, Plan, PlanFails, Publish, stored, cursors
    <2>2. \A n \in Notices : curated[n].at # Unset => published'[n] = published[n]
      <3> SUFFICES ASSUME NEW n \in Notices, curated[n].at # Unset
                   PROVE  published'[n] = published[n]
        OBVIOUS
      <3>1. published[n] # Unset
        BY DEF Base, Clock
      <3> QED BY <1>1, <3>1, Grows
    <2>3. \/ task["plan"] # "success"
          \/ /\ task'["plan"] = task["plan"] /\ task'["download"] = task["download"]
             /\ UNCHANGED <<plan, run>>
      <3>1. CASE UNCHANGED vars \/ Tick \/ \E n \in Notices : Publish(n)
        BY <3>1 DEF vars, Tick, Publish
      <3>2. CASE StartRun
        BY <3>2 DEF StartRun, Base, InRun, Waiting, Tasks
      <3>3. CASE Plan \/ PlanFails
        BY <3>3, ReadyTask DEF Plan, PlanFails, Fail, Tasks
      <3> QED BY <1>1, <3>1, <3>2, <3>3
    <2> QED BY <2>1, <2>2, <2>3 DEF InHand
  <1>2. CASE EndRun
    <2>1. task["download"] = "success"
      BY <1>2, AllDone DEF Tasks
    <2>2. UNCHANGED <<curated, files, published, outside>>
      BY <1>2 DEF EndRun, stored, cursors
    <2> QED BY <2>1, <2>2 DEF InHand
  <1>3. CASE Collect \/ CollectFails
    <2>1. PICK put \in SUBSET Wanted(category) : curated' = Collected(put)
      BY <1>3 DEF Collect, CollectFails
    <2>2. /\ Ready("collect") /\ "collect" \in Tasks
          /\ UNCHANGED <<published, files, run, plan, outside>>
      BY <1>3 DEF Collect, CollectFails, Fail, Tasks, cursors
    <2>3. /\ run.active /\ task["plan"] = "success" /\ task["download"] # "success"
      BY <2>2, ReadyTask DEF Base, InRun
    <2>4. task'["plan"] = task["plan"] /\ task'["download"] = task["download"]
      <3>1. task' = task \/ Succeed("collect") \/ Fail("collect", {})
        BY <1>3 DEF Collect, CollectFails
      <3> QED BY <2>2, <3>1, SucceedTask, FailTask DEF Base, Tasks
    <2>5. now <= run.since + RunLimit /\ plan.end <= now /\ now # Unset
      BY <2>3 DEF Base, Clock, InRun
    <2>6. \A n \in put : /\ n \in Notices /\ plan.end - plan.collect <= published[n]
                         /\ published[n] <= plan.end
      BY DEF Wanted
    <2>7. run.since <= plan.end - plan.collect + Reach
      BY <2>3 DEF Pace
    <2>8. \A n \in Notices :
            /\ n \in put => curated'[n].at = now
            /\ n \notin put => curated'[n] = curated[n]
      BY <2>1, WrittenNow
    <2> SUFFICES ASSUME NEW n \in Notices
                 PROVE  /\ n \in files => curated'[n].at # Unset
                        /\ curated'[n].at # Unset /\ published[n] \notin outside =>
                             /\ curated'[n].at <= published[n] + Reach + RunLimit
                             /\ \/ n \in files /\ curated'[n].counted
                                \/ /\ task["plan"] = "success" /\ task["download"] # "success"
                                   /\ plan.end <= curated'[n].at
                                   /\ plan.end - plan.collect <= published[n]
                                   /\ published[n] <= plan.end
                                   /\ run.since <= published[n] + Reach
      BY <2>2, <2>4 DEF InHand
    <2>9. CASE n \in put
      <3>1. run.since <= published[n] + Reach
        BY <2>6, <2>7, <2>9
      <3>2. curated'[n].at = now /\ RunLimit \in Nat
        BY <2>8, <2>9, Bounds
      <3> QED BY <2>3, <2>5, <2>6, <2>9, <3>1, <3>2
    <2>10. CASE n \notin put
      BY <2>8, <2>10 DEF InHand
    <2> QED BY <2>9, <2>10
  <1>4. CASE Download \/ DownloadFails
    <2>1. PICK found \in Recent : \E got \in SUBSET found : \E fixed \in SUBSET got :
            /\ curated' = Counted(fixed) /\ files' = files \union got
            /\ Download => got = found /\ fixed = found
      <3>1. CASE Download
        BY <3>1 DEF Download
      <3>2. CASE DownloadFails
        <4>1. ~Download
          <5>1. faults \in Int /\ faults' = faults + 1
            BY <3>2 DEF DownloadFails, Fail
          <5> QED BY <5>1 DEF Download, Succeed
        <4> QED BY <3>2, <4>1 DEF DownloadFails
      <3> QED BY <1>4, <3>1, <3>2
    <2> PICK got \in SUBSET found : \E fixed \in SUBSET got :
            /\ curated' = Counted(fixed) /\ files' = files \union got
            /\ Download => got = found /\ fixed = found
      BY <2>1
    <2>2. PICK fixed \in SUBSET got :
            /\ curated' = Counted(fixed) /\ files' = files \union got
            /\ Download => got = found /\ fixed = found
      OBVIOUS
    <2>3. /\ Ready("download") /\ "download" \in Tasks
          /\ UNCHANGED <<published, run, plan>>
          /\ outside \subseteq outside'
          /\ Download => outside' = outside \union Unreached
      BY <1>4 DEF Download, DownloadFails, Fail, Tasks
    <2>4. run.active /\ task["plan"] = "success" /\ task["download"] # "success"
      <3>1. run.active /\ task["download"] = "waiting" /\ task["collect"] = "success"
        BY <2>3, ReadyTask
      <3> QED BY <3>1 DEF Base, InRun
    <2>5. /\ task'["plan"] = task["plan"]
          /\ DownloadFails => task'["download"] # "success"
      <3>1. CASE Download
        <4>1. task'["plan"] = task["plan"]
          BY <3>1, <2>3, SucceedTask DEF Download, Base, Tasks
        <4>2. ~DownloadFails
          <5>1. faults' = faults
            BY <3>1 DEF Download, Succeed
          <5>2. DownloadFails => faults' = faults + 1
            BY DEF DownloadFails, Fail
          <5> QED BY <5>1, <5>2
        <4> QED BY <4>1, <4>2
      <3>2. CASE DownloadFails
        BY <3>2, <2>3, FailTask DEF DownloadFails, Base, Tasks
      <3> QED BY <1>4, <3>1, <3>2
    <2>6. now <= run.since + RunLimit /\ plan.end <= now /\ now # Unset
      BY <2>4 DEF Base, Clock, InRun
    <2>7. \A n \in fixed : n \in Notices /\ curated[n].at # Unset
      BY WrittenNow
    <2>8. \A n \in Notices :
            \/ /\ n \in fixed /\ ~curated[n].counted
               /\ curated'[n] = [at |-> now, counted |-> TRUE]
            \/ /\ ~(n \in fixed /\ ~curated[n].counted)
               /\ curated'[n] = curated[n]
      BY <2>2, <2>7, WrittenNow
    <2>9. \A n \in got : curated[n].at # Unset
      BY WrittenNow
    <2>10. ASSUME NEW n \in Notices
           PROVE  /\ n \in files' => curated'[n].at # Unset
                  /\ curated'[n].at # Unset => curated[n].at # Unset
                  /\ curated'[n].at # Unset /\ published[n] \notin outside'
                       => curated'[n].at <= published[n] + Reach + RunLimit
    <3>1. n \in files => curated[n].at # Unset
      BY DEF InHand
    <3>2. CASE n \in fixed /\ ~curated[n].counted /\ curated'[n] = [at |-> now, counted |-> TRUE]
      <4>1. curated[n].at # Unset
        BY <2>7, <3>2
      <4>2. published[n] \notin outside => run.since <= published[n] + Reach
        BY <3>2, <4>1 DEF InHand
      <4>3. curated'[n].at = now /\ RunLimit \in Nat
        BY <3>2, Bounds
      <4> QED BY <2>3, <2>6, <4>1, <4>2, <4>3
    <3>3. CASE curated'[n] = curated[n]
      BY <2>2, <2>3, <2>9, <3>1, <3>3 DEF InHand
    <3> QED BY <2>8, <3>2, <3>3
    <2>11. CASE Download
      <3> SUFFICES ASSUME NEW n \in Notices, curated'[n].at # Unset,
                          published[n] \notin outside'
                   PROVE  n \in files' /\ curated'[n].counted
        BY <2>3, <2>10 DEF InHand
      <3>1. curated[n].at # Unset
        BY <2>10
      <3>2. CASE n \in files /\ curated[n].counted
        BY <2>2, <2>8, <3>2
      <3>3. CASE ~(n \in files /\ curated[n].counted)
        <4>1. n \in found
          BY <2>3, <2>11, <3>1, <3>3, InHandFound
        <4>2. n \in fixed /\ n \in files'
          BY <2>2, <2>11, <4>1
        <4> QED BY <2>8, <4>2
      <3> QED BY <3>2, <3>3
    <2>12. CASE DownloadFails
      <3> SUFFICES ASSUME NEW n \in Notices, curated'[n].at # Unset,
                          published[n] \notin outside'
                   PROVE  \/ n \in files' /\ curated'[n].counted
                          \/ /\ task'["plan"] = "success" /\ task'["download"] # "success"
                             /\ plan.end <= curated'[n].at
                             /\ plan.end - plan.collect <= published[n]
                             /\ published[n] <= plan.end
                             /\ run.since <= published[n] + Reach
        BY <2>3, <2>10 DEF InHand
      <3>1. curated[n].at # Unset
        BY <2>10
      <3>2. CASE n \in files /\ curated[n].counted
        BY <2>2, <2>8, <3>2
      <3>3. CASE ~(n \in files /\ curated[n].counted)
        <4>1. /\ plan.end <= curated[n].at /\ run.since <= published[n] + Reach
              /\ plan.end - plan.collect <= published[n] /\ published[n] <= plan.end
          BY <2>3, <3>1, <3>3 DEF InHand
        <4>2. curated'[n].at = now \/ curated'[n].at = curated[n].at
          BY <2>8
        <4> QED BY <2>4, <2>5, <2>6, <2>12, <4>1, <4>2
      <3> QED BY <3>2, <3>3
    <2> QED BY <1>4, <2>11, <2>12
  <1>5. CASE Mark \/ MarkFails \/ Load \/ LoadFails \/ MarkRds \/ MarkRdsFails
    <2>1. UNCHANGED <<published, curated, files, run, plan, outside>>
      BY <1>5 DEF Mark, MarkFails, Load, LoadFails, MarkRds, MarkRdsFails, stored, cursors
    <2>2. \E t \in {"mark", "load", "markRds"} : Succeed(t) \/ Fail(t, {})
      BY <1>5 DEF Mark, MarkFails, Load, LoadFails, MarkRds, MarkRdsFails
    <2>3. task'["plan"] = task["plan"] /\ task'["download"] = task["download"]
      BY <2>2, SucceedTask, FailTask DEF Base, Tasks
    <2> QED BY <2>1, <2>3 DEF InHand
  <1> QED BY <1>1, <1>2, <1>3, <1>4, <1>5 DEF Next

\* From one cursor to the next run, and from a window to its run.
LEMMA PaceStep ==
    ASSUME Base, Covering, NoneFailed, Pace, [Next]_vars
    PROVE  Pace'
  <1> USE Limits
  <1>1. /\ now \in Nat /\ cursor \in Int /\ cursor <= now /\ slot \in Int
        /\ rdsCursor \in Int /\ run.since \in Int /\ plan.end \in Int /\ plan.collect \in Int
        /\ Period \in Nat \ {0} /\ StartLimit \in Nat /\ RunLimit \in Nat
        /\ CollectMinutes \in Nat
    BY Numbers, Bounds
  <1>2. slot * Period \in Int
    BY <1>1
  <1>3. ~run.active => task = Waiting
    BY DEF Base, InRun
  <1>4. CASE UNCHANGED vars \/ (\E n \in Notices : Publish(n))
    BY <1>4 DEF vars, Publish, cursors, Pace
  <1>5. CASE Tick
    <2>1. /\ now' = now + 1
          /\ UNCHANGED <<slot, cursor, rdsCursor, run, task, plan>>
          /\ ~run.active => now + 1 - (slot + 1) * Period <= StartLimit
      BY <1>5 DEF Tick, cursors
    <2>2. (slot + 1) * Period = slot * Period + Period
      BY <1>1
    <2>3. ~run.active => now' <= cursor + Gap
      BY <1>1, <1>2, <2>1, <2>2 DEF Pace
    <2> QED BY <2>1, <2>3 DEF Pace
  <1>6. CASE StartRun
    <2>1. /\ ~run.active /\ slot' = now \div Period /\ run'.active /\ run'.since = now
          /\ UNCHANGED <<now, cursor, rdsCursor, task, plan>>
      BY <1>6 DEF StartRun, cursors
    <2>2. slot' * Period <= now
      BY <2>1, SlotIs DEF Base
    <2>3. \A t \in Tasks : task'[t] # "success"
      BY <1>3, <2>1 DEF Waiting, Tasks
    <2>4. now <= cursor + Gap
      BY <2>1 DEF Pace
    <2> QED BY <2>1, <2>2, <2>3, <2>4 DEF Pace, Tasks
  <1>7. CASE EndRun
    <2>1. /\ task["plan"] = "success" /\ task["mark"] = "success"
          /\ task["markRds"] = "success" /\ run.active
      BY <1>7, AllDone DEF Tasks
    <2>2. cursor = plan.end /\ rdsCursor = plan.end /\ slot * Period <= run.since
      BY <2>1 DEF Pace
    <2>3. run.since <= plan.end /\ now <= run.since + RunLimit
      BY <2>1 DEF Base, InRun, Clock
    <2>4. /\ ~run'.active /\ task' = Waiting
          /\ UNCHANGED <<now, slot, cursor, rdsCursor>>
      BY <1>7 DEF EndRun, Idle, cursors
    <2>5. \A t \in Tasks : task'[t] # "success"
      BY <2>4 DEF Waiting
    <2>6. slot * Period <= cursor /\ now <= cursor + Gap
      BY <1>1, <1>2, <2>2, <2>3
    <2> QED BY <2>2, <2>4, <2>5, <2>6 DEF Pace, Tasks
  <1>8. CASE Plan
    <2>1. /\ Ready("plan") /\ "plan" \in Tasks /\ Succeed("plan")
          /\ UNCHANGED <<now, slot, run, rdsCursor>> /\ plan' = Planned
      BY <1>8 DEF Plan, Tasks
    <2>2. run.active /\ task["plan"] # "success"
      BY <2>1, ReadyTask
    <2>3. /\ task'["plan"] = "success"
          /\ task'["mark"] # "success" /\ task'["markRds"] # "success"
      BY <2>1, <2>2, SucceedTask DEF Base, InRun, Tasks
    <2>4. run.since <= cursor + Gap /\ run.since <= now /\ slot * Period <= run.since
      BY <2>2 DEF Pace, Base, Clock
    <2>5. From = cursor
      BY DEF From, Covering
    <2>6. run.since <= Planned.end - Planned.collect + Reach
      <3>1. /\ Planned.end = now /\ Planned.collect \in Int
            /\ \/ Planned.collect = CollectMinutes
               \/ Planned.collect = now - cursor
        BY <1>1, <2>5 DEF Planned, Larger
      <3> QED BY <1>1, <2>4, <3>1
    <2> QED BY <2>1, <2>2, <2>3, <2>4, <2>6 DEF Pace
  <1>9. CASE PlanFails
    <2>1. PICK written \in {{}, Skipped} : Fail("plan", written)
      BY <1>9 DEF PlanFails
    <2>2. /\ Ready("plan") /\ "plan" \in Tasks
          /\ UNCHANGED <<now, slot, run, rdsCursor, plan>>
      BY <1>9, <2>1 DEF PlanFails, Fail, Tasks
    <2>3. run.active /\ task["plan"] # "success"
      BY <2>2, ReadyTask
    <2>4. written \in SUBSET SUBSET Minutes
      BY PlanIs
    <2>5. /\ task'["plan"] # "success"
          /\ task'["mark"] # "success" /\ task'["markRds"] # "success"
      BY <2>1, <2>2, <2>3, <2>4, FailTask DEF Base, InRun, Tasks
    <2>6. cursor' \in Int /\ cursor <= cursor'
      <3>1. CASE cursor' = cursor
        BY <1>1, <3>1
      <3>2. CASE cursor' # cursor
        <4>1. Skipped # {} /\ cursor' = SkippedEnd
          BY <1>9, <3>2 DEF PlanFails
        <4>2. GapExceeded
          BY <4>1 DEF Skipped
        <4> QED BY <1>1, <4>1, <4>2, PlanIs DEF Times, Unset
      <3> QED BY <3>1, <3>2
    <2>7. run.since <= cursor + Gap /\ slot * Period <= run.since
      BY <2>3 DEF Pace
    <2>8. run.since <= cursor' + Gap
      BY <1>1, <2>6, <2>7
    <2> QED BY <2>2, <2>3, <2>5, <2>7, <2>8 DEF Pace
  <1>10. CASE Collect \/ CollectFails \/ Download \/ DownloadFails \/ Load \/ LoadFails
    <2>1. UNCHANGED <<now, slot, run, cursor, rdsCursor, plan>>
      BY <1>10 DEF Collect, CollectFails, Download, DownloadFails, Load, LoadFails, cursors
    <2>2. \/ task' = task
          \/ \E t \in {"collect", "download", "load"} : Ready(t) /\ (Succeed(t) \/ Fail(t, {}))
      BY <1>10 DEF Collect, CollectFails, Download, DownloadFails, Load, LoadFails, Fail
    <2>3. \A t \in {"plan", "mark", "markRds"} : task'[t] = task[t]
      BY <2>2, SucceedTask, FailTask DEF Base, Tasks
    <2>4. task' = task \/ run.active
      BY <2>2, ReadyTask DEF Tasks
    <2> QED BY <2>1, <2>3, <2>4 DEF Pace
  <1>11. CASE Mark \/ MarkFails \/ MarkRds \/ MarkRdsFails
    <2>1. PICK t \in {"mark", "markRds"} :
            /\ Ready(t) /\ (Succeed(t) \/ Fail(t, {}))
            /\ UNCHANGED <<now, slot, run, plan>>
            /\ cursor' \in {cursor, plan.end} /\ rdsCursor' \in {rdsCursor, plan.end}
            /\ Succeed("mark") /\ t = "mark" => cursor' = plan.end
            /\ Succeed("markRds") /\ t = "markRds" => rdsCursor' = plan.end
            /\ t # "mark" => cursor' = cursor
            /\ t # "markRds" => rdsCursor' = rdsCursor
      <3>1. faults \in Int
        BY Numbers
      <3>2. \A t \in Tasks : Fail(t, {}) => ~Succeed(t)
        BY <3>1 DEF Fail, Succeed
      <3>3. CASE Mark \/ MarkFails
        <4>1. /\ Ready("mark") /\ (Succeed("mark") \/ Fail("mark", {}))
              /\ UNCHANGED <<now, slot, run, plan, rdsCursor>>
              /\ cursor' \in {cursor, plan.end}
          BY <3>3 DEF Mark, MarkFails, Fail
        <4>2. Succeed("mark") => cursor' = plan.end
          BY <3>2, <3>3 DEF Mark, MarkFails, Tasks
        <4> QED BY <4>1, <4>2
      <3>4. CASE MarkRds \/ MarkRdsFails
        <4>1. /\ Ready("markRds") /\ (Succeed("markRds") \/ Fail("markRds", {}))
              /\ UNCHANGED <<now, slot, run, plan, cursor>>
              /\ rdsCursor' \in {rdsCursor, plan.end}
          BY <3>4 DEF MarkRds, MarkRdsFails, MarkLoaded, Fail
        <4>2. Succeed("markRds") => rdsCursor' = plan.end
          BY <3>2, <3>4 DEF MarkRds, MarkRdsFails, MarkLoaded, Tasks
        <4> QED BY <4>1, <4>2
      <3> QED BY <1>11, <3>3, <3>4
    <2>2. t \in Tasks /\ run.active /\ task["plan"] = "success" /\ task[t] = "waiting"
      BY <2>1, PlannedBefore
    <2>3. /\ \A u \in Tasks : u # t => task'[u] = task[u]
          /\ task'[t] = "success" => Succeed(t)
      BY <2>1, <2>2, SucceedTask, FailTask DEF Base
    <2>4. task'["plan"] = task["plan"]
      BY <2>1, <2>3 DEF Tasks
    <2>5. task'["mark"] = "success" => cursor' = plan.end
      <3>1. CASE t = "mark"
        BY <2>1, <2>3, <3>1
      <3>2. CASE t # "mark"
        BY <2>1, <2>3, <3>2 DEF Pace, Tasks
      <3> QED BY <3>1, <3>2
    <2>6. task'["markRds"] = "success" => rdsCursor' = plan.end
      <3>1. CASE t = "markRds"
        BY <2>1, <2>3, <3>1
      <3>2. CASE t # "markRds"
        BY <2>1, <2>3, <3>2 DEF Pace, Tasks
      <3> QED BY <3>1, <3>2
    <2> QED BY <2>1, <2>2, <2>4, <2>5, <2>6 DEF Pace
  <1> QED BY <1>4, <1>5, <1>6, <1>7, <1>8, <1>9, <1>10, <1>11 DEF Next

\* A load that commits brings in everything written before the plan, the first one too.
LEMMA LoadReachesPlan ==
    ASSUME Base, LoadedSoFar, Ready("load"), rows' = Upserted,
           UNCHANGED <<published, curated, plan>>
    PROVE  LoadedTo(0, plan.end)'
  <1>1. CASE rdsCursor = Unset
    <2>1. \A n \in Notices : curated[n].at # Unset => plan.end <= curated[n].at
      BY <1>1 DEF LoadedSoFar
    <2>2. \A n \in Notices : ~(curated[n].at # Unset /\ curated[n].at < plan.end)
      BY <2>1, Numbers
    <2> QED BY <2>2 DEF LoadedTo
  <1>2. CASE rdsCursor # Unset
    BY <1>2, LoadReaches DEF LoadedSoFar
  <1> QED BY <1>1, <1>2

LEMMA LoadedSoFarStep ==
    ASSUME Base, NoneFailed, Pace, LoadedSoFar, [Next]_vars
    PROVE  LoadedSoFar'
  <1> DEFINE Written(n) == curated[n].at # Unset
  <1>1. \A c \in Int : c <= now /\ LoadedTo(0, c) => LoadedTo(0, c)'
    BY LoadedStays
  <1>2. rdsCursor \in Int /\ rdsCursor <= now /\ plan.end \in Int
    BY DEF Base, TypeOK, Times, Unset, Clock
  <1>3. rdsCursor # Unset /\ rdsCursor' = rdsCursor => LoadedTo(0, rdsCursor)'
    BY <1>1, <1>2 DEF LoadedSoFar, LoadedTo
  <1>4. task["load"] = "success" => /\ plan.end <= now /\ LoadedTo(0, plan.end)
    <2>1. task["load"] = "success" => task["plan"] = "success"
      BY DEF Base, InRun
    <2> QED BY <2>1 DEF Base, InRun, LoadedSoFar
  <1>5. task["load"] = "success" /\ plan' = plan => LoadedTo(0, plan.end)'
    BY <1>1, <1>2, <1>4 DEF LoadedTo
  <1>6. CASE UNCHANGED vars \/ Tick \/ StartRun \/ (\E n \in Notices : Publish(n))
    <2>1. UNCHANGED <<curated, rdsCursor, plan, task>>
      BY <1>6 DEF vars, Tick, StartRun, Publish, cursors, stored
    <2> QED BY <1>3, <1>5, <2>1 DEF LoadedSoFar
  <1>7. CASE EndRun
    <2>1. rdsCursor = plan.end /\ task["plan"] = "success"
      BY <1>7, AllDone DEF Pace, Tasks
    <2>2. plan.end # Unset
      <3>1. run.since <= plan.end /\ run.since \in 0 .. MaxTime
        BY <2>1 DEF Base, InRun, TypeOK
      <3> QED BY <1>2, <3>1, Bounds DEF Unset
    <2>3. rdsCursor' = rdsCursor /\ task'["load"] # "success"
      BY <1>7 DEF EndRun, cursors, Waiting, Tasks
    <2> QED BY <1>3, <2>1, <2>2, <2>3 DEF LoadedSoFar
  <1>8. CASE Plan \/ PlanFails
    <2>1. /\ Ready("plan") /\ "plan" \in Tasks /\ UNCHANGED <<rdsCursor, curated>>
      BY <1>8 DEF Plan, PlanFails, Fail, Tasks, stored
    <2>2. task["plan"] = "waiting"
      BY <2>1, ReadyTask
    <2>3. task["load"] # "success"
      BY <2>2 DEF Base, InRun
    <2>4. Succeed("plan") \/ \E written \in SUBSET SUBSET Minutes : Fail("plan", written)
      BY <1>8, PlanIs DEF Plan, PlanFails
    <2>5. task'["load"] # "success"
      BY <2>1, <2>3, <2>4, SucceedTask, FailTask DEF Base, Tasks
    <2>6. rdsCursor = Unset => \A n \in Notices : ~Written(n)
      BY <2>2 DEF LoadedSoFar
    <2> QED BY <1>3, <2>1, <2>5, <2>6 DEF LoadedSoFar
  <1>9. CASE Collect \/ CollectFails \/ Download \/ DownloadFails
    <2>1. UNCHANGED <<rdsCursor, plan>>
      BY <1>9 DEF Collect, CollectFails, Download, DownloadFails, cursors
    <2>2. PICK t \in {"collect", "download"} :
            Ready(t) /\ (task' = task \/ Succeed(t) \/ Fail(t, {}))
      BY <1>9 DEF Collect, CollectFails, Download, DownloadFails, Fail
    <2>3. task'["load"] = task["load"] /\ task'["plan"] = task["plan"]
      BY <2>2, SucceedTask, FailTask DEF Base, Tasks
    <2>4. task["plan"] = "success"
      BY <2>2, ReadyTask DEF Base, InRun, Tasks
    <2>5. plan.end <= now
      BY <2>4 DEF Base, InRun
    <2>6. \A n \in Notices : curated'[n] = curated[n] \/ curated'[n].at = now
      BY <1>9, Rewrites DEF Rewritten
    <2>7. rdsCursor = Unset => \A n \in Notices :
            curated'[n].at # Unset => plan.end <= curated'[n].at
      BY <2>5, <2>6 DEF LoadedSoFar
    <2> QED BY <1>3, <1>5, <2>1, <2>3, <2>4, <2>7 DEF LoadedSoFar
  <1>10. CASE Mark \/ MarkFails
    <2>1. UNCHANGED <<rdsCursor, plan, curated>>
      BY <1>10 DEF Mark, MarkFails, stored
    <2>2. Succeed("mark") \/ Fail("mark", {})
      BY <1>10 DEF Mark, MarkFails
    <2>3. task'["load"] = task["load"] /\ task'["plan"] = task["plan"]
      BY <2>2, SucceedTask, FailTask DEF Base, Tasks
    <2> QED BY <1>3, <1>5, <2>1, <2>3 DEF LoadedSoFar
  <1>11. CASE Load \/ LoadFails
    <2>1. /\ Ready("load") /\ UNCHANGED <<rdsCursor, published, curated, plan>> /\ "load" \in Tasks
      BY <1>11 DEF Load, LoadFails, Fail, cursors, Tasks
    <2>2. task'["plan"] = task["plan"]
      BY <1>11, <2>1, SucceedTask, FailTask DEF Load, LoadFails, Base, Tasks
    <2>3. CASE Load
      BY <1>3, <2>1, <2>2, <2>3, LoadReachesPlan DEF Load, LoadedSoFar
    <2>4. CASE LoadFails
      <3>1. task'["load"] # "success"
        BY <2>1, <2>4, FailTask DEF LoadFails, Base
      <3> QED BY <1>3, <2>1, <2>2, <3>1 DEF LoadedSoFar
    <2> QED BY <1>11, <2>3, <2>4
  <1>12. CASE MarkRds \/ MarkRdsFails
    <2>1. /\ Ready("markRds") /\ UNCHANGED <<plan, curated, rows>>
          /\ rdsCursor' \in {rdsCursor, plan.end} /\ "markRds" \in Tasks
      BY <1>12 DEF MarkRds, MarkRdsFails, MarkLoaded, Fail, stored, Tasks
    <2>2. task["load"] = "success" /\ plan.end # Unset
      BY <2>1, PlannedBefore
    <2>3. task'["load"] = task["load"] /\ task'["plan"] = task["plan"]
      <3>1. Succeed("markRds") \/ Fail("markRds", {})
        BY <1>12 DEF MarkRds, MarkRdsFails
      <3> QED BY <2>1, <3>1, SucceedTask, FailTask DEF Base, Tasks
    <2>4. LoadedTo(0, plan.end)'
      BY <1>5, <2>1, <2>2
    <2>5. CASE rdsCursor' = rdsCursor
      BY <1>3, <2>1, <2>3, <2>4, <2>5 DEF LoadedSoFar
    <2>6. CASE rdsCursor' = plan.end
      BY <2>1, <2>2, <2>4, <2>6 DEF LoadedSoFar, LoadedTo
    <2> QED BY <2>1, <2>5, <2>6
  <1> QED BY <1>6, <1>7, <1>8, <1>9, <1>10, <1>11, <1>12 DEF Next

-------------------------------------------------------------------------------
(* Notices owed.                                                            *)

\* Between two runs a notice is owed only if its object was written at or after the end
\* of the last plan, or it was published then.
LEMMA OwedIdle ==
    ASSUME Base, Covering, InHand, Pace, LoadedSoFar, ~run.active,
           NEW n \in Notices, Owed(n)
    PROVE  now <= published[n] + Reach + RunLimit + Gap
  <1>1. /\ task["plan"] # "success" /\ now <= cursor + Gap
        /\ rdsCursor # Unset => rdsCursor = cursor
    BY DEF Base, InRun, Waiting, Tasks, Pace
  <1>2. /\ now \in Nat /\ cursor \in Int /\ published[n] \in Int /\ curated[n].at \in Int
        /\ RunLimit \in Nat
    BY Numbers, Bounds
  <1>3. CASE curated[n].at = Unset
    <2>1. n \notin files
      BY <1>3 DEF InHand
    <2>2. ~(published[n] < cursor)
      BY <2>1 DEF Owed, Covering, Covered
    <2> QED BY <1>1, <1>2, <2>2, Limits
  <1>4. CASE curated[n].at # Unset
    <2>1. /\ n \in files /\ curated[n].counted
          /\ curated[n].at <= published[n] + Reach + RunLimit
      BY <1>1, <1>4 DEF InHand, Owed, LeftOut
    <2>2. rows[n] # Content(n) /\ ~PastMidnight(n)
      BY <2>1 DEF Owed, Delivered, Content
    <2>3. rdsCursor # Unset
      BY <1>1, <1>4 DEF LoadedSoFar
    <2>4. ~(curated[n].at < cursor)
      <3>1. 0 <= curated[n].at
        BY <1>4, Bounds DEF Base, TypeOK, Times, Unset
      <3> QED BY <1>1, <2>2, <2>3, <1>4, <3>1 DEF LoadedSoFar, LoadedTo
    <2> QED BY <1>1, <1>2, <2>1, <2>4, Limits
  <1> QED BY <1>3, <1>4

\* What was written past midnight is not written earlier later on.
LEMMA PastMidnightStays ==
    ASSUME Base, [Next]_vars, NEW n \in Notices, curated[n].at # Unset, PastMidnight(n)
    PROVE  PastMidnight(n)'
  <1>1. published[n] # Unset /\ curated[n].at <= now
    BY DEF Base, Clock
  <1>2. published'[n] = published[n]
    BY <1>1, Grows
  <1>3. curated'[n] = curated[n] \/ curated'[n].at = now
    <2>1. CASE Collect \/ CollectFails \/ Download \/ DownloadFails
      BY <2>1, Rewrites DEF Rewritten
    <2>2. CASE ~(Collect \/ CollectFails \/ Download \/ DownloadFails)
      BY <2>2 DEF Next, vars, Tick, StartRun, EndRun, Plan, PlanFails, Mark, MarkFails, Load,
                  LoadFails, MarkRds, MarkRdsFails, Publish, stored
    <2> QED BY <2>1, <2>2
  <1>4. /\ curated[n].at \in Int /\ published[n] \in Int /\ now \in Int /\ Lookback \in Nat
        /\ curated[n].at <= curated'[n].at /\ curated'[n].at \in Int
    BY <1>1, <1>3, Numbers, Bounds
  <1>5. /\ Day(curated[n].at - Lookback) <= Day(curated'[n].at - Lookback)
        /\ Day(curated[n].at - Lookback) \in Int /\ Day(curated'[n].at - Lookback) \in Int
        /\ Day(published[n]) \in Int
    BY <1>4, DaysInOrder
  <1>6. Day(published[n]) < Day(curated'[n].at - Lookback)
    BY <1>5 DEF PastMidnight
  <1> QED BY <1>2, <1>6 DEF PastMidnight, Day

\* What has been delivered stays so, unless a later download passes it by.
LEMMA DeliveredStays ==
    ASSUME Base, InHand, [Next]_vars, NEW n \in Notices, Delivered(n),
           published[n] \notin LeftOut
    PROVE  Delivered(n)'
  <1>1. n \in files' /\ curated[n].at # Unset
    BY Grows DEF Delivered, InHand
  <1>2. CASE PastMidnight(n)
    BY <1>1, <1>2, PastMidnightStays DEF Delivered
  <1>3. CASE rows[n] = "counted" /\ (Load \/ LoadFails)
    <2>1. Ready("load")
      BY <1>3 DEF Load, LoadFails, Fail
    <2>2. task["download"] = "success"
      BY <2>1, PlannedBefore
    <2>3. curated[n].counted
      BY <1>1, <2>2 DEF InHand, LeftOut
    <2>4. rows'[n] \in {rows[n], Content(n)}
      BY <1>3 DEF Load, LoadFails, Upserted, Base, TypeOK
    <2> QED BY <1>1, <1>3, <2>3, <2>4 DEF Delivered, Content
  <1>4. CASE rows[n] = "counted" /\ ~(Load \/ LoadFails)
    <2>1. rows' = rows
      BY <1>4 DEF Next, vars, stored, Tick, Publish, StartRun, EndRun, Plan, PlanFails, Collect,
           CollectFails, Download, DownloadFails, Mark, MarkFails, MarkRds, MarkRdsFails
    <2> QED BY <1>1, <1>4, <2>1 DEF Delivered
  <1> QED BY <1>2, <1>3, <1>4 DEF Delivered

LEMMA LateStep ==
    ASSUME Base, Covering, InHand, Pace, LoadedSoFar, Late, [Next]_vars
    PROVE  Late'
  <1> SUFFICES ASSUME NEW n \in Notices, run'.active, Owed(n)'
               PROVE  run'.since <= published'[n] + Reach + RunLimit + Gap
    BY DEF Late
  <1>1. /\ now \in Nat /\ run.since \in Int /\ published[n] \in Int
        /\ RunLimit \in Nat
    BY Numbers, Bounds
  <1>2. published'[n] = published[n] => Owed(n)
    <2>1. published'[n] = published[n] => published[n] # Unset /\ published[n] \notin LeftOut
      BY Grows DEF Owed
    <2> QED BY <2>1, DeliveredStays DEF Owed
  <1>3. CASE StartRun
    <2>1. ~run.active /\ run'.since = now /\ published' = published
      BY <1>3 DEF StartRun
    <2> QED BY <1>2, <2>1, OwedIdle
  <1>4. CASE published'[n] # published[n]
    <2>1. published'[n] = now
      BY <1>4, Grows
    <2>2. run' = run
      BY <1>3, <1>4 DEF Next, vars, Tick, Publish, StartRun, EndRun, Plan, PlanFails, Collect,
           CollectFails, Download, DownloadFails, Mark, MarkFails, Load, LoadFails,
           MarkRds, MarkRdsFails
    <2>3. run.since <= now
      BY <2>2 DEF Base, Clock
    <2> QED BY <1>1, <2>1, <2>2, <2>3, Limits
  <1>5. CASE published'[n] = published[n] /\ run' = run
    BY <1>2, <1>5 DEF Late
  <1>6. run' = run \/ StartRun
    <2>1. ~EndRun
      BY DEF EndRun, Idle
    <2> QED BY <2>1 DEF Next, vars, Tick, Publish, StartRun, Plan, PlanFails, Collect,
           CollectFails, Download, DownloadFails, Mark, MarkFails, Load, LoadFails,
           MarkRds, MarkRdsFails
  <1> QED BY <1>3, <1>4, <1>5, <1>6

LEMMA TimelyStep ==
    Base /\ Covering /\ Timely /\ [Next]_vars => Timely'
  <1> SUFFICES ASSUME Base, Covering, Timely, [Next]_vars, faults' <= Retries
               PROVE  OnTime'
    BY Bounds DEF Timely
  <1>1. faults <= Retries
    <2>1. faults' = faults \/ faults' = faults + 1
      BY DEF Next, vars, Tick, Publish, StartRun, EndRun, Plan, PlanFails, Collect,
           CollectFails, Download, DownloadFails, Mark, MarkFails, Load, LoadFails,
           MarkRds, MarkRdsFails, Succeed, Fail
    <2> QED BY <2>1, Numbers
  <1>2. OnTime
    BY <1>1 DEF Timely
  <1>3. NoneFailed'
    BY <1>2, NoneFailedStep DEF OnTime
  <1>4. InHand'
    BY <1>2, InHandStep DEF OnTime
  <1>5. Pace'
    BY <1>2, PaceStep DEF OnTime
  <1>6. LoadedSoFar'
    BY <1>2, LoadedSoFarStep DEF OnTime
  <1>7. Late'
    BY <1>2, LateStep DEF OnTime
  <1> QED BY <1>3, <1>4, <1>5, <1>6, <1>7 DEF OnTime

LEMMA TimelyInit == Init /\ CursorSet => Timely
  <1> SUFFICES ASSUME Init, CursorSet PROVE OnTime
    BY DEF Timely
  <1>1. NoneFailed
    BY DEF Init, NoneFailed, Waiting, NoTries
  <1>2. InHand
    BY DEF Init, InHand
  <1>3. Pace
    <2>1. slot * Period <= 0
      <3>1. slot = -1 /\ Period \in Nat
        BY Bounds DEF Init, Unset
      <3> QED BY <3>1
    <2>2. now = 0 /\ cursor = 0 /\ now <= cursor + Gap
      BY Limits DEF Init
    <2> QED BY <2>1, <2>2 DEF Init, Pace, Idle, Waiting, Tasks
  <1>4. LoadedSoFar
    BY DEF Init, LoadedSoFar, LoadedTo, Waiting, Tasks
  <1>5. Late
    BY DEF Init, Late, Idle
  <1> QED BY <1>1, <1>2, <1>3, <1>4, <1>5 DEF OnTime

\* Not more attempts have failed than a retry absorbs: then every notice whose minute was
\* not left out has its attachments and, but past midnight, its corrected row within the
\* time from a window to its run, from a cursor to the next run, and of two runs.
THEOREM DeliveredInTimeHolds ==
    ASSUME CursorSet, Reach + Gap + 2 * RunLimit < Deadline
    PROVE  Spec => []DeliveredInTime
  <1>1. Init => Covering /\ Timely
    BY CoveringInit, TimelyInit DEF Init, Unset
  <1>2. Base /\ Covering /\ [Next]_vars => Covering'
    BY CoveringStep
  <1>3. Base /\ Covering /\ Timely /\ [Next]_vars => Timely'
    BY TimelyStep
  <1>4. Base /\ Covering /\ Timely => DeliveredInTime
    <2> SUFFICES ASSUME Base, Covering, Timely, faults <= Retries,
                        NEW n \in Notices, published[n] + Deadline <= now, Owed(n)
                 PROVE  FALSE
      BY DEF DeliveredInTime, Owed, Delivered
    <2>1. OnTime
      BY DEF Timely
    <2>2. /\ now \in Nat /\ run.since \in Int /\ published[n] \in Int
          /\ RunLimit \in Nat /\ Deadline \in Nat
      BY Numbers, Bounds
    <2>3. CASE run.active
      <3>1. run.since <= published[n] + Reach + RunLimit + Gap
        BY <2>1, <2>3 DEF OnTime, Late
      <3>2. now <= run.since + RunLimit
        BY <2>3 DEF Base, Clock
      <3> QED BY <2>2, <3>1, <3>2, Limits
    <2>4. CASE ~run.active
      <3>1. now <= published[n] + Reach + RunLimit + Gap
        BY <2>1, <2>4, OwedIdle DEF OnTime
      <3> QED BY <2>2, <3>1, Limits
    <2> QED BY <2>3, <2>4
  <1> QED BY <1>1, <1>2, <1>3, <1>4, BaseHolds, PTL DEF Spec

===============================================================================
