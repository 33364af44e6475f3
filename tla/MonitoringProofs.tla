--------------------------- MODULE MonitoringProofs ---------------------------
(***************************************************************************)
(* Theorems about the programs that watch the pipeline: the statistics of  *)
(* the collection (HourlyStats), for any services, periods, hours and      *)
(* lateness, and the report on the attachments (StatusReport), for any     *)
(* files and writes and any threshold.                                     *)
(***************************************************************************)
EXTENDS HourlyStats, StatusReport, Functions, FiniteSetTheorems, WellFoundedInduction,
        TLAPS

-------------------------------------------------------------------------------
(* Hours and windows.                                                       *)

LEMMA Constants ==
    /\ Len(Services) \in Nat /\ DOMAIN Services = 1 .. Len(Services)
    /\ Len(Services) >= 1
    /\ Biz = {Services[i] : i \in 1 .. Len(Services)}
    /\ \A i \in 1 .. Len(Services) : Services[i] \in Biz
  BY StatsAssumption DEF Biz

LEMMA HourBounds ==
    ASSUME NEW t \in Int
    PROVE  HourOf(t) \in Int /\ HourOf(t) * Hour <= t /\ t < (HourOf(t) + 1) * Hour
  BY StatsAssumption DEF HourOf

LEMMA HourIs ==
    ASSUME NEW t \in Int, NEW h \in Int
    PROVE  HourOf(t) = h <=> (h * Hour <= t /\ t < (h + 1) * Hour)
  BY StatsAssumption DEF HourOf

LEMMA HourMonotone ==
    ASSUME NEW t \in Int, NEW u \in Int, t <= u
    PROVE  HourOf(t) <= HourOf(u)
  BY StatsAssumption DEF HourOf

LEMMA HourPassed ==
    ASSUME NEW t \in Int, NEW h \in Int
    PROVE  (h + 1) * Hour <= t <=> h < HourOf(t)
  BY StatsAssumption DEF HourOf

LEMMA HourType == ASSUME NEW t \in Times PROVE HourOf(t) \in Hours
  <1>1. HourOf(t) \in Nat /\ HourOf(t) <= HourOf(MaxTime) /\ HourOf(MaxTime) \in Nat
    BY StatsAssumption, HourMonotone DEF Times, HourOf
  <1> QED BY <1>1 DEF Hours, HourOf

LEMMA TouchedType ==
    ASSUME NEW t \in Times, NEW u \in Times
    PROVE  Touched(t, u) \subseteq Hours
  <1>1. HourOf(t) \in Hours /\ HourOf(u) \in Hours
    BY HourType
  <1> DEFINE top == MaxTime \div Hour
  <1>2. top \in Int
    BY StatsAssumption
  <1>3. Hours = 0 .. top
    BY DEF Hours
  <1> HIDE DEF top
  <1> QED BY <1>1, <1>2, <1>3 DEF Touched

LEMMA HourEnd ==
    ASSUME NEW t \in Int, t % Hour = 0
    PROVE  HourOf(t - 1) = HourOf(t) - 1 /\ HourOf(t) * Hour = t
  BY StatsAssumption DEF HourOf

\* Multiples of the period: the next one, and the beginning of an hour.
LEMMA Multiple ==
    ASSUME NEW t \in Int
    PROVE  t % Period = 0 <=> \E k \in Int : t = k * Period
  <1>1. t % Period = 0 => \E k \in Int : t = k * Period
    <2>1. t % Period = 0 => t = (t \div Period) * Period /\ t \div Period \in Int
      BY StatsAssumption
    <2> QED BY <2>1
  <1>2. ASSUME NEW k \in Int, t = k * Period PROVE t % Period = 0
    BY <1>2, StatsAssumption
  <1> QED BY <1>1, <1>2

LEMMA NextMultiple ==
    ASSUME NEW t \in Int, NEW u \in Int, t % Period = 0, u % Period = 0,
           t < u, u <= t + Period
    PROVE  u = t + Period
  <1>1. PICK k \in Int : t = k * Period
    BY Multiple
  <1>2. PICK l \in Int : u = l * Period
    BY Multiple
  <1>3. k < l
    BY <1>1, <1>2, StatsAssumption
  <1>4. l * Period <= (k + 1) * Period
    BY <1>1, <1>2, StatsAssumption
  <1>5. l <= k + 1
    BY <1>4, StatsAssumption
  <1>6. l = k + 1
    BY <1>3, <1>5
  <1> QED BY <1>1, <1>2, <1>6, StatsAssumption

LEMMA HourMultiple == ASSUME NEW h \in Int PROVE (h * Hour) % Period = 0
  <1>0. Hour \in Int /\ Period \in Int /\ Hour % Period = 0
    BY StatsAssumption
  <1>1. PICK m \in Int : Hour = m * Period
    BY <1>0, Multiple
  <1>2. ASSUME NEW p \in Int PROVE h * (m * p) = (h * m) * p /\ h * m \in Int
    OBVIOUS
  <1>3. h * Hour = (h * m) * Period /\ h * m \in Int /\ h * Hour \in Int
    BY <1>0, <1>1, <1>2
  <1> QED BY <1>3, Multiple

LEMMA SumMultiple ==
    ASSUME NEW t \in Int, NEW u \in Int, u % Period = 0
    PROVE  /\ t % Period = 0 <=> (t - u) % Period = 0
           /\ t % Period = 0 <=> (t + u) % Period = 0
  <1>1. PICK k \in Int : u = k * Period
    BY Multiple
  <1>2. ASSUME NEW l \in Int
        PROVE  /\ t = l * Period <=> t - u = (l - k) * Period
               /\ t = l * Period <=> t + u = (l + k) * Period
    BY <1>1, StatsAssumption
  <1>3. \A l \in Int : l - k \in Int /\ l + k \in Int /\ (l + k) - k = l /\ (l - k) + k = l
    BY <1>1
  <1> QED BY <1>2, <1>3, Multiple

LEMMA ExpectedIs ==
    ASSUME NEW h \in Hours, NEW t \in Times
    PROVE  t \in Expected(h) <=> HourOf(t) = h /\ t % Period = 0
  <1>1. (h * Hour) % Period = 0 /\ h * Hour \in Int
    BY HourMultiple, StatsAssumption DEF Hours
  <1>2. t \in Int
    BY DEF Times
  <1>3. t % Period = 0 <=> (t - h * Hour) % Period = 0
    BY <1>1, <1>2, SumMultiple
  <1> QED BY <1>3 DEF Expected

-------------------------------------------------------------------------------
(* Types.  That they are kept needs the order of the cursor, the window and *)
(* the clock, and that the window in hand has been counted.                 *)

Ordered ==
    /\ cursor <= now /\ start <= now /\ manifest.at <= now
    /\ phase # "idle" => now > 0

Counted == phase \in {"merge", "finalize"} => \A b \in Biz : five[start][b].files \in Nat

Typed == TypeOK /\ Ordered /\ Counted

LEMMA TypedInit == Init => Typed
  <1> SUFFICES ASSUME Init PROVE Typed
    OBVIOUS
  <1> USE DEF Init
  <1>1. TypeOK
    <2>1. None \in Window /\ NoHour \in HourObject
      BY DEF Window, HourObject, None, NoHour, Empty
    <2>2. 0 \in Times /\ NoManifest \in [at : Times \union {-1}, files : [Biz -> Nat]]
      BY StatsAssumption DEF Times, NoManifest, NoFiles
    <2>3. five \in [Times -> [Biz -> Window]] /\ hourly \in [Hours -> [Biz -> HourObject]]
      BY <2>1
    <2>4. tally \in [Hours -> [Biz -> Nat]]
      OBVIOUS
    <2>5. next \in DOMAIN Services /\ tries \in 0 .. Retries /\ faults \in 0 .. MaxFaults
      BY Constants, StatsAssumption
    <2> QED BY <2>2, <2>3, <2>4, <2>5 DEF TypeOK, Phases
  <1>2. Ordered /\ Counted
    BY DEF Ordered, Counted, NoManifest
  <1> QED BY <1>1, <1>2 DEF Typed

LEMMA TypedStartRun == Typed /\ StartRun => Typed'
  <1> SUFFICES ASSUME Typed, StartRun PROVE Typed'
    OBVIOUS
  <1> USE DEF Typed
  <1>1. PICK t \in (now + 1) .. MaxTime :
          /\ now' = t
          /\ start' = IF t - cursor > GapThreshold THEN t - CollectMinutes ELSE cursor
          /\ cursor' = start'
          /\ disturbed' \subseteq disturbed \union Touched(now, t) \union Touched(cursor, t)
    BY DEF StartRun
  <1>2. t \in Times /\ t > now /\ t > 0
    BY <1>1, StatsAssumption DEF TypeOK, Times
  <1>3. start' \in Times /\ start' <= t
    BY <1>1, <1>2, StatsAssumption DEF TypeOK, Ordered, Times
  <1>4. disturbed' \subseteq Hours
    <2>1. Touched(now, t) \subseteq Hours /\ Touched(cursor, t) \subseteq Hours
      BY <1>2, TouchedType DEF TypeOK
    <2> QED BY <2>1, <1>1 DEF TypeOK
  <1>5. TypeOK'
    BY <1>1, <1>2, <1>3, <1>4 DEF TypeOK, StartRun, Phases
  <1>6. Ordered' /\ Counted'
    BY <1>1, <1>2, <1>3 DEF StartRun, Ordered, Counted, TypeOK, Times
  <1> QED BY <1>5, <1>6

LEMMA ManifestCounts == ASSUME NEW files \in Manifests PROVE files \in [Biz -> Nat]
  BY Constants DEF Manifests

LEMMA FilesFound == TypeOK => FindLatestDownloadManifest \in [Biz -> Nat]
  BY DEF TypeOK, FindLatestDownloadManifest, NoFiles

LEMMA CountType ==
    ASSUME TypeOK, NEW files \in [Biz -> Nat], Count(files)
    PROVE  tally' \in [Hours -> [Biz -> Nat]]
  <1> DEFINE h == HourOf(start)
  <1>1. tally \in [Hours -> [Biz -> Nat]] /\ h \in Hours
    BY HourType DEF TypeOK
  <1>2. [b \in Biz |-> tally[h][b] + files[b]] \in [Biz -> Nat]
    BY <1>1
  <1>3. tally' = [tally EXCEPT ![h] = [b \in Biz |-> tally[h][b] + files[b]]]
    BY <1>1 DEF Count
  <1> QED BY <1>1, <1>2, <1>3

LEMMA TypedDownload ==
    Typed /\ (Download \/ DownloadAgain \/ DownloadFails) => Typed'
  <1> SUFFICES ASSUME Typed, Download \/ DownloadAgain \/ DownloadFails PROVE Typed'
    OBVIOUS
  <1> USE DEF Typed
  <1>1. /\ manifest' = manifest \/ \E files \in Manifests : manifest' = Manifest(files)
        /\ UNCHANGED <<now, start, next, five, hourly>>
    BY DEF Download, DownloadAgain, DownloadFails
  <1>2. manifest' \in [at : Times \union {-1}, files : [Biz -> Nat]] /\ manifest'.at <= now
    BY <1>1, ManifestCounts DEF TypeOK, Ordered, Manifest, Times
  <1>3. tally' \in [Hours -> [Biz -> Nat]]
    <2>1. CASE Download
      BY <2>1, CountType, ManifestCounts DEF Download
    <2>2. CASE DownloadAgain
      BY <2>2 DEF DownloadAgain, TypeOK
    <2>3. CASE DownloadFails
      <3>1. (IF manifest'.at = now THEN manifest'.files ELSE NoFiles) \in [Biz -> Nat]
        BY <1>2 DEF NoFiles
      <3> QED BY <2>3, <3>1, CountType DEF DownloadFails
    <2> QED BY <2>1, <2>2, <2>3
  <1>4. disturbed' \subseteq Hours
    BY TouchedType DEF Download, DownloadAgain, DownloadFails, TypeOK
  <1>5. cursor' \in Times /\ cursor' <= now
    BY DEF Download, DownloadAgain, DownloadFails, TypeOK, Ordered, Times
  <1>6. /\ phase' \in {"download", "five"} /\ phase = "download"
        /\ success' \in BOOLEAN
        /\ tries' \in 0 .. Retries /\ faults' \in 0 .. MaxFaults
    <2>1. CASE Download
      BY <2>1, StatsAssumption DEF Download, TypeOK
    <2>2. CASE DownloadAgain
      BY <2>2, StatsAssumption DEF DownloadAgain, TypeOK
    <2>3. CASE DownloadFails
      BY <2>3, StatsAssumption DEF DownloadFails, TypeOK
    <2> QED BY <2>1, <2>2, <2>3
  <1>7. TypeOK'
    BY <1>1, <1>2, <1>3, <1>4, <1>5, <1>6 DEF TypeOK, Phases
  <1>8. Ordered' /\ Counted'
    BY <1>1, <1>2, <1>5, <1>6 DEF Ordered, Counted
  <1> QED BY <1>7, <1>8

\* A failed attempt of a statistics task.
LEMMA FailType ==
    ASSUME Typed, Fail, phase \in {"five", "merge", "finalize"}
    PROVE  /\ phase' \in {"five", "merge", "idle"}
           /\ phase' = "five" <=> phase = "five" /\ tries < Retries
           /\ phase' = "merge" <=> phase # "five" /\ tries < Retries
           /\ start' = IF tries < Retries THEN start ELSE 0
           /\ start' \in Times /\ success' \in BOOLEAN
           /\ tries' \in 0 .. Retries /\ faults' \in 0 .. MaxFaults
           /\ next' = 1 /\ next' \in DOMAIN Services
           /\ disturbed' \subseteq Hours /\ disturbed \subseteq disturbed'
  <1>1. next' = 1 /\ next' \in DOMAIN Services /\ faults' \in 0 .. MaxFaults
    BY Constants, StatsAssumption DEF Fail, Typed, TypeOK
  <1>2. CASE tries < Retries
    BY <1>1, <1>2, StatsAssumption DEF Fail, Typed, TypeOK
  <1>3. CASE ~(tries < Retries)
    <2>1. 0 \in Times /\ Touched(start, now) \subseteq Hours
      BY TouchedType, StatsAssumption DEF Typed, TypeOK, Times
    <2>2. Leave /\ disturbed' = disturbed \union Touched(start, now)
      BY <1>3 DEF Fail
    <2>3. phase' = "idle" /\ tries' = 0 /\ start' = 0 /\ success' \in BOOLEAN
      BY <2>2 DEF Leave
    <2>4. tries' \in 0 .. Retries /\ disturbed' \subseteq Hours
      BY <2>1, <2>2, <2>3, StatsAssumption DEF Typed, TypeOK
    <2> QED BY <1>1, <1>3, <2>1, <2>2, <2>3, <2>4
  <1> QED BY <1>2, <1>3

LEMMA TypedWriteFiveMin == Typed /\ (WriteFiveMin \/ WriteFiveMinFails) => Typed'
  <1> SUFFICES ASSUME Typed, WriteFiveMin \/ WriteFiveMinFails PROVE Typed'
    OBVIOUS
  <1> USE DEF Typed
  <1>1. \A b \in Biz : Payload(b) \in Window /\ Payload(b).files \in Nat
    BY FilesFound DEF Payload, Window, TypeOK
  <1>2. UNCHANGED <<now, cursor, manifest, hourly, tally>> /\ phase = "five"
    BY DEF WriteFiveMin, WriteFiveMinFails
  <1>3. five' \in [Times -> [Biz -> Window]]
    <2>1. five \in [Times -> [Biz -> Window]] /\ start \in Times
      BY DEF TypeOK
    <2>2. CASE WriteFiveMin
      BY <1>1, <2>1, <2>2 DEF WriteFiveMin
    <2>3. CASE WriteFiveMinFails
      BY <1>1, <2>1, <2>3 DEF WriteFiveMinFails
    <2> QED BY <2>2, <2>3
  <1>4. CASE WriteFiveMin
    <2>1. \A b \in Biz : five'[start][b].files \in Nat
      BY <1>1, <1>4 DEF WriteFiveMin, TypeOK
    <2>2. TypeOK'
      <3>1. next' \in DOMAIN Services /\ tries' \in 0 .. Retries /\ phase' \in Phases
        BY <1>4, Constants, StatsAssumption DEF WriteFiveMin, Phases
      <3> QED BY <1>2, <1>3, <1>4, <3>1 DEF WriteFiveMin, TypeOK
    <2> QED BY <1>2, <1>4, <2>1, <2>2 DEF WriteFiveMin, Ordered, Counted
  <1>5. CASE WriteFiveMinFails
    <2>1. Fail
      BY <1>5 DEF WriteFiveMinFails
    <2>2. TypeOK'
      BY <1>2, <1>3, <2>1, FailType DEF TypeOK, Phases
    <2>3. Ordered' /\ Counted'
      BY <1>2, <2>1, FailType DEF Ordered, Counted, TypeOK, Times
    <2> QED BY <2>2, <2>3
  <1> QED BY <1>4, <1>5

LEMMA CurrentType ==
    ASSUME TypeOK, NEW h \in Hours, NEW b \in Biz
    PROVE  /\ Current(h, b) \in HourObject
           /\ Current(h, b).seen = hourly[h][b].seen
           /\ Current(h, b).succeeded = hourly[h][b].succeeded
           /\ Current(h, b).failed = hourly[h][b].failed
           /\ Current(h, b).files = hourly[h][b].files
  <1>1. Empty \in HourObject
    BY DEF Empty, HourObject
  <1>2. hourly[h][b] \in HourObject
    BY DEF TypeOK
  <1> QED BY <1>1, <1>2 DEF Current, NoHour, Empty

\* What merging the window in hand makes of an hour.
LEMMA MergedType ==
    ASSUME Typed, phase = "merge", NEW b \in Biz
    PROVE  LET h == HourOf(start)
               w == five[start][b]
               old == hourly[h][b]
               new == Merged(h, b)
               fresh == start \notin old.seen
           IN  /\ new \in HourObject
               /\ new.status = "partial"
               /\ new.seen = old.seen \union {start}
               /\ new.files = old.files + (IF fresh THEN w.files ELSE 0)
               /\ new.succeeded = old.succeeded + (IF fresh /\ w.ok THEN 1 ELSE 0)
               /\ new.failed = old.failed + (IF fresh /\ ~w.ok THEN 1 ELSE 0)
  <1> DEFINE h == HourOf(start)
             w == five[start][b]
             c == Current(h, b)
  <1>1. start \in Times /\ h \in Hours
    BY HourType DEF Typed, TypeOK
  <1>2. w \in Window /\ w.files \in Nat /\ w.ok \in BOOLEAN
    BY <1>1 DEF Typed, TypeOK, Counted, Window
  <1>3. /\ c \in HourObject /\ c.seen = hourly[h][b].seen
        /\ c.succeeded = hourly[h][b].succeeded /\ c.failed = hourly[h][b].failed
        /\ c.files = hourly[h][b].files
    BY <1>1, CurrentType DEF Typed
  <1>4. Merged(h, b) = [MergeFiveMin(c, start, w) EXCEPT !.status = "partial"]
    BY DEF Merged
  <1> HIDE DEF h, w, c
  <1>5. CASE start \in c.seen
    BY <1>1, <1>2, <1>3, <1>4, <1>5 DEF MergeFiveMin, HourObject, h, w
  <1>6. CASE start \notin c.seen
    <2> DEFINE one == IF w.ok THEN 1 ELSE 0
               other == IF w.ok THEN 0 ELSE 1
    <2>1. one \in Nat /\ other \in Nat
      OBVIOUS
    <2>2. MergeFiveMin(c, start, w) = [c EXCEPT !.seen = @ \union {start},
                                               !.succeeded = @ + one,
                                               !.failed = @ + other,
                                               !.files = @ + w.files]
      BY <1>6 DEF MergeFiveMin
    <2>3. /\ c.seen \union {start} \in SUBSET Times
          /\ c.succeeded + one \in Nat /\ c.failed + other \in Nat
          /\ c.files + w.files \in Nat
      BY <1>1, <1>2, <1>3, <2>1 DEF HourObject
    <2>4. /\ Merged(h, b) \in HourObject /\ Merged(h, b).status = "partial"
          /\ Merged(h, b).seen = c.seen \union {start}
          /\ Merged(h, b).succeeded = c.succeeded + one
          /\ Merged(h, b).failed = c.failed + other
          /\ Merged(h, b).files = c.files + w.files
      <3> HIDE DEF one, other
      <3> DEFINE m == MergeFiveMin(c, start, w)
      <3>1. /\ m \in HourObject
            /\ m.seen = c.seen \union {start} /\ m.succeeded = c.succeeded + one
            /\ m.failed = c.failed + other /\ m.files = c.files + w.files
        BY <1>3, <2>2, <2>3 DEF HourObject
      <3>2. Merged(h, b) = [m EXCEPT !.status = "partial"]
        BY <1>4
      <3> HIDE DEF m
      <3> QED BY <3>1, <3>2 DEF HourObject
    <2> QED BY <1>2, <1>3, <1>6, <2>4 DEF h, w
  <1> QED BY <1>5, <1>6

LEMMA FinalizedType ==
    ASSUME Typed, NEW h \in Hours, NEW b \in Biz
    PROVE  LET old == hourly[h][b]
               new == Finalized(h, b)
           IN  /\ new \in HourObject
               /\ new.status \in {"final", "final_with_missing"}
               /\ new.status = "final" <=> Expected(h) \subseteq old.seen
               /\ new.seen = old.seen /\ new.files = old.files
               /\ new.succeeded = old.succeeded /\ new.failed = old.failed
  <1>1. /\ Current(h, b) \in HourObject
        /\ Current(h, b).seen = hourly[h][b].seen
        /\ Current(h, b).succeeded = hourly[h][b].succeeded
        /\ Current(h, b).failed = hourly[h][b].failed
        /\ Current(h, b).files = hourly[h][b].files
    BY CurrentType DEF Typed
  <1>2. Expected(h) \subseteq Times
    BY DEF Expected
  <1> QED BY <1>1, <1>2 DEF Finalized, HourObject

\* How the hourly task goes on.
LEMMA AdvanceType ==
    ASSUME Typed, NEW done \in {"idle", "finalize"}, Advance(done)
    PROVE  /\ next < Len(Services) => /\ next' = next + 1
                                      /\ UNCHANGED <<phase, start>>
           /\ ~(next < Len(Services)) => /\ next = Len(Services) /\ next' = 1
                                         /\ phase' = done
           /\ next' \in DOMAIN Services
           /\ phase' \in {phase, done}
           /\ tries' \in 0 .. Retries /\ start' \in Times
           /\ phase' # "idle" => start' = start
           /\ start' \in {start, 0}
  <1>0. ~(next < Len(Services)) => next = Len(Services)
    <2>1. next \in 1 .. Len(Services) /\ Len(Services) \in Nat
      BY Constants DEF Typed, TypeOK
    <2> QED BY <2>1
  <1>1. /\ next \in 1 .. Len(Services) /\ tries \in 0 .. Retries
        /\ start \in Times /\ 0 \in Times /\ 0 \in 0 .. Retries
    BY Constants, StatsAssumption DEF Typed, TypeOK, Times
  <1>2. CASE next < Len(Services)
    <2>1. next' = next + 1 /\ UNCHANGED <<phase, tries, start>>
      BY <1>2 DEF Advance
    <2>2. Len(Services) \in Nat /\ DOMAIN Services = 1 .. Len(Services)
      BY Constants
    <2>3. next' \in DOMAIN Services
      BY <1>1, <1>2, <2>1, <2>2
    <2>4. phase' \in {phase, done}
      BY <2>1
    <2>5. tries' \in 0 .. Retries /\ start' \in Times
      BY <1>1, <2>1
    <2>6. start' \in {start, 0} /\ (phase' # "idle" => start' = start)
      BY <2>1
    <2> QED BY <1>2, <2>1, <2>3, <2>4, <2>5, <2>6
  <1>3. CASE ~(next < Len(Services)) /\ done = "idle"
    <2>1. next' = 1 /\ phase' = "idle" /\ tries' = 0 /\ start' = 0
      BY <1>3 DEF Advance, Leave
    <2>2. Len(Services) \in Nat /\ DOMAIN Services = 1 .. Len(Services) /\ 1 \in DOMAIN Services
      BY Constants
    <2>3. next = Len(Services)
      BY <1>0, <1>3
    <2> QED BY <1>1, <1>3, <2>1, <2>2, <2>3
  <1>4. CASE ~(next < Len(Services)) /\ done # "idle"
    <2>1. next' = 1 /\ phase' = done /\ UNCHANGED <<tries, start>>
      BY <1>4 DEF Advance
    <2>2. Len(Services) \in Nat /\ DOMAIN Services = 1 .. Len(Services) /\ 1 \in DOMAIN Services
      BY Constants
    <2>3. next = Len(Services)
      BY <1>0, <1>4
    <2>4. tries' \in 0 .. Retries /\ start' \in Times
      BY <1>1, <2>1
    <2> QED BY <1>4, <2>1, <2>2, <2>3, <2>4
  <1> QED BY <1>2, <1>3, <1>4

LEMMA AdvanceSuccess ==
    ASSUME NEW done, Advance(done), success \in BOOLEAN
    PROVE  success' \in BOOLEAN
  BY Zenon DEF Advance, Leave

LEMMA TypedHourly ==
    Typed /\ (MergeService \/ FinalizeService \/ HourlyFails) => Typed'
  <1> SUFFICES ASSUME Typed, MergeService \/ FinalizeService \/ HourlyFails PROVE Typed'
    OBVIOUS
  <1> USE DEF Typed
  <1>1. /\ UNCHANGED <<now, cursor, manifest, five, tally>>
        /\ phase \in {"merge", "finalize"}
    BY DEF MergeService, FinalizeService, HourlyFails
  <1>2. next \in DOMAIN Services /\ Services[next] \in Biz
    BY Constants DEF TypeOK
  <1>3. CASE MergeService
    <2>1. hourly' \in [Hours -> [Biz -> HourObject]]
      <3>1. Merged(HourOf(start), Services[next]) \in HourObject
        BY <1>2, <1>3, MergedType DEF MergeService
      <3> QED BY <3>1, <1>3 DEF MergeService, TypeOK
    <2>2. PICK done \in {"idle", "finalize"} : Advance(done)
      BY <1>3 DEF MergeService
    <2>3. TypeOK'
      BY <1>1, <1>3, <2>1, <2>2, AdvanceType, AdvanceSuccess DEF TypeOK, Phases, MergeService
    <2>4. Ordered' /\ Counted'
      BY <1>1, <2>2, AdvanceType DEF Ordered, Counted, TypeOK, Times
    <2> QED BY <2>3, <2>4
  <1>4. CASE FinalizeService
    <2>0. HourClosed \in Hours
      <3>1. now - 1 \in Times
        BY <1>1, StatsAssumption DEF Ordered, TypeOK, Times
      <3> QED BY <3>1, HourType DEF HourClosed
    <2>1. hourly' \in [Hours -> [Biz -> HourObject]]
      <3>1. Finalized(HourClosed, Services[next]) \in HourObject
        BY <1>2, <2>0, FinalizedType
      <3> QED BY <3>1, <1>4 DEF FinalizeService, TypeOK
    <2>2. Advance("idle")
      BY <1>4 DEF FinalizeService
    <2>3. TypeOK'
      BY <1>1, <1>4, <2>1, <2>2, AdvanceType, AdvanceSuccess DEF TypeOK, Phases, FinalizeService
    <2>4. Ordered' /\ Counted'
      BY <1>1, <2>2, AdvanceType DEF Ordered, Counted, TypeOK, Times
    <2> QED BY <2>3, <2>4
  <1>5. CASE HourlyFails
    <2>1. Fail /\ UNCHANGED hourly
      BY <1>5 DEF HourlyFails
    <2>2. TypeOK'
      BY <1>1, <2>1, FailType DEF TypeOK, Phases
    <2>3. Ordered' /\ Counted'
      BY <1>1, <2>1, FailType DEF Ordered, Counted, TypeOK, Times
    <2> QED BY <2>2, <2>3
  <1> QED BY <1>3, <1>4, <1>5

LEMMA TypedStep == Typed /\ [Next]_vars => Typed'
  <1> SUFFICES ASSUME Typed, [Next]_vars PROVE Typed'
    OBVIOUS
  <1>1. CASE UNCHANGED vars
    BY <1>1 DEF vars, run, Typed, TypeOK, Ordered, Counted
  <1>2. CASE Next
    BY <1>2, TypedStartRun, TypedDownload, TypedWriteFiveMin, TypedHourly DEF Next
  <1> QED BY <1>1, <1>2

\* The types are kept by every run: no hour, window or service outside the tables
\* is written, whichever tasks are late, repeated or given up.
THEOREM TypeCorrect == Spec => []TypeOK
  <1>1. Spec => []Typed
    BY TypedInit, TypedStep, PTL DEF Spec
  <1>2. Typed => TypeOK
    BY DEF Typed
  <1> QED BY <1>1, <1>2, PTL

-------------------------------------------------------------------------------
(* No file counts twice.  What a window will still add to its hour has been  *)
(* tallied already, until the window has been seen.                          *)

Pending(b) ==
    CASE phase = "five" -> FindLatestDownloadManifest[b]
      [] phase \in {"merge", "finalize"} -> five[start][b].files
      [] OTHER -> 0

Due(h, b) ==
    IF h = HourOf(start) /\ start \notin hourly[h][b].seen THEN Pending(b) ELSE 0

Tallied == \A h \in Hours, b \in Biz : hourly[h][b].files + Due(h, b) <= tally[h][b]

SeenCounted ==
    \A h \in Hours, b \in Biz :
        hourly[h][b].succeeded + hourly[h][b].failed = Cardinality(hourly[h][b].seen)

LEMMA DueType ==
    ASSUME Typed, NEW h \in Hours, NEW b \in Biz
    PROVE  /\ Pending(b) \in Nat /\ Due(h, b) \in Nat
           /\ hourly[h][b] \in HourObject
           /\ hourly[h][b].files \in Nat /\ tally[h][b] \in Nat
           /\ hourly[h][b].succeeded \in Nat /\ hourly[h][b].failed \in Nat
           /\ hourly[h][b].seen \subseteq Times
  <1>1. Pending(b) \in Nat
    BY FilesFound DEF Pending, Typed, Counted
  <1>2. hourly[h][b] \in HourObject /\ tally[h][b] \in Nat
    BY DEF Typed, TypeOK
  <1> QED BY <1>1, <1>2 DEF Due, HourObject

LEMMA DueTypeNext ==
    ASSUME Typed', NEW h \in Hours, NEW b \in Biz
    PROVE  Due(h, b)' \in Nat /\ hourly'[h][b].files \in Nat /\ tally'[h][b] \in Nat
  <1>1. (FindLatestDownloadManifest \in [Biz -> Nat])'
    BY DEF Typed, TypeOK, FindLatestDownloadManifest, NoFiles
  <1>2. Pending(b)' \in Nat
    BY <1>1 DEF Pending, Typed, Counted
  <1>3. hourly'[h][b] \in HourObject /\ tally'[h][b] \in Nat
    BY DEF Typed, TypeOK
  <1> QED BY <1>2, <1>3 DEF Due, HourObject

\* What the actions do to an hour.
LEMMA MergeEffect ==
    ASSUME Typed, MergeService
    PROVE  /\ phase = "merge" /\ HourOf(start) \in Hours /\ Services[next] \in Biz
           /\ \A h \in Hours, b \in Biz :
                hourly'[h][b] = IF h = HourOf(start) /\ b = Services[next]
                                THEN Merged(h, b) ELSE hourly[h][b]
  <1>1. HourOf(start) \in Hours /\ Services[next] \in Biz
    BY HourType, Constants DEF Typed, TypeOK
  <1>2. hourly \in [Hours -> [Biz -> HourObject]]
    BY DEF Typed, TypeOK
  <1>3. /\ phase = "merge"
        /\ hourly' = [hourly EXCEPT ![HourOf(start)][Services[next]]
                                      = Merged(HourOf(start), Services[next])]
    BY DEF MergeService
  <1> QED BY <1>1, <1>2, <1>3

LEMMA FinalizeEffect ==
    ASSUME Typed, FinalizeService
    PROVE  /\ phase = "finalize" /\ HourClosed \in Hours /\ Services[next] \in Biz
           /\ \A h \in Hours, b \in Biz :
                hourly'[h][b] = IF h = HourClosed /\ b = Services[next]
                                THEN Finalized(h, b) ELSE hourly[h][b]
  <1>1. Services[next] \in Biz
    BY Constants DEF Typed, TypeOK
  <1>2. hourly \in [Hours -> [Biz -> HourObject]]
    BY DEF Typed, TypeOK
  <1>3. phase = "finalize" /\ now - 1 \in Times
    BY StatsAssumption DEF FinalizeService, Typed, TypeOK, Ordered, Times
  <1>4. HourClosed \in Hours
    BY <1>3, HourType DEF HourClosed
  <1>5. hourly' = [hourly EXCEPT ![HourClosed][Services[next]]
                                   = Finalized(HourClosed, Services[next])]
    BY DEF FinalizeService
  <1> QED BY <1>1, <1>2, <1>3, <1>4, <1>5

\* The tables of an hour stay as they are, except that a file may be tallied.
LEMMA CountEffect ==
    ASSUME Typed, NEW files \in [Biz -> Nat], Count(files)
    PROVE  \A h \in Hours, b \in Biz :
             tally'[h][b] = IF h = HourOf(start) THEN tally[h][b] + files[b] ELSE tally[h][b]
  <1> DEFINE k == HourOf(start)
  <1>1. tally \in [Hours -> [Biz -> Nat]] /\ k \in Hours
    BY HourType DEF Typed, TypeOK
  <1>2. tally' = [tally EXCEPT ![k] = [b \in Biz |-> tally[k][b] + files[b]]]
    BY <1>1 DEF Count
  <1> HIDE DEF k
  <1>3. ASSUME NEW h \in Hours, NEW b \in Biz
        PROVE  tally'[h][b] = IF h = k THEN tally[h][b] + files[b] ELSE tally[h][b]
    BY <1>1, <1>2
  <1> QED BY <1>3 DEF k

\* What has been downloaded in the attempts of this run, and is tallied now.
LEMMA DownloadEffect ==
    ASSUME Typed, Download \/ DownloadFails
    PROVE  /\ phase = "download" /\ phase' = "five"
           /\ UNCHANGED <<now, start, hourly, five>>
           /\ \E files \in [Biz -> Nat] :
                /\ FindLatestDownloadManifest' = files
                /\ \A h \in Hours, b \in Biz :
                     tally'[h][b] = IF h = HourOf(start) THEN tally[h][b] + files[b]
                                                         ELSE tally[h][b]
  <1>1. /\ phase = "download" /\ phase' = "five"
        /\ UNCHANGED <<now, start, hourly, five>>
    BY DEF Download, DownloadFails
  <1> DEFINE files == IF manifest'.at = now THEN manifest'.files ELSE NoFiles
  <1>2. Typed'
    BY TypedDownload
  <1>3. now' = now /\ manifest'.at <= now /\ manifest'.at \in Int /\ now \in Int
    BY <1>1, <1>2 DEF Typed, TypeOK, Ordered, Times
  <1>4. FindLatestDownloadManifest' = files
    <2>1. HourOf(now) \in Int
      BY <1>3, HourBounds
    <2>2. CASE manifest'.at = now
      BY <1>3, <2>1, <2>2 DEF FindLatestDownloadManifest
    <2>3. CASE manifest'.at # now
      BY <1>3, <2>3 DEF FindLatestDownloadManifest
    <2> QED BY <2>2, <2>3
  <1>5. files \in [Biz -> Nat]
    BY <1>2, <1>4, FilesFound, FilesFound DEF Typed, TypeOK, NoFiles
  <1>6. Count(files)
    <2>1. CASE Download
      BY <2>1 DEF Download, Manifest
    <2>2. CASE DownloadFails
      BY <2>2 DEF DownloadFails
    <2> QED BY <2>1, <2>2
  <1> HIDE DEF files
  <1> QED BY <1>1, <1>4, <1>5, <1>6, CountEffect

\* The objects of the window hold what the newest manifest of the run says.
LEMMA WriteEffect ==
    ASSUME Typed, WriteFiveMin
    PROVE  /\ phase = "five" /\ phase' = "merge" /\ UNCHANGED <<now, start, hourly, tally>>
           /\ \A b \in Biz : five'[start][b].files = FindLatestDownloadManifest[b]
  BY DEF WriteFiveMin, Payload, Typed, TypeOK

\* Nothing of an hour changes, and what is pending stays or is given up.
LEMMA FailEffect ==
    ASSUME Typed, Fail, phase \in {"five", "merge", "finalize"},
           UNCHANGED <<now, manifest>>,
           phase # "five" => UNCHANGED five
    PROVE  \A b \in Biz : phase' = "idle" \/ (start' = start /\ Pending(b)' = Pending(b))
  <1>1. /\ phase' \in {"five", "merge", "idle"}
        /\ phase' = "five" <=> phase = "five" /\ tries < Retries
        /\ phase' = "merge" <=> phase # "five" /\ tries < Retries
        /\ start' = IF tries < Retries THEN start ELSE 0
    BY FailType
  <1>2. CASE phase' = "five"
    BY <1>1, <1>2 DEF Pending, FindLatestDownloadManifest
  <1>3. CASE phase' = "merge"
    BY <1>1, <1>3 DEF Pending
  <1> QED BY <1>1, <1>2, <1>3

\* Nothing is due of an hour unless its window is in hand.
LEMMA NothingDue ==
    ASSUME phase \in {"idle", "download"}, NEW h, NEW b
    PROVE  Due(h, b) = 0
  BY DEF Due, Pending

LEMMA NothingDueNext ==
    ASSUME phase' \in {"idle", "download"}, NEW h, NEW b
    PROVE  Due(h, b)' = 0
  BY DEF Due, Pending

LEMMA DueStays ==
    ASSUME NEW h, NEW b, start' = start, Pending(b)' = Pending(b),
           hourly'[h][b].seen = hourly[h][b].seen
    PROVE  Due(h, b)' = Due(h, b)
  BY DEF Due

\* The files of an hour and what is due of them change as the tally does, or
\* what was due is given up when the run is over, or the window of an earlier run
\* is taken up again, and its files are never counted.
LEMMA DueStep ==
    ASSUME Typed, Next, NEW h \in Hours, NEW b \in Biz
    PROVE  \/ hourly'[h][b].files + Due(h, b)' - tally'[h][b]
                = hourly[h][b].files + Due(h, b) - tally[h][b]
           \/ /\ phase' = "idle" /\ Due(h, b)' = 0 /\ h = HourOf(start)
              /\ hourly'[h][b].files = hourly[h][b].files /\ tally'[h][b] = tally[h][b]
              /\ \/ WriteFiveMinFails \/ HourlyFails
                 \/ start \notin hourly'[h][b].seen
           \/ /\ Download \/ DownloadFails
              /\ h = HourOf(start) /\ start \in hourly[h][b].seen
              /\ Due(h, b)' = 0 /\ Due(h, b) = 0
              /\ hourly'[h][b].files = hourly[h][b].files /\ tally[h][b] <= tally'[h][b]
  <1>0. Typed'
    BY TypedStep
  <1>1. /\ Due(h, b) \in Nat /\ hourly[h][b].files \in Nat /\ tally[h][b] \in Nat
        /\ Due(h, b)' \in Nat /\ hourly'[h][b].files \in Nat /\ tally'[h][b] \in Nat
    BY <1>0, DueType, DueTypeNext
  <1>2. CASE StartRun \/ DownloadAgain
    <2>1. phase \in {"idle", "download"} /\ phase' = "download" /\ UNCHANGED <<hourly, tally>>
      BY <1>2 DEF StartRun, DownloadAgain
    <2> QED BY <2>1, <1>1, NothingDue, NothingDueNext
  <1>3. CASE Download \/ DownloadFails
    <2>1. /\ phase = "download" /\ phase' = "five"
          /\ UNCHANGED <<now, start, hourly, five>>
      BY <1>3, DownloadEffect
    <2>2. PICK files \in [Biz -> Nat] :
            /\ FindLatestDownloadManifest' = files
            /\ tally'[h][b] = IF h = HourOf(start) THEN tally[h][b] + files[b]
                                                   ELSE tally[h][b]
      BY <1>3, DownloadEffect
    <2>3. Due(h, b) = 0
      BY <2>1, NothingDue
    <2>4. Due(h, b)' = IF h = HourOf(start) /\ start \notin hourly[h][b].seen
                       THEN files[b] ELSE 0
      BY <2>1, <2>2 DEF Due, Pending
    <2>5. files[b] \in Nat /\ hourly'[h][b] = hourly[h][b]
      BY <2>1, <2>2
    <2> QED BY <1>1, <1>3, <2>1, <2>2, <2>3, <2>4, <2>5
  <1>4. CASE WriteFiveMin
    <2>1. start' = start /\ Pending(b)' = Pending(b) /\ UNCHANGED <<hourly, tally>>
      BY <1>4, WriteEffect DEF Pending
    <2> QED BY <2>1, <1>1, DueStays
  <1>5. CASE WriteFiveMinFails \/ HourlyFails
    <2>1. /\ Fail /\ phase \in {"five", "merge", "finalize"}
          /\ UNCHANGED <<now, manifest, hourly, tally>>
          /\ phase # "five" => UNCHANGED five
      BY <1>5 DEF WriteFiveMinFails, HourlyFails
    <2>2. phase' = "idle" \/ (start' = start /\ Pending(b)' = Pending(b))
      BY <2>1, FailEffect
    <2>3. CASE phase' = "idle"
      <3>1. Due(h, b)' = 0
        BY <2>3, NothingDueNext
      <3> QED BY <1>1, <1>5, <2>1, <2>3, <3>1 DEF Due
    <2> QED BY <1>1, <2>1, <2>2, <2>3, DueStays
  <1>6. CASE MergeService
    <2>1. /\ phase = "merge" /\ HourOf(start) \in Hours /\ Services[next] \in Biz
          /\ hourly'[h][b] = IF h = HourOf(start) /\ b = Services[next]
                             THEN Merged(h, b) ELSE hourly[h][b]
      BY <1>6, MergeEffect
    <2>2. UNCHANGED <<tally, five>>
      BY <1>6 DEF MergeService
    <2>3. phase' \in {"merge", "finalize", "idle"} /\ (phase' # "idle" => start' = start)
      <3>1. PICK done \in {"idle", "finalize"} : Advance(done)
        BY <1>6 DEF MergeService
      <3> QED BY <2>1, <3>1, AdvanceType
    <2>4. Pending(b) = five[start][b].files
      BY <2>1 DEF Pending
    <2>5. phase' # "idle" => Pending(b)' = Pending(b)
      BY <2>2, <2>3, <2>4 DEF Pending
    <2>6. CASE h = HourOf(start) /\ b = Services[next]
      <3>1. /\ hourly'[h][b].seen = hourly[h][b].seen \union {start}
            /\ hourly'[h][b].files = hourly[h][b].files
                 + (IF start \notin hourly[h][b].seen THEN five[start][b].files ELSE 0)
        BY <2>1, <2>6, MergedType
      <3>2. Due(h, b)' = 0
        BY <2>3, <3>1, NothingDueNext DEF Due
      <3>3. Due(h, b) = IF start \notin hourly[h][b].seen THEN five[start][b].files ELSE 0
        BY <2>4, <2>6 DEF Due
      <3> QED BY <1>1, <2>2, <3>1, <3>2, <3>3
    <2>7. CASE ~(h = HourOf(start) /\ b = Services[next])
      <3>1. hourly'[h][b] = hourly[h][b]
        BY <2>1, <2>7
      <3>2. CASE phase' = "idle"
        <4>1. Due(h, b)' = 0
          BY <3>2, NothingDueNext
        <4> QED BY <1>1, <2>2, <3>1, <3>2, <4>1 DEF Due
      <3>3. CASE phase' # "idle"
        BY <1>1, <2>2, <2>3, <2>5, <3>1, <3>3, DueStays
      <3> QED BY <3>2, <3>3
    <2> QED BY <2>6, <2>7
  <1>7. CASE FinalizeService
    <2>1. /\ phase = "finalize"
          /\ hourly'[h][b].files = hourly[h][b].files
          /\ hourly'[h][b].seen = hourly[h][b].seen
      BY <1>7, FinalizeEffect, FinalizedType
    <2>2. UNCHANGED <<tally, five>>
      BY <1>7 DEF FinalizeService
    <2>3. phase' \in {"finalize", "idle"} /\ (phase' # "idle" => start' = start)
      BY <1>7, <2>1, AdvanceType DEF FinalizeService
    <2>4. CASE phase' = "idle"
      <3>1. Due(h, b)' = 0
        BY <2>4, NothingDueNext
      <3> QED BY <1>1, <2>1, <2>2, <2>4, <3>1 DEF Due
    <2>5. CASE phase' # "idle"
      <3>1. Pending(b)' = Pending(b)
        BY <2>1, <2>2, <2>3, <2>5 DEF Pending
      <3> QED BY <1>1, <2>1, <2>2, <2>3, <2>5, <3>1, DueStays
    <2> QED BY <2>4, <2>5
  <1> QED BY <1>2, <1>3, <1>4, <1>5, <1>6, <1>7 DEF Next

LEMMA TalliedStep == Typed /\ Tallied /\ [Next]_vars => Tallied'
  <1> SUFFICES ASSUME Typed, Tallied, [Next]_vars PROVE Tallied'
    OBVIOUS
  <1>1. CASE UNCHANGED vars
    BY <1>1 DEF vars, run, Tallied, Due, Pending, FindLatestDownloadManifest
  <1>2. CASE Next
    <2> SUFFICES ASSUME NEW h \in Hours, NEW b \in Biz
                 PROVE  (hourly[h][b].files + Due(h, b) <= tally[h][b])'
      BY DEF Tallied
    <2>1. Typed'
      BY TypedStep
    <2>2. /\ Due(h, b) \in Nat /\ hourly[h][b].files \in Nat /\ tally[h][b] \in Nat
          /\ Due(h, b)' \in Nat /\ hourly'[h][b].files \in Nat /\ tally'[h][b] \in Nat
      BY <2>1, DueType, DueTypeNext
    <2>3. hourly[h][b].files + Due(h, b) <= tally[h][b]
      BY DEF Tallied
    <2> QED BY <1>2, <2>2, <2>3, DueStep
  <1> QED BY <1>1, <1>2

LEMMA SeenCountedStep == Typed /\ SeenCounted /\ [Next]_vars => SeenCounted'
  <1> SUFFICES ASSUME Typed, SeenCounted, [Next]_vars,
                      NEW h \in Hours, NEW b \in Biz
               PROVE  (hourly[h][b].succeeded + hourly[h][b].failed
                         = Cardinality(hourly[h][b].seen))'
    BY DEF SeenCounted
  <1>1. hourly[h][b].succeeded + hourly[h][b].failed = Cardinality(hourly[h][b].seen)
    BY DEF SeenCounted
  <1>2. CASE UNCHANGED hourly
    BY <1>1, <1>2
  <1>3. CASE MergeService
    <2>1. hourly'[h][b] = IF h = HourOf(start) /\ b = Services[next]
                          THEN Merged(h, b) ELSE hourly[h][b]
      BY <1>3, MergeEffect
    <2>2. CASE h = HourOf(start) /\ b = Services[next]
      <3> DEFINE fresh == start \notin hourly[h][b].seen
      <3>1. /\ hourly'[h][b].seen = hourly[h][b].seen \union {start}
            /\ hourly'[h][b].succeeded = hourly[h][b].succeeded
                 + (IF fresh /\ five[start][b].ok THEN 1 ELSE 0)
            /\ hourly'[h][b].failed = hourly[h][b].failed
                 + (IF fresh /\ ~five[start][b].ok THEN 1 ELSE 0)
        BY <1>3, <2>1, <2>2, MergedType, MergeEffect
      <3>2. IsFiniteSet(Times) /\ hourly[h][b].seen \subseteq Times
            <4>1. 0 \in Int /\ MaxTime \in Int
        BY StatsAssumption
          <4>2. IsFiniteSet(0 .. MaxTime)
        BY <4>1, FS_Interval
          <4> QED BY <4>2, DueType DEF Times
      <3>3. IsFiniteSet(hourly[h][b].seen)
        BY <3>2, FS_Subset
      <3>4. Cardinality(hourly[h][b].seen \union {start})
              = Cardinality(hourly[h][b].seen) + (IF fresh THEN 1 ELSE 0)
        BY <3>3, FS_AddElement, FS_CardinalityType
      <3>5. hourly[h][b].succeeded \in Nat /\ hourly[h][b].failed \in Nat
        BY DueType
      <3>6. CASE five[start][b].ok
        BY <1>1, <3>1, <3>4, <3>5, <3>6
      <3>7. CASE ~five[start][b].ok
        BY <1>1, <3>1, <3>4, <3>5, <3>7
      <3> QED BY <3>6, <3>7
    <2> QED BY <1>1, <2>1, <2>2
  <1>4. CASE FinalizeService
    BY <1>1, <1>4, FinalizeEffect, FinalizedType
  <1> QED
    BY <1>2, <1>3, <1>4
       DEF Next, vars, StartRun, Download, DownloadAgain, DownloadFails, WriteFiveMin,
           WriteFiveMinFails, HourlyFails

\* No file counts twice: whatever is late, repeated, given up or taken up again by
\* a later run, the object of an hour never shows more files than the runs of its
\* windows have downloaded, and as many runs as it has seen windows.
THEOREM CountedOnce == Spec => []NeverCountedTwice
  <1> DEFINE IInv == Typed /\ Tallied /\ SeenCounted
  <1>1. Init => IInv
    <2> SUFFICES ASSUME Init PROVE IInv
      OBVIOUS
    <2>1. Typed
      BY TypedInit
    <2>2. ASSUME NEW h \in Hours, NEW b \in Biz
          PROVE  /\ Due(h, b) = 0 /\ hourly[h][b] = NoHour /\ tally[h][b] = 0
      BY NothingDue DEF Init
    <2>3. NoHour.files = 0 /\ NoHour.succeeded = 0 /\ NoHour.failed = 0 /\ NoHour.seen = {}
      BY DEF NoHour, Empty
    <2>4. Cardinality({}) = 0
      BY FS_EmptySet
    <2>5. Tallied
      BY <2>2, <2>3 DEF Tallied
    <2>6. SeenCounted
      <3>1. ASSUME NEW h \in Hours, NEW b \in Biz
            PROVE  hourly[h][b].succeeded + hourly[h][b].failed
                     = Cardinality(hourly[h][b].seen)
        BY <2>2, <2>3, <2>4
      <3> QED BY <3>1 DEF SeenCounted
    <2> QED BY <2>1, <2>5, <2>6
  <1>2. IInv /\ [Next]_vars => IInv'
    BY TypedStep, TalliedStep, SeenCountedStep
  <1>3. IInv => NeverCountedTwice
    <2> SUFFICES ASSUME IInv, NEW h \in Hours, NEW b \in Biz
                 PROVE  hourly[h][b].files <= tally[h][b]
      BY DEF NeverCountedTwice, SeenCounted
    <2>1. Due(h, b) \in Nat /\ hourly[h][b].files \in Nat /\ tally[h][b] \in Nat
      BY DueType
    <2> QED BY <2>1 DEF Tallied
  <1> QED BY <1>1, <1>2, <1>3, PTL DEF Spec

-------------------------------------------------------------------------------
(* Hours that nothing has disturbed: between two runs they have seen every   *)
(* window that has passed, and the run that ends the hour has made them      *)
(* final.                                                                    *)

Windows(h) == {w \in Expected(h) : w < now}

SeenInHour == \A h \in Hours, b \in Biz : \A w \in hourly[h][b].seen : HourOf(w) = h

OnTime ==
    phase # "idle" =>
        \A h \in Hours \ disturbed : HourOf(start) <= h /\ h <= HourOf(now)
            => start + Period = now /\ start % Period = 0

OnTheHour == phase = "finalize" => now % Hour = 0

SeenWindows ==
    \A h \in Hours \ disturbed, b \in Biz :
        IF phase = "idle" THEN hourly[h][b].seen = Windows(h)
                          ELSE hourly[h][b].seen \ {start} = Windows(h) \ {start}

\* The services that have seen the window in hand.
MergedSoFar ==
    LET h == HourOf(start)
    IN  h \notin disturbed =>
          /\ phase \in {"download", "five"} => \A b \in Biz : start \notin hourly[h][b].seen
          /\ phase = "merge" => \A i \in DOMAIN Services :
                                   i < next => start \in hourly[h][Services[i]].seen
          /\ phase = "finalize" => \A b \in Biz : start \in hourly[h][b].seen

\* The services of a passed hour that are final.
Closed ==
    \A h \in Hours \ disturbed : (h + 1) * Hour <= now =>
        /\ phase = "idle" \/ (h + 1) * Hour <= start
             => \A b \in Biz : hourly[h][b].status = "final"
        /\ phase = "finalize" /\ h = HourClosed
             => \A i \in DOMAIN Services :
                  i < next => hourly[h][Services[i]].status = "final"

FilesExact ==
    \A h \in Hours \ disturbed, b \in Biz : hourly[h][b].files + Due(h, b) = tally[h][b]

Quiet ==
    SeenInHour /\ OnTime /\ OnTheHour /\ SeenWindows /\ MergedSoFar /\ Closed

LEMMA QuietInit == Init => Quiet /\ FilesExact
  <1> SUFFICES ASSUME Init PROVE Quiet /\ FilesExact
    OBVIOUS
  <1>1. /\ phase = "idle" /\ now = 0
        /\ \A h \in Hours, b \in Biz : /\ hourly[h][b] = NoHour /\ tally[h][b] = 0
                                      /\ Due(h, b) = 0
    BY NothingDue DEF Init
  <1>2. NoHour.seen = {} /\ NoHour.files = 0
    BY DEF NoHour, Empty
  <1>3. \A h \in Hours : h \in Nat
    BY DEF Hours
  <1>4. \A h \in Hours : Windows(h) = {} /\ ~((h + 1) * Hour <= now)
    <2> SUFFICES ASSUME NEW h \in Hours
                 PROVE  Windows(h) = {} /\ ~((h + 1) * Hour <= now)
      OBVIOUS
    <2>1. Windows(h) = {}
      BY <1>1 DEF Windows, Expected, Times
    <2>2. HourOf(0) = 0
      BY StatsAssumption DEF HourOf
    <2> QED BY <1>1, <1>3, <2>1, <2>2, HourPassed
  <1>5. SeenInHour /\ SeenWindows /\ FilesExact
    <2>1. \A h \in Hours, b \in Biz : /\ hourly[h][b].seen = {} /\ hourly[h][b].files = 0
                                       /\ Due(h, b) = 0 /\ tally[h][b] = 0
      BY <1>1, <1>2
    <2>2. SeenInHour
      BY <2>1 DEF SeenInHour
    <2>3. SeenWindows
      BY <1>1, <1>4, <2>1 DEF SeenWindows
    <2>4. FilesExact
      BY <2>1 DEF FilesExact
    <2> QED BY <2>2, <2>3, <2>4
  <1> QED BY <1>1, <1>4, <1>5 DEF Quiet, OnTime, OnTheHour, MergedSoFar, Closed

LEMMA SameButOne ==
    ASSUME NEW A, NEW B, NEW x, A \ {x} = B \ {x}, x \in A <=> x \in B
    PROVE  A = B
  <1>1. \A y : y \in A <=> y \in B
    <2> SUFFICES ASSUME NEW y PROVE y \in A <=> y \in B
      OBVIOUS
    <2>1. CASE y = x
      BY <2>1
    <2>2. CASE y # x
      BY <2>2
    <2> QED BY <2>1, <2>2
  <1> QED BY <1>1

LEMMA HourTypes ==
    ASSUME Typed, NEW h \in Hours
    PROVE  /\ h \in Nat /\ now \in Nat /\ start \in Nat /\ cursor \in Nat
           /\ start <= now /\ cursor <= now
           /\ HourOf(now) \in Int /\ HourOf(start) \in Int /\ HourOf(cursor) \in Int
           /\ HourOf(start) <= HourOf(now)
           /\ h * Hour \in Int /\ (h + 1) * Hour \in Int
           /\ \A b \in Biz : hourly[h][b].seen \subseteq Times
  <1>1. /\ h \in Nat /\ now \in Nat /\ start \in Nat /\ cursor \in Nat
        /\ start <= now /\ cursor <= now
    BY StatsAssumption DEF Hours, Typed, TypeOK, Ordered, Times
  <1>2. Hour \in Int
    BY StatsAssumption
  <1> QED BY <1>1, <1>2, HourBounds, HourMonotone, DueType

\* The window in hand belongs to its hour, when nothing disturbed it.
LEMMA InHand ==
    ASSUME Typed, OnTime, phase # "idle", NEW h \in Hours \ disturbed, h = HourOf(start)
    PROVE  start \in Windows(h) /\ start + Period = now /\ start < now
  <1>1. start + Period = now /\ start % Period = 0
    BY HourTypes DEF OnTime
  <1>2. start \in Expected(h) /\ start < now
    BY <1>1, ExpectedIs, StatsAssumption, HourTypes DEF Typed, TypeOK
  <1> QED BY <1>1, <1>2 DEF Windows

\* The run that ends an undisturbed hour ends on the hour.
LEMMA ClosingRun ==
    ASSUME Typed, OnTime, phase # "idle", NEW h \in Hours \ disturbed,
           (h + 1) * Hour <= now, ~((h + 1) * Hour <= start)
    PROVE  now = (h + 1) * Hour /\ now % Hour = 0 /\ h = HourClosed
  <1>1. /\ h \in Int /\ now \in Int /\ start \in Int /\ (h + 1) * Hour \in Int
        /\ Period \in Int /\ HourOf(now) \in Int /\ HourOf(start) \in Int
    BY HourTypes, StatsAssumption
  <1>2. h < HourOf(now) /\ HourOf(start) <= h
    BY <1>1, HourPassed
  <1>3. start + Period = now /\ start % Period = 0
    BY <1>1, <1>2 DEF OnTime
  <1>4. ((h + 1) * Hour) % Period = 0
    <2>1. h + 1 \in Int
      BY <1>1
    <2> QED BY <2>1, HourMultiple
  <1>5. now = (h + 1) * Hour
    <2> DEFINE u == (h + 1) * Hour
    <2>1. u \in Int /\ u % Period = 0 /\ start < u /\ u <= start + Period
      BY <1>1, <1>3, <1>4
    <2> HIDE DEF u
    <2>2. u = start + Period
      BY <1>1, <1>3, <2>1, NextMultiple
    <2> QED BY <1>3, <2>2 DEF u
  <1>6. now % Hour = 0
    <2>1. ASSUME NEW k \in Int PROVE (k * Hour) % Hour = 0
      BY StatsAssumption
    <2> QED BY <1>1, <1>5, <2>1
  <1>7. HourOf(now - 1) = HourOf(now) - 1 /\ HourOf(now) * Hour = now
    BY <1>1, <1>6, HourEnd
  <1>8. HourOf(now) = h + 1
    <2>1. h + 1 \in Int /\ (h + 1) * Hour <= now /\ now < ((h + 1) + 1) * Hour
      BY <1>1, <1>5, StatsAssumption
    <2> QED BY <1>1, <2>1, HourIs
  <1> QED BY <1>1, <1>5, <1>6, <1>7, <1>8 DEF HourClosed

\* A step inside the run, that neither merges nor closes.
LEMMA QuietInside ==
    ASSUME Quiet, phase # "idle", phase' \in {"download", "five", "merge"},
           UNCHANGED <<now, start, hourly>>, disturbed \subseteq disturbed',
           phase' = "merge" => next' = 1,
           phase' \in {"download", "five"} => phase \in {"download", "five"}
    PROVE  Quiet'
  <1> USE DEF Quiet
  <1>1. SeenInHour'
    BY DEF SeenInHour, HourOf
  <1>2. OnTime' /\ OnTheHour'
    BY DEF OnTime, OnTheHour, HourOf
  <1>3. SeenWindows'
    BY DEF SeenWindows, Windows
  <1>4. MergedSoFar'
    <2>1. ASSUME phase' = "merge", NEW i \in DOMAIN Services PROVE ~(i < next')
      BY <2>1, Constants
    <2> QED BY <2>1 DEF MergedSoFar, HourOf
  <1>5. Closed'
    BY DEF Closed
  <1> QED BY <1>1, <1>2, <1>3, <1>4, <1>5

\* The run is over: of the hours that stay undisturbed every one has seen the windows
\* that have passed, the window of the run included, and is final if it has passed.
LEMMA QuietOver ==
    ASSUME Typed, Quiet, phase # "idle", phase' = "idle", UNCHANGED now,
           disturbed \subseteq disturbed',
           SeenInHour',
           \A h \in Hours \ disturbed', b \in Biz :
              /\ hourly'[h][b].seen \ {start} = hourly[h][b].seen \ {start}
              /\ h = HourOf(start) => start \in hourly'[h][b].seen
              /\ (h + 1) * Hour <= now => hourly'[h][b].status = "final"
    PROVE  Quiet'
  <1> USE DEF Quiet
  <1>1. OnTime' /\ OnTheHour' /\ MergedSoFar'
    BY DEF OnTime, OnTheHour, MergedSoFar
  <1>2. Closed'
    BY DEF Closed
  <1>3. ASSUME NEW h \in Hours \ disturbed', NEW b \in Biz
        PROVE  hourly'[h][b].seen = Windows(h)'
    <2>1. h \in Hours \ disturbed /\ Windows(h)' = Windows(h)
      BY <1>3 DEF Windows
    <2>2. hourly'[h][b].seen \ {start} = Windows(h) \ {start}
      BY <2>1 DEF SeenWindows
    <2>3. CASE h = HourOf(start)
      <3>1. start \in Windows(h) /\ start \in hourly'[h][b].seen
        BY <2>1, <2>3, InHand
      <3> QED BY <2>1, <2>2, <3>1, SameButOne
    <2>4. CASE h # HourOf(start)
      <3>1. start \notin hourly'[h][b].seen
        BY <2>4 DEF SeenInHour, HourOf
      <3>2. start \notin Windows(h)
        BY <2>4 DEF Windows, Expected
      <3> QED BY <2>1, <2>2, <3>1, <3>2, SameButOne
    <2> QED BY <2>3, <2>4
  <1>4. SeenWindows'
    BY <1>3 DEF SeenWindows
  <1> QED BY <1>1, <1>2, <1>4

LEMMA QuietFails == Typed /\ Quiet /\ (WriteFiveMinFails \/ HourlyFails) => Quiet'
  <1> SUFFICES ASSUME Typed, Quiet, WriteFiveMinFails \/ HourlyFails PROVE Quiet'
    OBVIOUS
  <1>1. /\ Fail /\ phase \in {"five", "merge", "finalize"}
        /\ UNCHANGED <<now, hourly>>
    BY DEF WriteFiveMinFails, HourlyFails
  <1>2. /\ phase' \in {"five", "merge", "idle"}
        /\ phase' = "five" <=> phase = "five" /\ tries < Retries
        /\ phase' = "merge" <=> phase # "five" /\ tries < Retries
        /\ start' = IF tries < Retries THEN start ELSE 0
        /\ next' = 1 /\ disturbed \subseteq disturbed'
    BY <1>1, FailType
  <1>3. CASE tries < Retries
    BY <1>1, <1>2, <1>3, QuietInside
  <1>4. CASE ~(tries < Retries)
    <2>1. phase' = "idle" /\ disturbed' = disturbed \union Touched(start, now)
      BY <1>1, <1>2, <1>4 DEF Fail
    <2>2. SeenInHour'
      BY <1>1 DEF Quiet, SeenInHour, HourOf
    <2>3. ASSUME NEW h \in Hours \ disturbed', NEW b \in Biz
          PROVE  /\ h # HourOf(start)
                 /\ (h + 1) * Hour <= now => hourly'[h][b].status = "final"
      <3>1. /\ h \in Int /\ HourOf(start) \in Int /\ HourOf(now) \in Int
            /\ HourOf(start) <= HourOf(now) /\ now \in Int /\ start \in Int
        BY HourTypes
      <3>2. h # HourOf(start) /\ ~(HourOf(start) <= h /\ h <= HourOf(now))
        BY <2>1, <3>1 DEF Touched
      <3>3. (h + 1) * Hour <= now => (h + 1) * Hour <= start
        BY <3>1, <3>2, HourPassed
      <3> QED BY <1>1, <2>1, <3>2, <3>3 DEF Quiet, Closed
    <2> QED BY <1>1, <1>2, <2>1, <2>2, <2>3, QuietOver
  <1> QED BY <1>3, <1>4

LEMMA QuietDownload ==
    Typed /\ Quiet /\ (Download \/ DownloadAgain \/ DownloadFails \/ WriteFiveMin) => Quiet'
  <1> SUFFICES ASSUME Typed, Quiet,
                      Download \/ DownloadAgain \/ DownloadFails \/ WriteFiveMin
               PROVE  Quiet'
    OBVIOUS
  <1>1. CASE Download \/ DownloadAgain \/ DownloadFails
    <2>1. /\ phase = "download" /\ phase' \in {"download", "five"}
          /\ UNCHANGED <<now, start, hourly>> /\ disturbed \subseteq disturbed'
      BY <1>1 DEF Download, DownloadAgain, DownloadFails
    <2> QED BY <2>1, QuietInside
  <1>2. CASE WriteFiveMin
    <2>1. /\ phase = "five" /\ phase' = "merge" /\ next' = 1
          /\ UNCHANGED <<now, start, hourly, disturbed>>
      BY <1>2 DEF WriteFiveMin
    <2> QED BY <2>1, QuietInside
  <1> QED BY <1>1, <1>2

LEMMA QuietMerge == Typed /\ Quiet /\ MergeService => Quiet'
  <1> SUFFICES ASSUME Typed, Quiet, MergeService PROVE Quiet'
    OBVIOUS
  <1> DEFINE k == HourOf(start)
             c == Services[next]
  <1>1. /\ phase = "merge" /\ k \in Hours /\ c \in Biz
        /\ \A h \in Hours, b \in Biz :
             hourly'[h][b] = IF h = k /\ b = c THEN Merged(h, b) ELSE hourly[h][b]
    BY MergeEffect
  <1>2. UNCHANGED <<now, disturbed>>
    BY DEF MergeService
  <1>3. PICK done \in {"idle", "finalize"} :
          /\ Advance(done)
          /\ done = "finalize" => now % Hour = 0
          /\ done = "idle" => now % Hour # 0
    BY DEF MergeService
  <1>4. /\ next < Len(Services) => /\ next' = next + 1
                                   /\ UNCHANGED <<phase, start>>
        /\ ~(next < Len(Services)) => /\ next = Len(Services) /\ next' = 1
                                      /\ phase' = done
        /\ phase' # "idle" => start' = start
    BY <1>3, AdvanceType
  <1>5. Len(Services) \in Nat /\ next \in 1 .. Len(Services)
        /\ DOMAIN Services = 1 .. Len(Services)
    BY Constants DEF Typed, TypeOK
  <1>6. /\ Merged(k, c).seen = hourly[k][c].seen \union {start}
    BY <1>1, MergedType
  <1>7. \A h \in Hours, b \in Biz :
          /\ hourly'[h][b].seen \ {start} = hourly[h][b].seen \ {start}
          /\ hourly[h][b].seen \subseteq hourly'[h][b].seen
          /\ h # k => hourly'[h][b] = hourly[h][b]
    BY <1>1, <1>6
  <1>8. start \in hourly'[k][c].seen
    BY <1>1, <1>6
  <1>9. SeenInHour'
    <2> SUFFICES ASSUME NEW h \in Hours, NEW b \in Biz, NEW w \in hourly'[h][b].seen
                 PROVE  HourOf(w) = h
      BY DEF SeenInHour, HourOf
    <2>1. CASE h = k /\ b = c
      BY <1>1, <1>6, <2>1 DEF Quiet, SeenInHour
    <2>2. CASE ~(h = k /\ b = c)
      BY <1>1, <2>2 DEF Quiet, SeenInHour
    <2> QED BY <2>1, <2>2
  <1>10. ASSUME k \notin disturbed, NEW i \in DOMAIN Services, i <= next
         PROVE  start \in hourly'[k][Services[i]].seen
    <2>1. CASE i = next
      BY <1>8, <2>1
    <2>2. CASE i # next
      <3>1. i < next /\ Services[i] \in Biz
        <4>1. Services[i] \in Biz
          BY <1>5, Constants
        <4> QED BY <1>5, <1>10, <2>2, <4>1
      <3>2. start \in hourly[k][Services[i]].seen
        BY <1>1, <1>10, <3>1 DEF Quiet, MergedSoFar
      <3> QED BY <1>1, <1>7, <3>1, <3>2
    <2> QED BY <2>1, <2>2
  <1>11. ASSUME k \notin disturbed, ~(next < Len(Services)), NEW b \in Biz
         PROVE  start \in hourly'[k][b].seen
    <2>1. PICK i \in 1 .. Len(Services) : b = Services[i]
      BY Constants
    <2>2. i \in DOMAIN Services /\ i <= next
      BY <1>4, <1>5, <1>11, <2>1
    <2> QED BY <1>10, <1>11, <2>1, <2>2
  <1> HIDE DEF k, c
  <1>12. CASE phase' = "idle"
    <2>1. ~(next < Len(Services)) /\ done = "idle"
      BY <1>1, <1>4, <1>12
    <2>2. ASSUME NEW h \in Hours \ disturbed', NEW b \in Biz, (h + 1) * Hour <= now
          PROVE  hourly'[h][b].status = "final"
      <3>1. (h + 1) * Hour <= start
        BY <1>1, <1>2, <1>3, <2>1, <2>2, ClosingRun DEF Quiet
      <3>2. h # k
        <4>1. h < k
          BY <3>1, HourTypes, HourPassed DEF k
        <4> QED BY <4>1, HourTypes DEF k
      <3> QED BY <1>2, <1>7, <2>2, <3>1, <3>2 DEF Quiet, Closed
    <2>3. ASSUME NEW h \in Hours \ disturbed', NEW b \in Biz, h = HourOf(start)
          PROVE  start \in hourly'[h][b].seen
      BY <1>2, <1>11, <2>1, <2>3 DEF k
    <2> QED BY <1>1, <1>2, <1>7, <1>9, <1>12, <2>2, <2>3, QuietOver
  <1>13. CASE phase' # "idle"
    <2>1. start' = start /\ phase' \in {"merge", "finalize"}
      BY <1>1, <1>4, <1>13
    <2>2. OnTime' /\ OnTheHour'
      BY <1>1, <1>2, <1>3, <1>4, <2>1 DEF Quiet, OnTime, OnTheHour, HourOf
    <2>3. SeenWindows'
      BY <1>1, <1>2, <1>7, <2>1 DEF Quiet, SeenWindows, Windows
    <2>4. MergedSoFar'
      <3>1. CASE next < Len(Services)
        <4>1. phase' = "merge" /\ next' = next + 1
          BY <1>1, <1>4, <3>1
        <4>2. \A i \in DOMAIN Services : i < next' => i <= next
          BY <1>5, <4>1
        <4> QED BY <1>2, <1>10, <2>1, <4>1, <4>2 DEF MergedSoFar, HourOf, k
      <3>2. CASE ~(next < Len(Services))
        <4>1. phase' = "finalize"
          BY <1>4, <1>13, <3>2
        <4> QED BY <1>2, <1>11, <2>1, <3>2, <4>1 DEF MergedSoFar, HourOf, k
      <3> QED BY <3>1, <3>2
    <2>5. Closed'
      <3> SUFFICES ASSUME NEW h \in Hours \ disturbed, (h + 1) * Hour <= now
                   PROVE  /\ (h + 1) * Hour <= start
                               => \A b \in Biz : hourly'[h][b].status = "final"
                          /\ phase' = "finalize" => \A i \in DOMAIN Services : ~(i < next')
        BY <1>2, <1>13, <2>1 DEF Closed
      <3>1. ASSUME (h + 1) * Hour <= start, NEW b \in Biz
            PROVE  hourly'[h][b].status = "final"
        <4>1. h < k /\ h \in Int /\ k \in Int
          BY <3>1, HourTypes, HourPassed DEF k
        <4>2. h # k
          BY <4>1
        <4> QED BY <1>7, <3>1, <4>2 DEF Quiet, Closed
      <3>2. ASSUME phase' = "finalize", NEW i \in DOMAIN Services PROVE ~(i < next')
        <4>1. next' = 1
          BY <1>1, <1>4, <3>2
        <4> QED BY <1>5, <4>1
      <3> QED BY <3>1, <3>2
    <2> QED BY <1>9, <2>2, <2>3, <2>4, <2>5 DEF Quiet
  <1> QED BY <1>12, <1>13

LEMMA QuietFinalize == Typed /\ Quiet /\ FinalizeService => Quiet'
  <1> SUFFICES ASSUME Typed, Quiet, FinalizeService PROVE Quiet'
    OBVIOUS
  <1> DEFINE k == HourClosed
             c == Services[next]
  <1>1. /\ phase = "finalize" /\ k \in Hours /\ c \in Biz
        /\ \A h \in Hours, b \in Biz :
             hourly'[h][b] = IF h = k /\ b = c THEN Finalized(h, b) ELSE hourly[h][b]
    BY FinalizeEffect
  <1>2. UNCHANGED <<now, disturbed>>
    BY DEF FinalizeService
  <1>3. /\ next < Len(Services) => /\ next' = next + 1
                                   /\ UNCHANGED <<phase, start>>
        /\ ~(next < Len(Services)) => /\ next = Len(Services) /\ next' = 1
                                      /\ phase' = "idle"
        /\ phase' # "idle" => start' = start
    BY AdvanceType DEF FinalizeService
  <1>4. Len(Services) \in Nat /\ next \in 1 .. Len(Services)
        /\ DOMAIN Services = 1 .. Len(Services)
    BY Constants DEF Typed, TypeOK
  <1>5. /\ Finalized(k, c).seen = hourly[k][c].seen
        /\ Finalized(k, c).status = "final" <=> Expected(k) \subseteq hourly[k][c].seen
    BY <1>1, FinalizedType
  <1>6. \A h \in Hours, b \in Biz : hourly'[h][b].seen = hourly[h][b].seen
    BY <1>1, <1>5
  <1>7. SeenInHour'
    BY <1>6 DEF Quiet, SeenInHour, HourOf
  <1>8. now % Hour = 0 /\ now \in Int /\ k \in Int /\ now = (k + 1) * Hour
    <2>1. now % Hour = 0
      BY <1>1 DEF Quiet, OnTheHour
    <2>2. HourOf(now - 1) = HourOf(now) - 1 /\ HourOf(now) * Hour = now /\ HourOf(now) \in Int
      BY <1>1, <2>1, HourTypes, HourEnd
    <2> QED BY <1>1, <2>1, <2>2, HourTypes DEF HourClosed
  <1>9. ASSUME k \notin disturbed PROVE Finalized(k, c).status = "final"
    <2> SUFFICES ASSUME NEW w \in Expected(k) PROVE w \in hourly[k][c].seen
      BY <1>5
    <2>1. w \in Times /\ HourOf(w) = k /\ w \in Int
      BY DEF Expected, Times
    <2>2. w < (k + 1) * Hour
      BY <2>1, HourBounds
    <2>3. w \in Windows(k)
      BY <1>8, <2>2 DEF Windows
    <2>4. CASE w = start
      BY <1>1, <1>9, <2>1, <2>4 DEF Quiet, MergedSoFar
    <2>5. CASE w # start
      BY <1>1, <1>9, <2>3, <2>5 DEF Quiet, SeenWindows
    <2> QED BY <2>4, <2>5
  <1>10. ASSUME NEW h \in Hours \ disturbed, NEW b \in Biz, hourly[h][b].status = "final"
         PROVE  hourly'[h][b].status = "final"
    BY <1>1, <1>9, <1>10
  <1>11. ASSUME k \notin disturbed, NEW i \in DOMAIN Services, i <= next
         PROVE  hourly'[k][Services[i]].status = "final"
    <2>1. CASE i = next
      BY <1>1, <1>9, <1>11, <2>1
    <2>2. CASE i # next
      <3>1. i < next /\ Services[i] \in Biz
        <4>1. Services[i] \in Biz
          BY <1>4, Constants
        <4> QED BY <1>4, <1>11, <2>2, <4>1
      <3>2. (k + 1) * Hour <= now
        BY <1>8
      <3>3. hourly[k][Services[i]].status = "final"
        BY <1>1, <1>11, <3>1, <3>2 DEF Quiet, Closed
      <3> QED BY <1>1, <1>10, <1>11, <3>1, <3>3
    <2> QED BY <2>1, <2>2
  <1>12. ASSUME k \notin disturbed, ~(next < Len(Services)), NEW b \in Biz
         PROVE  hourly'[k][b].status = "final"
    <2>1. PICK i \in 1 .. Len(Services) : b = Services[i]
      BY Constants
    <2>2. i \in DOMAIN Services /\ i <= next
      BY <1>3, <1>4, <1>12, <2>1
    <2> QED BY <1>11, <1>12, <2>1, <2>2
  <1> HIDE DEF k, c
  <1>13. CASE phase' = "idle"
    <2>1. ~(next < Len(Services))
      BY <1>1, <1>3, <1>13
    <2>2. ASSUME NEW h \in Hours \ disturbed', NEW b \in Biz, (h + 1) * Hour <= now
          PROVE  hourly'[h][b].status = "final"
      <3>1. CASE h = k
        BY <1>2, <1>12, <2>1, <2>2, <3>1
      <3>2. CASE h # k
        <4>1. (h + 1) * Hour <= start
          BY <1>1, <1>2, <2>2, <3>2, ClosingRun DEF Quiet, k
        <4>2. hourly[h][b].status = "final"
          BY <1>2, <2>2, <4>1 DEF Quiet, Closed
        <4> QED BY <1>2, <1>10, <2>2, <4>2
      <3> QED BY <3>1, <3>2
    <2>3. ASSUME NEW h \in Hours \ disturbed', NEW b \in Biz, h = HourOf(start)
          PROVE  start \in hourly'[h][b].seen
      BY <1>1, <1>2, <1>6, <2>3 DEF Quiet, MergedSoFar
    <2> QED BY <1>1, <1>2, <1>6, <1>7, <1>13, <2>2, <2>3, QuietOver
  <1>14. CASE phase' # "idle"
    <2>1. start' = start /\ phase' = "finalize" /\ next' = next + 1
      BY <1>1, <1>3, <1>14
    <2>2. OnTime' /\ OnTheHour'
      BY <1>1, <1>2, <1>8, <2>1 DEF Quiet, OnTime, OnTheHour, HourOf
    <2>3. SeenWindows'
      BY <1>1, <1>2, <1>6, <2>1 DEF Quiet, SeenWindows, Windows
    <2>4. MergedSoFar'
      <3> SUFFICES ASSUME HourOf(start) \notin disturbed
                   PROVE  \A b \in Biz : start \in hourly'[HourOf(start)][b].seen
        BY <1>2, <2>1 DEF MergedSoFar, HourOf
      <3>1. HourOf(start) \in Hours
        BY HourType DEF Typed, TypeOK
      <3> QED BY <1>1, <1>6, <3>1 DEF Quiet, MergedSoFar
    <2>5. Closed'
      <3> SUFFICES ASSUME NEW h \in Hours \ disturbed, (h + 1) * Hour <= now
                   PROVE  /\ (h + 1) * Hour <= start
                               => \A b \in Biz : hourly'[h][b].status = "final"
                          /\ h = k => \A i \in DOMAIN Services :
                               i < next' => hourly'[h][Services[i]].status = "final"
        BY <1>2, <2>1 DEF Closed, HourClosed, HourOf, k
      <3>1. ASSUME (h + 1) * Hour <= start, NEW b \in Biz
            PROVE  hourly'[h][b].status = "final"
        BY <1>10, <3>1 DEF Quiet, Closed
      <3>2. ASSUME h = k, NEW i \in DOMAIN Services, i < next'
            PROVE  hourly'[h][Services[i]].status = "final"
        <4>1. i <= next
          BY <1>4, <2>1, <3>2
        <4> QED BY <1>11, <3>2, <4>1
      <3> QED BY <3>1, <3>2
    <2> QED BY <1>7, <2>2, <2>3, <2>4, <2>5 DEF Quiet
  <1> QED BY <1>13, <1>14

LEMMA QuietStartRun == Typed /\ Quiet /\ StartRun => Quiet'
  <1> SUFFICES ASSUME Typed, Quiet, StartRun PROVE Quiet'
    OBVIOUS
  <1>1. PICK t \in (now + 1) .. MaxTime :
          /\ now' = t
          /\ start' = IF t - cursor > GapThreshold THEN t - CollectMinutes ELSE cursor
          /\ disturbed' = IF t - now = Period /\ t % Period = 0 /\ cursor = now
                          THEN disturbed
                          ELSE disturbed \union Touched(now, t) \union Touched(cursor, t)
    BY DEF StartRun
  <1>2. phase = "idle" /\ phase' = "download" /\ UNCHANGED hourly
    BY DEF StartRun
  <1>3. /\ now \in Nat /\ cursor \in Nat /\ t \in Nat /\ t > now /\ cursor <= now
        /\ GapThreshold \in Nat /\ CollectMinutes \in Nat
        /\ CollectMinutes <= GapThreshold /\ Period <= GapThreshold
        /\ Period \in Nat \ {0}
    BY <1>1, StatsAssumption DEF Typed, TypeOK, Ordered, Times
  <1>4. start' \in Nat /\ cursor <= start' /\ start' <= t
    BY <1>1, <1>3
  <1>5. /\ HourOf(now) \in Int /\ HourOf(cursor) \in Int /\ HourOf(t) \in Int
        /\ HourOf(start') \in Int /\ HourOf(cursor) <= HourOf(start')
        /\ HourOf(start') <= HourOf(t)
    BY <1>3, <1>4, HourBounds, HourMonotone
  <1>6. disturbed \subseteq disturbed' /\ \A h \in Hours : h \in Nat
    BY <1>1 DEF Hours
  <1> DEFINE onTime == t - now = Period /\ t % Period = 0 /\ cursor = now
  <1>7. ASSUME onTime PROVE start' = now /\ start' + Period = t /\ start' % Period = 0
    <2>1. start' = now /\ start' + Period = t
      BY <1>1, <1>3, <1>7
    <2>2. (t - Period) % Period = 0
      <3>1. Period % Period = 0 /\ Period \in Int
        BY StatsAssumption
      <3>2. t % Period = 0 /\ t \in Int
        BY <1>3, <1>7
      <3> QED BY <3>1, <3>2, SumMultiple
    <2> QED BY <1>3, <2>1, <2>2
  <1>8. ASSUME NEW h \in Hours \ disturbed', ~onTime
        PROVE  /\ h < HourOf(now) \/ h > HourOf(t)
               /\ h < HourOf(cursor) \/ h > HourOf(t)
    BY <1>1, <1>5, <1>6, <1>8 DEF Touched
  <1> HIDE DEF onTime
  <1>9. SeenInHour' /\ OnTheHour'
    BY <1>2 DEF Quiet, SeenInHour, OnTheHour, HourOf
  <1>10. OnTime'
    <2> SUFFICES ASSUME NEW h \in Hours \ disturbed', HourOf(start') <= h, h <= HourOf(t)
                 PROVE  start' + Period = t /\ start' % Period = 0
      BY <1>1 DEF OnTime, HourOf
    <2>1. onTime
      BY <1>5, <1>6, <1>8
    <2> QED BY <1>7, <2>1
  <1>11. ASSUME NEW h \in Hours \ disturbed', NEW w \in Expected(h), w # start'
         PROVE  w < t <=> w < now
    <2>1. w \in Times /\ w \in Int /\ HourOf(w) = h /\ w % Period = 0
      BY ExpectedIs DEF Expected, Times
    <2>2. CASE onTime
      <3>1. start' = now /\ start' + Period = t /\ start' % Period = 0
        BY <1>7, <2>2
      <3>2. now < w /\ w <= now + Period => w = now + Period
        BY <1>3, <2>1, <3>1, NextMultiple
      <3> QED BY <1>3, <1>11, <2>1, <3>1, <3>2
    <2>3. CASE ~onTime
      <3>1. h < HourOf(now) \/ h > HourOf(t)
        BY <1>8, <2>3
      <3>2. now <= w => HourOf(now) <= h
        BY <1>3, <2>1, HourMonotone
      <3>3. w <= t => h <= HourOf(t)
        BY <1>3, <2>1, HourMonotone
      <3> QED BY <1>3, <1>5, <1>6, <2>1, <3>1, <3>2, <3>3
    <2> QED BY <2>2, <2>3
  <1>12. SeenWindows'
    <2> SUFFICES ASSUME NEW h \in Hours \ disturbed', NEW b \in Biz
                 PROVE  hourly[h][b].seen \ {start'} = {w \in Expected(h) : w < t} \ {start'}
      BY <1>1, <1>2 DEF SeenWindows, Windows, Expected, HourOf
    <2>1. hourly[h][b].seen = {w \in Expected(h) : w < now}
      BY <1>2, <1>6 DEF Quiet, SeenWindows, Windows
    <2> QED BY <1>11, <2>1
  <1>13. MergedSoFar'
    <2> SUFFICES ASSUME HourOf(start') \notin disturbed', NEW b \in Biz
                 PROVE  start' \notin hourly[HourOf(start')][b].seen
      BY <1>2 DEF MergedSoFar, HourOf
    <2>1. start' \in Times
      BY <1>1, <1>4, StatsAssumption DEF Times
    <2>2. HourOf(start') \in Hours
      BY <2>1, HourType
    <2>3. onTime
      BY <1>5, <1>8, <2>2
    <2>4. start' = now
      BY <1>7, <2>3
    <2>5. hourly[HourOf(start')][b].seen = {w \in Expected(HourOf(start')) : w < now}
      BY <1>2, <1>6, <2>2 DEF Quiet, SeenWindows, Windows
    <2> QED BY <1>3, <2>4, <2>5
  <1>14. Closed'
    <2> SUFFICES ASSUME NEW h \in Hours \ disturbed', (h + 1) * Hour <= t,
                        (h + 1) * Hour <= start', NEW b \in Biz
                 PROVE  hourly[h][b].status = "final"
      BY <1>1, <1>2 DEF Closed
    <2>1. h \in Int /\ h < HourOf(start') /\ h < HourOf(t)
      BY <1>3, <1>4, <1>6, HourPassed
    <2>2. (h + 1) * Hour <= now
      <3>1. CASE onTime
        BY <1>7, <3>1
      <3>2. CASE ~onTime
        <4>1. h < HourOf(now)
          BY <1>5, <1>8, <2>1, <3>2
        <4> QED BY <1>3, <2>1, <4>1, HourPassed
      <3> QED BY <3>1, <3>2
    <2> QED BY <1>2, <1>6, <2>2 DEF Quiet, Closed
  <1> QED BY <1>9, <1>10, <1>12, <1>13, <1>14 DEF Quiet

LEMMA QuietStep == Typed /\ Quiet /\ [Next]_vars => Quiet'
  <1> SUFFICES ASSUME Typed, Quiet, [Next]_vars PROVE Quiet'
    OBVIOUS
  <1>1. CASE UNCHANGED vars
    BY <1>1 DEF vars, run, Quiet, SeenInHour, OnTime, OnTheHour, SeenWindows, Windows,
                MergedSoFar, Closed, HourClosed, HourOf
  <1>2. CASE Next
    BY <1>2, QuietStartRun, QuietDownload, QuietFails, QuietMerge, QuietFinalize DEF Next
  <1> QED BY <1>1, <1>2

LEMMA FilesExactStep == Typed /\ Quiet /\ FilesExact /\ [Next]_vars => FilesExact'
  <1> SUFFICES ASSUME Typed, Quiet, FilesExact, [Next]_vars PROVE FilesExact'
    OBVIOUS
  <1>1. CASE UNCHANGED vars
    BY <1>1 DEF vars, run, FilesExact, Due, Pending, FindLatestDownloadManifest
  <1>2. CASE Next
    <2> SUFFICES ASSUME NEW h \in Hours \ disturbed', NEW b \in Biz
                 PROVE  (hourly[h][b].files + Due(h, b) = tally[h][b])'
      BY DEF FilesExact
    <2>1. Typed' /\ Quiet'
      BY TypedStep, QuietStep
    <2>2. h \in Hours \ disturbed
      BY <1>2 DEF Next, StartRun, Download, DownloadAgain, DownloadFails, WriteFiveMin,
                  WriteFiveMinFails, MergeService, FinalizeService, HourlyFails, Fail
    <2>3. hourly[h][b].files + Due(h, b) = tally[h][b]
      BY <2>2 DEF FilesExact
    <2>4. /\ Due(h, b) \in Nat /\ hourly[h][b].files \in Nat /\ tally[h][b] \in Nat
          /\ Due(h, b)' \in Nat /\ hourly'[h][b].files \in Nat /\ tally'[h][b] \in Nat
      BY <2>1, DueType, DueTypeNext
    <2>5. ~(WriteFiveMinFails \/ HourlyFails) \/ phase' # "idle" \/ h # HourOf(start)
      <3> SUFFICES ASSUME WriteFiveMinFails \/ HourlyFails, phase' = "idle"
                   PROVE  h # HourOf(start)
        OBVIOUS
      <3>1. Fail /\ phase \in {"five", "merge", "finalize"}
        BY DEF WriteFiveMinFails, HourlyFails
      <3>2. disturbed' = disturbed \union Touched(start, now)
        BY <3>1 DEF Fail
      <3>3. HourOf(start) \in Touched(start, now)
        BY HourTypes DEF Touched
      <3> QED BY <3>2, <3>3
    <2>6. phase' = "idle" /\ h = HourOf(start) /\ ~(WriteFiveMinFails \/ HourlyFails)
            => start \in hourly'[h][b].seen
      <3> SUFFICES ASSUME phase' = "idle", h = HourOf(start),
                          ~(WriteFiveMinFails \/ HourlyFails)
                   PROVE  start \in hourly'[h][b].seen
        OBVIOUS
      <3>1. phase # "idle" /\ UNCHANGED now
        BY <1>2 DEF Next, StartRun, Download, DownloadAgain, DownloadFails, WriteFiveMin,
                    MergeService, FinalizeService
      <3>2. start \in Windows(h)
        BY <2>2, <3>1, InHand DEF Quiet
      <3>3. hourly'[h][b].seen = Windows(h)'
        BY <2>1 DEF Quiet, SeenWindows
      <3> QED BY <3>1, <3>2, <3>3 DEF Windows
    <2>7. (Download \/ DownloadFails) /\ h = HourOf(start) => start \notin hourly[h][b].seen
      BY <2>2 DEF Download, DownloadFails, Quiet, MergedSoFar
    <2>8. hourly'[h][b].files + Due(h, b)' - tally'[h][b]
            = hourly[h][b].files + Due(h, b) - tally[h][b]
      BY <1>2, <2>2, <2>5, <2>6, <2>7, DueStep
    <2>9. ASSUME NEW n, NEW d, NEW t,
                 n = hourly'[h][b].files, d = Due(h, b)', t = tally'[h][b]
          PROVE  n + d = t
      <3>1. n \in Nat /\ d \in Nat /\ t \in Nat
        BY <2>4, <2>9
      <3>2. n + d - t = 0
        BY <2>3, <2>4, <2>8, <2>9
      <3> QED BY <3>1, <3>2
    <2> QED BY <2>9
  <1> QED BY <1>1, <1>2

LEMMA QuietAlways == Spec => [](Typed /\ Quiet /\ FilesExact)
  BY TypedInit, TypedStep, QuietInit, QuietStep, FilesExactStep, PTL DEF Spec

\* An hour whose runs were on time and have succeeded is final when it is over, for
\* every service, has missed no window, and shows every file that its runs have
\* downloaded, however often attempts of the statistics tasks were repeated.
THEOREM QuietHourHolds == Spec => []QuietHourFinal
  <1>1. Typed /\ Quiet /\ FilesExact => QuietHourFinal
    <2> SUFFICES ASSUME Typed, Quiet, FilesExact, phase = "idle",
                        NEW h \in Hours \ disturbed, (h + 1) * Hour <= now, NEW b \in Biz
                 PROVE  hourly[h][b].status = "final" /\ hourly[h][b].files = tally[h][b]
      BY DEF QuietHourFinal
    <2>1. Due(h, b) = 0 /\ hourly[h][b].files \in Nat
      BY NothingDue, DueType
    <2> QED BY <2>1 DEF Quiet, Closed, FilesExact
  <1> QED BY <1>1, QuietAlways, PTL

-------------------------------------------------------------------------------
(* Sums over the services.  The theorems on induction of the library take a  *)
(* predicate; a set of numbers serves as well.                               *)

LEMMA SetInduction ==
    ASSUME NEW G, 0 \in G, \A n \in Nat : n \in G => n + 1 \in G
    PROVE  \A n \in Nat : n \in G
  <1> DEFINE Rest == {n \in Nat : n \notin G}
  <1> SUFFICES ASSUME Rest # {} PROVE FALSE
    OBVIOUS
  <1>1. PICK n \in Rest : \A m \in Rest : ~(<<m, n>> \in OpToRel(<, Nat))
    BY NatLessThanWellFounded, WFMin, Zenon
  <1>2. \A m \in Rest : ~(m < n)
    BY <1>1 DEF OpToRel
  <1>3. n \in Nat /\ n # 0 /\ n - 1 \in Nat /\ n - 1 < n
    OBVIOUS
  <1>4. n - 1 \in G
    BY <1>2, <1>3
  <1>5. (n - 1) + 1 \in G
    BY <1>3, <1>4
  <1>6. (n - 1) + 1 = n
    BY <1>3
  <1> QED BY <1>5, <1>6

Pick(s) == CHOOSE x \in s : TRUE

\* The sums of a function over the sets of a family, and over the subsets of a set.
SumsOn(family, f, g) ==
    g = [s \in family |-> IF s = {} THEN 0 ELSE f[Pick(s)] + g[s \ {Pick(s)}]]

Sums(f, S, g) == SumsOn(SUBSET S, f, g)

UpTo(S, n) == {s \in SUBSET S : Cardinality(s) <= n}

LEMMA Smaller ==
    ASSUME NEW S, IsFiniteSet(S), NEW n \in Nat, NEW s \in UpTo(S, n + 1), s # {}
    PROVE  Pick(s) \in s /\ Pick(s) \in S /\ s \ {Pick(s)} \in UpTo(S, n)
  <1>1. Pick(s) \in s
    BY DEF Pick
  <1>2. IsFiniteSet(s) /\ s \subseteq S /\ Cardinality(s) \in Nat /\ Cardinality(s) <= n + 1
    BY FS_Subset, FS_CardinalityType DEF UpTo
  <1>3. Cardinality(s \ {Pick(s)}) = Cardinality(s) - 1
    BY <1>1, <1>2, FS_RemoveElement
  <1> QED BY <1>1, <1>2, <1>3 DEF UpTo

LEMMA Nothing ==
    ASSUME NEW S, IsFiniteSet(S), NEW s
    PROVE  s \in UpTo(S, 0) <=> s = {}
  <1>1. ASSUME s \in UpTo(S, 0) PROVE s = {}
    <2>1. IsFiniteSet(s) /\ Cardinality(s) \in Nat /\ Cardinality(s) <= 0
      BY <1>1, FS_Subset, FS_CardinalityType DEF UpTo
    <2> QED BY <2>1, FS_EmptySet
  <1>2. {} \in UpTo(S, 0)
    BY FS_EmptySet DEF UpTo
  <1> QED BY <1>1, <1>2

LEMMA SumsExist ==
    ASSUME NEW f, NEW S, IsFiniteSet(S)
    PROVE  \E g : Sums(f, S, g)
  <1> DEFINE G == {n \in Nat : \E g : SumsOn(UpTo(S, n), f, g)}
  <1>1. 0 \in G
    <2> DEFINE g == [s \in UpTo(S, 0) |-> 0]
    <2>1. SumsOn(UpTo(S, 0), f, g)
      BY Nothing DEF SumsOn
    <2> QED BY <2>1
  <1>2. ASSUME NEW n \in Nat, n \in G PROVE n + 1 \in G
    <2>1. PICK g : SumsOn(UpTo(S, n), f, g)
      BY <1>2
    <2> DEFINE k == [s \in UpTo(S, n + 1) |->
                       IF s = {} THEN 0 ELSE f[Pick(s)] + g[s \ {Pick(s)}]]
    <2>2. UpTo(S, n) \subseteq UpTo(S, n + 1)
      <3>1. \A s \in SUBSET S : Cardinality(s) \in Nat
        BY FS_Subset, FS_CardinalityType
      <3> QED BY <3>1 DEF UpTo
    <2>3. \A s \in UpTo(S, n) : k[s] = g[s]
      BY <2>1, <2>2 DEF SumsOn
    <2>4. \A s \in UpTo(S, n + 1) : s # {} => k[s \ {Pick(s)}] = g[s \ {Pick(s)}]
      BY <2>3, Smaller
    <2>5. k = [s \in UpTo(S, n + 1) |->
                 IF s = {} THEN 0 ELSE f[Pick(s)] + k[s \ {Pick(s)}]]
      BY <2>4
    <2>6. SumsOn(UpTo(S, n + 1), f, k)
      BY <2>5 DEF SumsOn
    <2> QED BY <2>6
  <1>3. Cardinality(S) \in Nat
    BY FS_CardinalityType
  <1>4. Cardinality(S) \in G
    <2> HIDE DEF G
    <2> QED BY <1>1, <1>2, <1>3, SetInduction
  <1>5. UpTo(S, Cardinality(S)) = SUBSET S
    BY FS_Subset DEF UpTo
  <1> QED BY <1>4, <1>5 DEF Sums

LEMMA SumIs ==
    ASSUME NEW f, NEW S, IsFiniteSet(S)
    PROVE  \E g : Sums(f, S, g) /\ SumFunctionOnSet(f, S) = g[S]
  <1>1. \E g : Sums(f, S, g)
    BY SumsExist
  <1> QED
    BY <1>1 DEF SumFunctionOnSet, FoldFunctionOnSet, MapThenFoldSet, Sums, SumsOn, Pick

\* The sum of two functions adds up to their sums.
LEMMA SumAdds ==
    ASSUME NEW S, IsFiniteSet(S), NEW e, NEW f, NEW k,
           \A x \in S : e[x] \in Int /\ f[x] \in Int /\ k[x] = e[x] + f[x]
    PROVE  /\ SumFunctionOnSet(e, S) \in Int /\ SumFunctionOnSet(f, S) \in Int
           /\ SumFunctionOnSet(k, S) = SumFunctionOnSet(e, S) + SumFunctionOnSet(f, S)
  <1>1. PICK a : Sums(e, S, a) /\ SumFunctionOnSet(e, S) = a[S]
    BY SumIs
  <1>2. PICK b : Sums(f, S, b) /\ SumFunctionOnSet(f, S) = b[S]
    BY SumIs
  <1>3. PICK c : Sums(k, S, c) /\ SumFunctionOnSet(k, S) = c[S]
    BY SumIs
  <1> DEFINE G == {n \in Nat : \A s \in UpTo(S, n) :
                     a[s] \in Int /\ b[s] \in Int /\ c[s] = a[s] + b[s]}
  <1>4. \A s \in SUBSET S :
          /\ a[s] = IF s = {} THEN 0 ELSE e[Pick(s)] + a[s \ {Pick(s)}]
          /\ b[s] = IF s = {} THEN 0 ELSE f[Pick(s)] + b[s \ {Pick(s)}]
          /\ c[s] = IF s = {} THEN 0 ELSE k[Pick(s)] + c[s \ {Pick(s)}]
    BY <1>1, <1>2, <1>3 DEF Sums, SumsOn
  <1>5. 0 \in G
    <2>1. a[{}] = 0 /\ b[{}] = 0 /\ c[{}] = 0
      BY <1>4
    <2> SUFFICES ASSUME NEW s \in UpTo(S, 0)
                 PROVE  a[s] \in Int /\ b[s] \in Int /\ c[s] = a[s] + b[s]
      OBVIOUS
    <2>2. s = {}
      BY Nothing
    <2> QED BY <2>1, <2>2
  <1>6. ASSUME NEW n \in Nat, n \in G PROVE n + 1 \in G
    <2> SUFFICES ASSUME NEW s \in UpTo(S, n + 1)
                 PROVE  a[s] \in Int /\ b[s] \in Int /\ c[s] = a[s] + b[s]
      OBVIOUS
    <2>1. CASE s = {}
      BY <1>4, <2>1
    <2>2. CASE s # {}
      <3> DEFINE x == Pick(s)
                 r == s \ {x}
      <3>1. x \in S /\ r \in UpTo(S, n) /\ s \in SUBSET S
        BY <2>2, Smaller DEF UpTo
      <3>2. a[r] \in Int /\ b[r] \in Int /\ c[r] = a[r] + b[r]
        BY <1>6, <3>1
      <3>3. a[s] = e[x] + a[r] /\ b[s] = f[x] + b[r] /\ c[s] = k[x] + c[r]
        BY <1>4, <2>2, <3>1
      <3>4. e[x] \in Int /\ f[x] \in Int /\ k[x] = e[x] + f[x]
        BY <3>1
      <3> HIDE DEF x, r
      <3> QED BY <3>2, <3>3, <3>4
    <2> QED BY <2>1, <2>2
  <1>7. Cardinality(S) \in G
    <2>1. Cardinality(S) \in Nat
      BY FS_CardinalityType
    <2> HIDE DEF G
    <2> QED BY <1>5, <1>6, <2>1, SetInduction
  <1>8. S \in UpTo(S, Cardinality(S))
    BY FS_CardinalityType DEF UpTo
  <1> QED BY <1>1, <1>2, <1>3, <1>7, <1>8

LEMMA SumNone ==
    ASSUME NEW S, IsFiniteSet(S), NEW f, \A x \in S : f[x] = 0
    PROVE  SumFunctionOnSet(f, S) = 0
  <1>1. \A x \in S : f[x] \in Int /\ f[x] = f[x] + f[x]
    OBVIOUS
  <1>2. /\ SumFunctionOnSet(f, S) \in Int
        /\ SumFunctionOnSet(f, S) = SumFunctionOnSet(f, S) + SumFunctionOnSet(f, S)
    BY <1>1, SumAdds
  <1> QED BY <1>2

\* In every manifest, and so in every tally, "all" is the sum of the other services.
Whole(files) == files[All] = SumFunctionOnSet(files, Biz \ {All})

Summed == Whole(manifest.files) /\ \A h \in Hours : Whole(tally[h])

LEMMA Others == IsFiniteSet(Biz \ {All}) /\ All \in Biz
  <1>1. All \in Biz
    BY StatsAssumption DEF Biz
  <1>2. IsFiniteSet(1 .. Len(Services))
    BY Constants, FS_Interval
  <1> DEFINE service == [i \in 1 .. Len(Services) |-> Services[i]]
  <1>3. service \in Surjection(1 .. Len(Services), Biz)
    BY Constants DEF Surjection
  <1>4. IsFiniteSet(Biz)
    BY <1>2, <1>3, FS_Surjection
  <1> QED BY <1>1, <1>4, FS_Subset

LEMMA WholeNone == Whole(NoFiles)
  <1>1. NoFiles[All] = 0 /\ \A b \in Biz \ {All} : NoFiles[b] = 0
    BY Others DEF NoFiles
  <1> QED BY <1>1, Others, SumNone DEF Whole

LEMMA WholeAdds ==
    ASSUME NEW e \in [Biz -> Nat], NEW f \in [Biz -> Nat], Whole(e), Whole(f)
    PROVE  Whole([b \in Biz |-> e[b] + f[b]])
  <1> DEFINE k == [b \in Biz |-> e[b] + f[b]]
  <1>1. \A b \in Biz \ {All} : e[b] \in Int /\ f[b] \in Int /\ k[b] = e[b] + f[b]
    OBVIOUS
  <1>2. k[All] = e[All] + f[All]
    BY Others
  <1> HIDE DEF k
  <1>3. SumFunctionOnSet(k, Biz \ {All})
          = SumFunctionOnSet(e, Biz \ {All}) + SumFunctionOnSet(f, Biz \ {All})
    BY <1>1, Others, SumAdds
  <1>4. Whole(k)
    BY <1>2, <1>3 DEF Whole
  <1> QED BY <1>4 DEF k

LEMMA SummedInit == Init => Summed
  <1> SUFFICES ASSUME Init PROVE Summed
    OBVIOUS
  <1>1. manifest.files = NoFiles
    BY DEF Init, NoManifest
  <1>2. \A h \in Hours : tally[h] = NoFiles
    BY DEF Init, NoFiles
  <1> QED BY <1>1, <1>2, WholeNone DEF Summed

LEMMA SummedStep == Typed /\ Summed /\ [Next]_vars => Summed'
  <1> SUFFICES ASSUME Typed, Summed, [Next]_vars PROVE Summed'
    OBVIOUS
  <1>1. CASE UNCHANGED <<manifest, tally>>
    BY <1>1 DEF Summed, Whole
  <1>2. CASE Download \/ DownloadAgain \/ DownloadFails
    <2>1. manifest' = manifest \/ \E files \in Manifests : manifest' = Manifest(files)
      BY <1>2 DEF Download, DownloadAgain, DownloadFails
    <2>2. \A files \in Manifests : Whole(files)
      BY DEF Manifests, Whole
    <2>3. Whole(manifest'.files)
      BY <2>1, <2>2 DEF Summed, Manifest
    <2>4. CASE DownloadAgain
      BY <2>3, <2>4 DEF DownloadAgain, Summed, Whole
    <2>5. CASE Download \/ DownloadFails
      <3> DEFINE files == IF manifest'.at = now THEN manifest'.files ELSE NoFiles
                 k == HourOf(start)
      <3>1. Count(files)
        <4>1. CASE Download
          BY <4>1 DEF Download, Manifest
        <4>2. CASE DownloadFails
          BY <4>2 DEF DownloadFails
        <4> QED BY <2>5, <4>1, <4>2
      <3>2. Whole(files)
        BY <2>3, WholeNone
      <3>3. Typed'
        BY <1>2, TypedDownload
      <3>4. files \in [Biz -> Nat]
        BY <3>3 DEF Typed, TypeOK, NoFiles
      <3>5. k \in Hours /\ tally \in [Hours -> [Biz -> Nat]]
        BY HourType DEF Typed, TypeOK
      <3> HIDE DEF files
      <3>6. tally' = [tally EXCEPT ![k] = [b \in Biz |-> tally[k][b] + files[b]]]
        BY <3>1, <3>5 DEF Count
      <3> HIDE DEF k
      <3>7. ASSUME NEW h \in Hours PROVE Whole(tally'[h])
        <4>1. CASE h = k
          <5>1. tally'[h] = [b \in Biz |-> tally[k][b] + files[b]]
            BY <3>5, <3>6, <4>1
          <5>2. tally[k] \in [Biz -> Nat] /\ Whole(tally[k])
            BY <3>5 DEF Summed
          <5> QED BY <3>2, <3>4, <5>1, <5>2, WholeAdds
        <4>2. CASE h # k
          <5>1. tally'[h] = tally[h]
            BY <3>5, <3>6, <4>2
          <5> QED BY <5>1 DEF Summed
        <4> QED BY <4>1, <4>2
      <3> QED BY <2>3, <3>7 DEF Summed, Whole
    <2> QED BY <1>2, <2>4, <2>5
  <1> QED
    BY <1>1, <1>2
       DEF Next, vars, run, StartRun, WriteFiveMin, WriteFiveMinFails, MergeService,
           FinalizeService, HourlyFails

\* Between two runs the services of an undisturbed hour have seen the same windows,
\* and "all" shows the files of the other services together, though every service
\* has an object of its own and the task may die between any two of them.
THEOREM ServicesAgreeHolds == Spec => []ServicesAgree
  <1>1. Typed /\ Quiet /\ FilesExact /\ Summed => ServicesAgree
    <2> SUFFICES ASSUME Typed, Quiet, FilesExact, Summed, phase = "idle",
                        NEW h \in Hours \ disturbed
                 PROVE  /\ \A b, c \in Biz : hourly[h][b].seen = hourly[h][c].seen
                        /\ hourly[h][All].files =
                             SumFunctionOnSet([b \in Biz |-> hourly[h][b].files],
                                              Biz \ {All})
      BY DEF ServicesAgree
    <2>1. \A b \in Biz : hourly[h][b].seen = Windows(h)
      BY DEF Quiet, SeenWindows
    <2>2. \A b \in Biz : hourly[h][b].files = tally[h][b]
      <3> SUFFICES ASSUME NEW b \in Biz PROVE hourly[h][b].files = tally[h][b]
        OBVIOUS
      <3>1. Due(h, b) = 0 /\ hourly[h][b].files \in Nat
        BY NothingDue, DueType
      <3> QED BY <3>1 DEF FilesExact
    <2>3. tally[h] \in [Biz -> Nat] /\ Whole(tally[h])
      BY DEF Typed, TypeOK, Summed
    <2>4. [b \in Biz |-> hourly[h][b].files] = tally[h]
      BY <2>2, <2>3
    <2> QED BY <2>1, <2>2, <2>3, <2>4, Others DEF Whole
  <1> QED BY <1>1, QuietAlways, SummedInit, SummedStep, PTL DEF Spec

-------------------------------------------------------------------------------
(* The status report, while the Lambdas go on.                              *)

Moments == {-1} \union 0 .. clock

\* Times lie behind the clock, the start of the report as well.
TimesOK ==
    /\ clock \in Nat /\ began \in 0 .. clock
    /\ modified \in [Files -> Moments]
    /\ texts \in [Keys -> Moments] /\ fields \in [Keys -> Moments]
    /\ logs = [k \in Keys |-> logs[k]]
    /\ \A k \in Keys : \A e \in logs[k] : e.at \in 0 .. clock

\* Of the files listed, those with an hour are looked at or still to do.
LookedAt ==
    /\ listed = [f \in DOMAIN listed |-> listed[f]]
    /\ DOMAIN listed \subseteq Files
    /\ \A f \in DOMAIN listed : listed[f] \in Int
    /\ reportPc # "idle" =>
         {f \in DOMAIN listed : Parses(f)} = DOMAIN statuses \union todoFiles
    /\ DOMAIN events \subseteq DOMAIN statuses
    /\ reportPc = "idle" => DOMAIN statuses = {} /\ DOMAIN events = {} /\ head = NoHead

\* What is known of the text was so when the report began, or later.
SeenText(f, seen) ==
    /\ seen => texts[KeyOf(f)] >= 0
    /\ texts[KeyOf(f)] \in 0 .. began - 1 => seen

HeadTrue == head # NoHead => head.file \in todoFiles /\ SeenText(head.file, head.text)

\* The status of a file agrees with what was written before the report and what is there.
StatusTrue(f) ==
    LET k == KeyOf(f)
        status == statuses[f].status
    IN  /\ status = "qualified" => fields[k] >= 0
        /\ fields[k] \in 0 .. began - 1 => status = "qualified"
        /\ status = "extracted_stalled" => texts[k] >= 0
        /\ texts[k] \in 0 .. began - 1 => status # "raw_stalled"
        /\ (fields[k] = -1 /\ began - listed[f] >= Stall) =>
               status \in {"extracted_stalled", "raw_stalled"}

AllStatusesTrue == \A f \in DOMAIN statuses : StatusTrue(f)

\* Where nothing was found, nothing was logged between the file and the report.
NoTrace(f) ==
    events[f] = {} =>
        \A e \in logs[KeyOf(f)] : e.group = f.ext => e.at < listed[f] \/ e.at >= began

TracesTrue == \A f \in DOMAIN events \ givenUp : NoTrace(f)

Complete == reportPc = "done" => todoFiles = {} /\ Stalled \subseteq DOMAIN events

ReportInv ==
    /\ TimesOK /\ LookedAt /\ HeadTrue /\ AllStatusesTrue /\ TracesTrue /\ Complete

LEMMA ReportInitHolds == ASSUME ReportInit PROVE ReportInv
  BY DEF ReportInit, ReportInv, TimesOK, Moments, LookedAt, HeadTrue, AllStatusesTrue,
         TracesTrue, Complete

LEMMA KeyIsKey == \A f \in Files : KeyOf(f) \in Keys
  BY DEF Keys

\* A step of the Lambdas: what was written stays, and what is new is not older than the
\* report.
Onward ==
    /\ UNCHANGED report
    /\ \A k \in Keys : /\ texts'[k] = texts[k] \/ (texts[k] = -1 /\ texts'[k] = clock)
                       /\ fields'[k] = fields[k] \/ (fields[k] = -1 /\ fields'[k] = clock)
                       /\ \A e \in logs'[k] : e \in logs[k] \/ e.at = clock

LEMMA LambdasGoOn ==
    ASSUME ReportInv, Onward, TimesOK'
    PROVE  ReportInv'
  <1>1. \A f \in Files : KeyOf(f) \in Keys
    BY KeyIsKey
  <1>2. /\ clock \in Nat /\ began \in 0 .. clock
        /\ \A k \in Keys : texts[k] \in Moments /\ fields[k] \in Moments
    BY DEF ReportInv, TimesOK
  <1>3. LookedAt' /\ Complete'
    BY DEF ReportInv, Onward, report, LookedAt, Complete, Stalled, NoHead
  <1>4. ASSUME NEW f \in Files
        PROVE  /\ texts[KeyOf(f)] >= 0 => texts'[KeyOf(f)] >= 0
               /\ texts'[KeyOf(f)] \in 0 .. began - 1 => texts[KeyOf(f)] \in 0 .. began - 1
    <2>2. texts'[KeyOf(f)] = texts[KeyOf(f)]
          \/ (texts[KeyOf(f)] = -1 /\ texts'[KeyOf(f)] = clock)
      BY <1>1 DEF Onward
    <2> QED BY <1>1, <1>2, <2>2 DEF Moments
  <1>5. HeadTrue'
    <2> SUFFICES ASSUME head # NoHead
                 PROVE  head.file \in todoFiles /\ SeenText(head.file, head.text)'
      BY DEF HeadTrue, SeenText, Onward, report, NoHead
    <2>1. head.file \in todoFiles /\ SeenText(head.file, head.text)
      BY DEF ReportInv, HeadTrue
    <2>2. head.file \in Files
      BY <2>1 DEF ReportInv, LookedAt
    <2>3. UNCHANGED <<head, began>>
      BY DEF Onward, report
    <2> QED BY <2>1, <2>2, <2>3, <1>4 DEF SeenText
  <1>6. AllStatusesTrue'
    <2> SUFFICES ASSUME NEW f \in DOMAIN statuses
                 PROVE  StatusTrue(f)'
      BY DEF AllStatusesTrue, Onward, report
    <2>1. StatusTrue(f) /\ f \in Files
      BY DEF ReportInv, AllStatusesTrue, LookedAt
    <2>2. /\ texts[KeyOf(f)] \in Moments /\ fields[KeyOf(f)] \in Moments
          /\ texts'[KeyOf(f)] = texts[KeyOf(f)]
             \/ (texts[KeyOf(f)] = -1 /\ texts'[KeyOf(f)] = clock)
          /\ fields'[KeyOf(f)] = fields[KeyOf(f)]
             \/ (fields[KeyOf(f)] = -1 /\ fields'[KeyOf(f)] = clock)
      BY <2>1, <1>1, <1>2 DEF Onward
    <2>3. began' = began /\ statuses' = statuses /\ listed' = listed
      BY DEF Onward, report
    <2> QED BY <1>2, <2>1, <2>2, <2>3 DEF StatusTrue, Moments
  <1>7. TracesTrue'
    <2> SUFFICES ASSUME NEW f \in DOMAIN events \ givenUp
                 PROVE  NoTrace(f)'
      BY DEF TracesTrue, Onward, report
    <2>1. NoTrace(f) /\ f \in Files
      BY DEF ReportInv, TracesTrue, LookedAt
    <2>2. \A e \in logs'[KeyOf(f)] : e \in logs[KeyOf(f)] \/ e.at = clock
      BY <2>1, <1>1 DEF Onward
    <2>3. began' = began /\ events' = events /\ listed' = listed
      BY DEF Onward, report
    <2> QED BY <1>2, <2>1, <2>2, <2>3 DEF NoTrace
  <1> QED BY <1>3, <1>5, <1>6, <1>7 DEF ReportInv

LEMMA LambdasStep ==
    ASSUME ReportInv,
           Tick \/ (\E f \in Files : Upload(f) \/ Deliver(f))
                \/ \E k \in Keys : StoreText(k) \/ StartLlm(k) \/ StoreFields(k)
    PROVE  ReportInv'
  <1>1. TimesOK
    BY DEF ReportInv
  <1>2. \A f \in Files : KeyOf(f) \in Keys
    BY KeyIsKey
  <1>3. ASSUME NEW k \in Keys, NEW group, NEW event, Log(k, group, event),
               UNCHANGED <<clock, began>>
        PROVE  /\ logs' = [x \in Keys |-> logs'[x]]
               /\ \A x \in Keys : \A e \in logs'[x] : e.at \in 0 .. clock'
               /\ \A x \in Keys : \A e \in logs'[x] : e \in logs[x] \/ e.at = clock
    <2> DEFINE entry == [group |-> group, event |-> event, at |-> clock]
    <2>1. entry.at = clock
      OBVIOUS
    <2>2. logs' = [logs EXCEPT ![k] = @ \union {entry}]
      BY <1>3 DEF Log
    <2> HIDE DEF entry
    <2>3. /\ logs' = [x \in Keys |-> logs'[x]]
          /\ \A x \in Keys : logs'[x] \subseteq logs[x] \union {entry}
      BY <1>1, <2>2 DEF TimesOK
    <2>4. clock \in Nat /\ \A x \in Keys : \A e \in logs[x] : e.at \in 0 .. clock
      BY <1>1 DEF TimesOK
    <2>5. \A x \in Keys : \A e \in logs'[x] : e \in logs[x] \/ e = entry
      BY <2>3
    <2> QED BY <1>3, <2>1, <2>3, <2>4, <2>5
  <1>4. CASE Tick
    <2>1. TimesOK'
      BY <1>1, <1>4 DEF Tick, TimesOK, Moments, report
    <2>2. Onward
      BY <1>4 DEF Tick, Onward
    <2> QED BY <2>1, <2>2, LambdasGoOn
  <1>5. ASSUME NEW f \in Files, Upload(f)
        PROVE  ReportInv'
    <2>1. TimesOK'
      BY <1>1, <1>5 DEF Upload, TimesOK, Moments, report
    <2>2. Onward
      BY <1>5 DEF Upload, Onward
    <2> QED BY <2>1, <2>2, LambdasGoOn
  <1>6. ASSUME NEW f \in Files, Deliver(f)
        PROVE  ReportInv'
    <2>1. /\ \E event : Log(KeyOf(f), f.ext, event)
          /\ UNCHANGED <<clock, began, modified, texts, fields, report>>
      BY <1>6 DEF Deliver, report
    <2>2. /\ logs' = [x \in Keys |-> logs'[x]]
          /\ \A x \in Keys : \A e \in logs'[x] : e.at \in 0 .. clock'
          /\ \A x \in Keys : \A e \in logs'[x] : e \in logs[x] \/ e.at = clock
      BY <1>2, <1>3, <2>1
    <2>3. TimesOK'
      BY <1>1, <2>1, <2>2 DEF TimesOK, Moments
    <2>4. Onward
      BY <2>1, <2>2 DEF Onward
    <2> QED BY <2>3, <2>4, LambdasGoOn
  <1>7. ASSUME NEW k \in Keys, StoreText(k)
        PROVE  ReportInv'
    <2>1. TimesOK'
      BY <1>1, <1>7 DEF StoreText, TimesOK, Moments, report
    <2>2. Onward
      BY <1>1, <1>7 DEF StoreText, Onward, TimesOK
    <2> QED BY <2>1, <2>2, LambdasGoOn
  <1>8. ASSUME NEW k \in Keys, StartLlm(k)
        PROVE  ReportInv'
    <2>1. /\ Log(k, "llm", "START")
          /\ UNCHANGED <<clock, began, modified, texts, fields, report>>
      BY <1>8 DEF StartLlm, report
    <2>2. /\ logs' = [x \in Keys |-> logs'[x]]
          /\ \A x \in Keys : \A e \in logs'[x] : e.at \in 0 .. clock'
          /\ \A x \in Keys : \A e \in logs'[x] : e \in logs[x] \/ e.at = clock
      BY <1>3, <2>1
    <2>3. TimesOK'
      BY <1>1, <2>1, <2>2 DEF TimesOK, Moments
    <2>4. Onward
      BY <2>1, <2>2 DEF Onward
    <2> QED BY <2>3, <2>4, LambdasGoOn
  <1>9. ASSUME NEW k \in Keys, StoreFields(k)
        PROVE  ReportInv'
    <2>1. TimesOK'
      BY <1>1, <1>9 DEF StoreFields, TimesOK, Moments, report
    <2>2. Onward
      BY <1>1, <1>9 DEF StoreFields, Onward, TimesOK
    <2> QED BY <2>1, <2>2, LambdasGoOn
  <1> QED BY <1>4, <1>5, <1>6, <1>7, <1>8, <1>9

LEMMA ListKeeps == ASSUME ReportInv, ListRawFiles PROVE ReportInv'
  <1>1. /\ TimesOK /\ DOMAIN statuses = {} /\ DOMAIN events = {} /\ head = NoHead
    BY DEF ReportInv, LookedAt, ListRawFiles
  <1>2. /\ began' = clock /\ reportPc' = "looking"
        /\ listed' = [f \in {g \in Files : modified[g] >= 0} |-> modified[f]]
        /\ todoFiles' = {g \in DOMAIN listed' : Parses(g)}
        /\ UNCHANGED <<clock, modified, texts, fields, logs, head, statuses, events, givenUp>>
    BY DEF ListRawFiles, progress
  <1>3. TimesOK'
    BY <1>1, <1>2 DEF TimesOK, Moments
  <1>4. LookedAt'
    <2>1. \A f \in Files : modified[f] \in Int
      BY <1>1 DEF TimesOK, Moments
    <2> QED BY <1>1, <1>2, <2>1 DEF LookedAt, Parses
  <1>5. HeadTrue' /\ AllStatusesTrue' /\ TracesTrue' /\ Complete'
    BY <1>1, <1>2 DEF HeadTrue, AllStatusesTrue, TracesTrue, Complete, NoHead
  <1> QED BY <1>3, <1>4, <1>5 DEF ReportInv

LEMMA HeadKeeps == ASSUME ReportInv, HeadText PROVE ReportInv'
  <1>1. PICK f \in todoFiles : head' = [file |-> f, text |-> texts[KeyOf(f)] >= 0]
    BY DEF HeadText
  <1>2. /\ reportPc = "looking"
        /\ UNCHANGED <<clock, modified, texts, fields, logs, reportPc, began, listed,
                       todoFiles, statuses, events, givenUp>>
    BY DEF HeadText, progress
  <1>3. TimesOK' /\ LookedAt' /\ AllStatusesTrue' /\ TracesTrue' /\ Complete'
    BY <1>2 DEF ReportInv, TimesOK, Moments, LookedAt, AllStatusesTrue, StatusTrue,
                TracesTrue, NoTrace, Complete, Stalled
  <1>4. HeadTrue'
    <2>1. head'.file = f /\ (head'.text <=> texts[KeyOf(f)] >= 0)
      BY <1>1
    <2> QED BY <1>1, <1>2, <2>1 DEF HeadTrue, SeenText
  <1> QED BY <1>3, <1>4 DEF ReportInv

LEMMA ClassifyKeeps == ASSUME ReportInv, Classify PROVE ReportInv'
  <1>0. /\ head.file \in todoFiles /\ SeenText(head.file, head.text) /\ TimesOK
        /\ reportPc # "idle"
    BY DEF ReportInv, Classify, HeadTrue, LookedAt
  <1> PICK f \in todoFiles : f = head.file
    BY <1>0
  <1> PICK seen : seen = head.text
    OBVIOUS
  <1>1. /\ f \in todoFiles /\ SeenText(f, seen) /\ TimesOK
        /\ reportPc # "idle"
    BY <1>0
  <1> PICK s : s = Status(began - listed[f], head.text, fields[KeyOf(f)] >= 0)
    OBVIOUS
  <1>2. f \in Files /\ KeyOf(f) \in Keys /\ f \in DOMAIN listed /\ listed[f] \in Int
    BY <1>1, KeyIsKey DEF ReportInv, LookedAt
  <1>3. /\ head' = NoHead
        /\ UNCHANGED <<clock, modified, texts, fields, logs, began, listed, events, givenUp>>
    BY DEF Classify, progress
  <1>4. TimesOK' /\ HeadTrue'
    BY <1>1, <1>3 DEF TimesOK, Moments, HeadTrue, NoHead
  <1>5. CASE HasDocumentId(f)
    <2>1. /\ statuses' = With(statuses, f, [status |-> s, text |-> seen])
          /\ todoFiles' = todoFiles \ {f}
          /\ reportPc' = reportPc
      BY <1>5 DEF Classify
    <2>2. /\ DOMAIN statuses' = DOMAIN statuses \union {f}
          /\ statuses'[f].status = s
          /\ \A g \in DOMAIN statuses \ {f} : statuses'[g] = statuses[g]
      BY <2>1 DEF With
    <2>3. began \in Int /\ Stall \in Int
      BY <1>1, StallAssumption DEF TimesOK
    <2>4. StatusTrue(f)'
      <3>1. /\ s = "qualified" <=> fields[KeyOf(f)] >= 0
            /\ s = "extracted_stalled" => seen
            /\ seen => s # "raw_stalled"
            /\ (~(fields[KeyOf(f)] >= 0) /\ began - listed[f] >= Stall) =>
                   s \in {"extracted_stalled", "raw_stalled"}
        BY <1>2, <2>3 DEF Status
      <3>2. fields[KeyOf(f)] \in Moments
        BY <1>1, <1>2 DEF TimesOK
      <3> QED BY <1>1, <1>3, <2>2, <3>1, <3>2 DEF StatusTrue, SeenText, Moments
    <2>5. AllStatusesTrue'
      <3>1. \A g \in DOMAIN statuses \ {f} : StatusTrue(g)'
        BY <1>3, <2>2 DEF ReportInv, AllStatusesTrue, StatusTrue
      <3> QED BY <2>2, <2>4, <3>1 DEF AllStatusesTrue
    <2>6. LookedAt'
      <3> QED BY <1>1, <1>2, <1>3, <2>1, <2>2 DEF ReportInv, LookedAt
    <2>7. TracesTrue' /\ Complete'
      <3>1. reportPc # "done"
        BY <1>1 DEF ReportInv, Complete
      <3> QED BY <1>3, <2>1, <3>1 DEF ReportInv, TracesTrue, NoTrace, Complete
    <2> QED BY <1>4, <2>5, <2>6, <2>7 DEF ReportInv
  <1>6. CASE ~HasDocumentId(f)
    <2>1. reportPc' = "failed" /\ UNCHANGED <<statuses, todoFiles>>
      BY <1>6 DEF Classify
    <2>2. LookedAt' /\ AllStatusesTrue' /\ TracesTrue' /\ Complete'
      BY <1>1, <1>3, <2>1 DEF ReportInv, LookedAt, AllStatusesTrue, StatusTrue, TracesTrue,
         NoTrace, Complete
    <2> QED BY <1>4, <2>2 DEF ReportInv
  <1> QED BY <1>5, <1>6

LEMMA FetchKeeps == ASSUME ReportInv, FetchLogs PROVE ReportInv'
  <1> PICK f \in Stalled \ DOMAIN events : \E slow \in SUBSET LogGroups(f) :
           /\ events' = With(events, f, {e \in logs[KeyOf(f)] :
                              e.group \in LogGroups(f) \ slow /\ e.at >= listed[f]})
           /\ givenUp' = IF slow = {} THEN givenUp ELSE givenUp \union {f}
    BY DEF FetchLogs
  <1>1. PICK slow \in SUBSET LogGroups(f) :
           /\ events' = With(events, f, {e \in logs[KeyOf(f)] :
                              e.group \in LogGroups(f) \ slow /\ e.at >= listed[f]})
           /\ givenUp' = IF slow = {} THEN givenUp ELSE givenUp \union {f}
    OBVIOUS
  <1>2. /\ reportPc = "looking" /\ todoFiles = {}
        /\ UNCHANGED <<clock, modified, texts, fields, logs, reportPc, began, listed,
                       todoFiles, head, statuses>>
    BY DEF FetchLogs, progress
  <1>3. /\ f \in DOMAIN statuses
        /\ DOMAIN events' = DOMAIN events \union {f}
        /\ \A g \in DOMAIN events : events'[g] = events[g]
    BY <1>1 DEF With, Stalled
  <1>4. f \in Files /\ KeyOf(f) \in Keys /\ listed[f] \in Int
    BY <1>2, <1>3, KeyIsKey DEF ReportInv, LookedAt
  <1>5. /\ TimesOK' /\ LookedAt' /\ AllStatusesTrue'
    BY <1>2, <1>3 DEF ReportInv, TimesOK, Moments, LookedAt, AllStatusesTrue, StatusTrue
  <1>6. HeadTrue' /\ Complete'
    BY <1>2 DEF ReportInv, HeadTrue, SeenText, Complete
  <1>7. \A g \in DOMAIN events \ givenUp : NoTrace(g)'
    BY <1>2, <1>3 DEF ReportInv, TracesTrue, NoTrace
  <1>8. ASSUME f \notin givenUp'
        PROVE  NoTrace(f)'
    <2>1. slow = {}
      BY <1>1, <1>8
    <2>2. events'[f] = {e \in logs[KeyOf(f)] : e.group \in LogGroups(f) /\ e.at >= listed[f]}
      BY <1>1, <2>1 DEF With
    <2>3. f.ext \in LogGroups(f)
      BY DEF LogGroups
    <2>4. ASSUME events'[f] = {}, NEW e \in logs[KeyOf(f)], e.group = f.ext
          PROVE  e.at < listed[f]
      <3>1. ~(e.at >= listed[f])
        BY <2>2, <2>3, <2>4
      <3>2. e.at \in Int
        BY <1>4 DEF ReportInv, TimesOK
      <3> QED BY <1>4, <3>1, <3>2
    <2> QED BY <1>2, <2>4 DEF NoTrace
  <1>9. TracesTrue'
    BY <1>1, <1>3, <1>7, <1>8 DEF TracesTrue
  <1> QED BY <1>5, <1>6, <1>9 DEF ReportInv

LEMMA EndReportKeeps == ASSUME ReportInv, EndReport PROVE ReportInv'
  <1>1. /\ reportPc = "looking" /\ todoFiles = {} /\ Stalled \subseteq DOMAIN events
        /\ reportPc' = "done"
        /\ UNCHANGED <<clock, modified, texts, fields, logs, began, listed, todoFiles, head,
                       statuses, events, givenUp>>
    BY DEF EndReport, progress
  <1>2. TimesOK' /\ LookedAt' /\ AllStatusesTrue'
    BY <1>1 DEF ReportInv, TimesOK, Moments, LookedAt, AllStatusesTrue, StatusTrue
  <1>3. HeadTrue' /\ TracesTrue' /\ Complete'
    BY <1>1 DEF ReportInv, HeadTrue, SeenText, TracesTrue, NoTrace, Complete, Stalled, NoHead
  <1> QED BY <1>2, <1>3 DEF ReportInv

LEMMA ReportStep == ASSUME ReportInv, [ReportNext]_reportVars PROVE ReportInv'
  <1>1. CASE UNCHANGED reportVars
    BY <1>1 DEF reportVars, progress, report, ReportInv, TimesOK, Moments, LookedAt, HeadTrue,
       SeenText, AllStatusesTrue, StatusTrue, TracesTrue, NoTrace, Complete, Stalled, NoHead
  <1>2. CASE ReportNext
    BY <1>2, LambdasStep, ListKeeps, HeadKeeps, ClassifyKeeps, FetchKeeps, EndReportKeeps
    DEF ReportNext
  <1> QED BY <1>1, <1>2

\* Though files, texts and results are written while it looks: what the report says of a
\* file was so at some moment since it began, and a stopped file without a trace in the
\* logs has been delivered to no Lambda before; for any files, writes and threshold.
THEOREM ReportTrueHolds == ReportSpec => []ReportTrue
  <1>1. ReportInit => ReportInv
    BY ReportInitHolds
  <1>2. ReportInv /\ [ReportNext]_reportVars => ReportInv'
    BY ReportStep
  <1>3. ReportInv => ReportTrue
    <2> SUFFICES ASSUME ReportInv, reportPc = "done"
                 PROVE  ReportTrue
      BY DEF ReportTrue, StatusesTrue, NoTraceNoDelivery
    <2>1. /\ {f \in DOMAIN listed : Parses(f)} = DOMAIN statuses
          /\ Stalled \subseteq DOMAIN events
      BY DEF ReportInv, Complete, LookedAt
    <2>2. StatusesTrue
      BY <2>1 DEF ReportInv, AllStatusesTrue, StatusTrue, StatusesTrue, Stalled
    <2>3. NoTraceNoDelivery
      BY <2>1 DEF ReportInv, TracesTrue, NoTrace, NoTraceNoDelivery
    <2> QED BY <2>2, <2>3 DEF ReportTrue
  <1> QED BY <1>1, <1>2, <1>3, PTL DEF ReportSpec

===============================================================================
