----------------------------- MODULE StatusReport -----------------------------
(***************************************************************************)
(* The status report an operator asks for (scripts/pipeline_status.py): it *)
(* lists the files under raw/, looks file by file for what the Lambdas     *)
(* have made of them, and searches the logs of those that seem to have     *)
(* stopped - while the Lambdas go on.                                      *)
(***************************************************************************)
EXTENDS Integers

CONSTANTS
    Files,      \* raw keys: [hour, bid, file, ext, named]; named: file starts with bid
    Stall,      \* STALL_THRESHOLD
    MaxClock,   \* last moment considered (bound)
    MaxWrites   \* files written (bound)

ASSUME StallAssumption == Stall \in Nat

VARIABLES
    clock,
    writes,     \* how many so far
    modified,   \* LastModified of each file under raw/; -1 while it is absent
    texts,      \* when extracted/ was written, by key; -1 before
    fields,     \* when qualifications/ was written, by key; -1 before
    logs,       \* what the Lambdas have logged of each key: [group, event, at]
    reportPc,
    began,      \* `now` of gather_statuses
    listed,     \* the listing: files with their LastModified
    todoFiles,  \* those of them not looked at yet
    head,       \* the file being looked at, and whether its text was there
    statuses,   \* FileStatus of the files looked at
    events,     \* what fetch_related_logs gave for the stopped ones
    givenUp     \* files of which a query was not over after twenty looks

progress == <<clock, writes, modified, texts, fields, logs>>
report == <<reportPc, began, listed, todoFiles, head, statuses, events, givenUp>>
reportVars == <<progress, report>>

Hourless == "no hour"
NoHead == [file |-> Hourless]

\* _RAW_KEY_RE: a key of the backfill has no hour.
Parses(f) == f.hour # Hourless

\* document_id_from_file_id raises for a file not named after its bid.
HasDocumentId(f) == f.named

\* raw_key_to_extracted_key, extracted_key_to_qualifications_key: the same partition and
\* name without the extension.
KeyOf(f) == <<f.hour, f.bid, f.file>>

Keys == {KeyOf(f) : f \in Files}

ReportInit ==
    /\ clock = 0 /\ writes = 0
    /\ modified = [f \in Files |-> -1]
    /\ texts = [k \in Keys |-> -1] /\ fields = [k \in Keys |-> -1]
    /\ logs = [k \in Keys |-> {}]
    /\ reportPc = "idle" /\ began = 0
    /\ listed = [f \in {} |-> -1] /\ todoFiles = {} /\ head = NoHead
    /\ statuses = [f \in {} |-> NoHead] /\ events = [f \in {} |-> {}] /\ givenUp = {}

-------------------------------------------------------------------------------
(* The Lambdas, as the report sees them.                                    *)

With(f, x, value) == [y \in DOMAIN f \union {x} |-> IF y = x THEN value ELSE f[y]]

Log(k, group, event) ==
    logs' = [logs EXCEPT ![k] = @ \union {[group |-> group, event |-> event, at |-> clock]}]

Logged(k, group, event) ==
    \E e \in logs[k] : e.group = group /\ e.event = event

\* What happens after the report is not followed (bound).
Going == reportPc \notin {"done", "failed"}

Tick ==
    /\ Going /\ clock < MaxClock
    /\ clock' = clock + 1
    /\ UNCHANGED <<writes, modified, texts, fields, logs, report>>

\* The downloader writes a file, or writes it again.
Upload(f) ==
    /\ Going /\ writes < MaxWrites /\ modified[f] < clock
    /\ writes' = writes + 1
    /\ modified' = [modified EXCEPT ![f] = clock]
    /\ UNCHANGED <<clock, texts, fields, logs, report>>

\* A delivery of its notification: where the text exists, it is skipped.
Deliver(f) ==
    /\ Going /\ modified[f] >= 0 /\ Parses(f) /\ HasDocumentId(f)
    /\ LET event == IF texts[KeyOf(f)] >= 0 THEN "SKIP" ELSE "START"
       IN  /\ ~Logged(KeyOf(f), f.ext, event)
           /\ Log(KeyOf(f), f.ext, event)
    /\ UNCHANGED <<clock, writes, modified, texts, fields, report>>

StoreText(k) ==
    /\ Going /\ texts[k] = -1 /\ logs[k] # {}
    /\ texts' = [texts EXCEPT ![k] = clock]
    /\ UNCHANGED <<clock, writes, modified, fields, logs, report>>

StartLlm(k) ==
    /\ Going /\ texts[k] >= 0 /\ ~Logged(k, "llm", "START")
    /\ Log(k, "llm", "START")
    /\ UNCHANGED <<clock, writes, modified, texts, fields, report>>

StoreFields(k) ==
    /\ Going /\ fields[k] = -1 /\ Logged(k, "llm", "START")
    /\ fields' = [fields EXCEPT ![k] = clock]
    /\ UNCHANGED <<clock, writes, modified, texts, logs, report>>

-------------------------------------------------------------------------------
(* gather_statuses.                                                         *)

ListRawFiles ==
    /\ reportPc = "idle"
    /\ reportPc' = "looking"
    /\ began' = clock
    /\ listed' = [f \in {g \in Files : modified[g] >= 0} |-> modified[f]]
    /\ todoFiles' = {g \in DOMAIN listed' : Parses(g)}
    /\ UNCHANGED <<progress, head, statuses, events, givenUp>>

\* object_exists(extracted_key)
HeadText ==
    /\ reportPc = "looking" /\ head = NoHead
    /\ \E f \in todoFiles : head' = [file |-> f, text |-> texts[KeyOf(f)] >= 0]
    /\ UNCHANGED <<progress, reportPc, began, listed, todoFiles, statuses, events, givenUp>>

\* Mutated form: the age first.
StatusByAge(elapsed, text, qualified) ==
    IF elapsed < Stall THEN "in_progress"
    ELSE IF qualified THEN "qualified"
    ELSE IF text THEN "extracted_stalled" ELSE "raw_stalled"

Status(elapsed, text, qualified) ==
    IF qualified THEN "qualified"
    ELSE IF elapsed < Stall THEN "in_progress"
    ELSE IF text THEN "extracted_stalled" ELSE "raw_stalled"

\* object_exists(qualifications_key) and classify, which raises where a name does not
\* begin with that of the notice: the report ends.
Classify ==
    /\ head # NoHead
    /\ LET f == head.file
           status == Status(began - listed[f], head.text, fields[KeyOf(f)] >= 0)
       IN  IF HasDocumentId(f)
           THEN /\ statuses' = With(statuses, f, [status |-> status, text |-> head.text])
                /\ todoFiles' = todoFiles \ {f}
                /\ UNCHANGED reportPc
           ELSE /\ reportPc' = "failed"
                /\ UNCHANGED <<statuses, todoFiles>>
    /\ head' = NoHead
    /\ UNCHANGED <<progress, began, listed, events, givenUp>>

-------------------------------------------------------------------------------
(* print_summary.                                                           *)

Stalled == {f \in DOMAIN statuses : statuses[f].status \in {"extracted_stalled", "raw_stalled"}}

\* Mutated form: one group, that of the stage the file seems to be in.
OneLogGroup(f) == IF statuses[f].text THEN {"llm"} ELSE {f.ext}

LogGroups(f) == {f.ext} \union (IF statuses[f].text THEN {"llm"} ELSE {})

\* _run_insights_query, group by group; what has not come after twenty looks counts as
\* nothing.
FetchLogs ==
    /\ reportPc = "looking" /\ todoFiles = {}
    /\ \E f \in Stalled \ DOMAIN events : \E slow \in SUBSET LogGroups(f) :
         LET found == {e \in logs[KeyOf(f)] :
                          e.group \in LogGroups(f) \ slow /\ e.at >= listed[f]}
         IN  /\ events' = With(events, f, found)
             /\ givenUp' = IF slow = {} THEN givenUp ELSE givenUp \union {f}
    /\ UNCHANGED <<progress, reportPc, began, listed, todoFiles, head, statuses>>

EndReport ==
    /\ reportPc = "looking" /\ todoFiles = {} /\ Stalled \subseteq DOMAIN events
    /\ reportPc' = "done"
    /\ UNCHANGED <<progress, began, listed, todoFiles, head, statuses, events, givenUp>>

ReportNext ==
    \/ Tick \/ \E f \in Files : Upload(f) \/ Deliver(f)
    \/ \E k \in Keys : StoreText(k) \/ StartLlm(k) \/ StoreFields(k)
    \/ ListRawFiles \/ HeadText \/ Classify \/ FetchLogs \/ EndReport

ReportSpec == ReportInit /\ [][ReportNext]_reportVars

-------------------------------------------------------------------------------
(* Properties.                                                              *)

\* What the report says of a file was so at some moment since it began: a file that was
\* finished before counts as finished, one whose text was there before not as stopped
\* ahead of it, and one that is old and still not finished as stopped.
StatusesTrue ==
    reportPc = "done" =>
        \A f \in {g \in DOMAIN listed : Parses(g)} :
            LET k == KeyOf(f)
                status == statuses[f].status
            IN  /\ status = "qualified" => fields[k] >= 0
                /\ fields[k] \in 0 .. began - 1 => status = "qualified"
                /\ status = "extracted_stalled" => texts[k] >= 0
                /\ texts[k] \in 0 .. began - 1 => status # "raw_stalled"
                /\ (fields[k] = -1 /\ began - listed[f] >= Stall) => f \in Stalled

\* A stopped file without a trace in the logs has been delivered to no Lambda since it
\* was written (print_summary: "로그 무흔적 - 이벤트/큐 단계 미도달 의심"), unless a query
\* was given up.
NoTraceNoDelivery ==
    reportPc = "done" =>
        \A f \in Stalled \ givenUp : events[f] = {} =>
            \A e \in logs[KeyOf(f)] :
                e.group = f.ext => e.at < listed[f] \/ e.at >= began

ReportTrue == StatusesTrue /\ NoTraceNoDelivery

===============================================================================
