----------------------------- MODULE BackfillJobs -----------------------------
(* The jobs that carried past notices through the text stage: S3 Batch      *)
(* jobs extract the text of a manifest of files (backfill_lambda), others   *)
(* the qualifications of a manifest of texts (pipeline/backfill), and a     *)
(* loader on the bastion host writes what a local copy holds to bid_table   *)
(* (loading/load_qualifications.py).                                        *)
(*                                                                          *)
(* A job invokes the Lambda once per task, and a bounded number of times    *)
(* again after a temporary failure or when it did not get the answer.  How  *)
(* often is left open: it repeats the task or gives it up.                  *)
EXTENDS Naturals, FiniteSets

CONSTANTS
    Documents,      \* numbers, in the order of their keys
    Bids,           \* numbers
    BidOf,
    ExtOf,
    Earlier,        \* documents of earlier jobs
    Hopeless,       \* what may fail whatever is tried, see hopeless
    Slots,          \* jobs under way at a time
    StageOf,        \* the stage of the jobs in a slot, "text" or "qual"
    BatchSize,      \* rows of one commit of the loader
    MaxFaults,
    Ready           \* no loader running

ASSUME JobsAssumption ==
    /\ IsFiniteSet(Slots)
    /\ StageOf \in [Slots -> {"text", "qual"}]
    /\ BidOf \in [Documents -> Bids]
    /\ Earlier \subseteq Documents
    /\ Hopeless \subseteq [text : SUBSET Documents, qual : SUBSET Documents,
                             load : SUBSET SUBSET Documents]
    /\ MaxFaults \in Nat

Exts == {"hwp", "hwpx", "pdf"}

VARIABLES
    files,          \* documents under raw/downloads/backfill/
    stored,         \* documents with an output, for each stage
    writes,         \* times the qualifications of a document were stored since then
    jobs,           \* where each task of the job in each slot is
    rows,           \* bids with a row, their documents and their verification
    loader,         \* bids still to write and the local copy, or Ready
    hopeless,       \* files without text or of a name the rules do not know, texts the
                    \* model refuses or answers against the schema, and the documents of
                    \* a bid whose merge raises, or its UPDATE with a value too long
    faults

vars == <<files, stored, writes, jobs, rows, loader, hopeless, faults>>

Steps == {"none", "queued", "working", "answered"}

TypeOK ==
    /\ files \subseteq Documents
    /\ stored \in [{"text", "qual"} -> SUBSET Documents]
    /\ writes \in [Documents -> Nat]
    /\ jobs \in [Slots -> [Documents -> Steps]]
    /\ rows \in UNION {[S -> [documents : SUBSET Documents, verified : BOOLEAN]] :
                          S \in SUBSET Bids}
    /\ loader \in {Ready} \union [todo : SUBSET Bids, copy : SUBSET Documents]
    /\ hopeless \in Hopeless
    /\ faults \in 0 .. MaxFaults

Init ==
    /\ hopeless \in Hopeless
    /\ files = Earlier
    /\ stored = [stage \in {"text", "qual"} |->
                    IF stage = "text" THEN Earlier \ hopeless.text
                    ELSE Earlier \ (hopeless.text \union hopeless.qual)]
    /\ writes = [d \in Documents |-> 0]
    /\ jobs = [s \in Slots |-> [d \in Documents |-> "none"]]
    /\ rows = [b \in {} |-> [documents |-> {}, verified |-> FALSE]]
    /\ loader = Ready
    /\ faults = 0

\* The download of the attachments, and the loader of the notices' rows.
Arrive(d) ==
    /\ d \notin files
    /\ files' = files \union {d}
    /\ UNCHANGED <<stored, writes, jobs, rows, loader, hopeless, faults>>

RowArrives(b) ==
    /\ b \notin DOMAIN rows
    /\ rows' = [c \in DOMAIN rows \union {b} |->
                    IF c = b THEN [documents |-> {}, verified |-> FALSE] ELSE rows[c]]
    /\ UNCHANGED <<files, stored, writes, jobs, loader, hopeless, faults>>

\* A person checks a bid.
Verify(b) ==
    /\ b \in DOMAIN rows
    /\ ~rows[b].verified
    /\ rows' = [rows EXCEPT ![b].verified = TRUE]
    /\ UNCHANGED <<files, stored, writes, jobs, loader, hopeless, faults>>

-------------------------------------------------------------------------------
(* Manifests.                                                               *)

SplitByExt(ext) == {d \in files : ExtOf[d] = ext}

SelectPendingKeys == stored["text"] \ stored["qual"]

\* --limit: the first keys only.
Limited(keys, n) == {d \in keys : Cardinality({e \in keys : e < d}) < n}

Manifests(stage) ==
    IF stage = "text" THEN {SplitByExt(ext) : ext \in Exts}
    ELSE {Limited(SelectPendingKeys, n) : n \in Documents}

\* Only the qualifications look at S3 before they begin.
FirstStep(s) == IF StageOf[s] = "qual" THEN "queued" ELSE "working"

\* What the job in a slot has still to report; it ends with the last of them.
Tasks(s) == {d \in Documents : jobs[s][d] # "none"}

\* The operator makes a manifest and starts a job with it.
StartJob(s) ==
    /\ Tasks(s) = {}
    /\ \E manifest \in Manifests(StageOf[s]) \ {{}} :
          jobs' = [jobs EXCEPT ![s] = [d \in Documents |->
                        IF d \in manifest THEN FirstStep(s) ELSE "none"]]
    /\ UNCHANGED <<files, stored, writes, rows, loader, hopeless, faults>>

-------------------------------------------------------------------------------
(* Tasks.                                                                   *)

At(s, d, step) == jobs[s][d] = step

To(s, d, step) == jobs' = [jobs EXCEPT ![s][d] = step]

ExistsNever(d) == FALSE

ExistsText(d) == d \in stored["text"]

Exists(d) == d \in stored["qual"]

\* process_task: what is there is left alone.
Check(s, d) ==
    /\ At(s, d, "queued")
    /\ To(s, d, IF Exists(d) THEN "answered" ELSE "working")
    /\ UNCHANGED <<files, stored, writes, rows, loader, hopeless, faults>>

Put(s, d) ==
    /\ stored' = [stored EXCEPT ![StageOf[s]] = @ \union {d}]
    /\ writes' = [writes EXCEPT ![d] = @ + IF StageOf[s] = "qual" THEN 1 ELSE 0]

\* The document was read and extracted, and its output is stored.
Complete(s, d) ==
    /\ At(s, d, "working")
    /\ d \notin hopeless[StageOf[s]]
    /\ Put(s, d)
    /\ To(s, d, "answered")
    /\ UNCHANGED <<files, rows, loader, hopeless, faults>>

\* A file that cannot be read, a text too long for the model or an answer the schema
\* rejects, given at temperature 0, fails whenever it is tried.
Reject(s, d) ==
    /\ At(s, d, "working")
    /\ d \in hopeless[StageOf[s]]
    /\ To(s, d, "none")
    /\ UNCHANGED <<files, stored, writes, rows, loader, hopeless, faults>>

\* resultCode "Succeeded" reaches the job.
Succeed(s, d) ==
    /\ At(s, d, "answered")
    /\ To(s, d, "none")
    /\ UNCHANGED <<files, stored, writes, rows, loader, hopeless, faults>>

\* A call to S3 or to the model was refused this once, with an error code that is not
\* in the lists of temporary ones.
FailPermanently(s, d) ==
    /\ At(s, d, "working") \/ At(s, d, "queued")
    /\ faults < MaxFaults
    /\ faults' = faults + 1
    /\ To(s, d, "none")
    /\ UNCHANGED <<files, stored, writes, rows, loader, hopeless>>

\* A throttled call or a broken connection, the invocation running out of time, or
\* an answer that is lost: the job repeats the task or gives it up.
FailTemporarily(s, d) ==
    /\ jobs[s][d] # "none"
    /\ faults < MaxFaults
    /\ faults' = faults + 1
    /\ To(s, d, FirstStep(s)) \/ To(s, d, "none")
    /\ UNCHANGED <<files, stored, writes, rows, loader, hopeless>>

-------------------------------------------------------------------------------
(* The loader.                                                              *)

UpdatableOnce(copy) ==
    {b \in {BidOf[d] : d \in copy} :
        b \in DOMAIN rows /\ ~rows[b].verified /\ rows[b].documents = {}}

\* classify: the bids of the copy whose row is there and not verified.
Updatable(copy) ==
    {b \in {BidOf[d] : d \in copy} : b \in DOMAIN rows /\ ~rows[b].verified}

\* aws s3 sync, the scan of the copy and the SELECT.
StartLoader ==
    /\ loader = Ready
    /\ loader' = [todo |-> Updatable(stored["qual"]), copy |-> stored["qual"]]
    /\ UNCHANGED <<files, stored, writes, jobs, rows, hopeless, faults>>

\* The next bids in order.
Batch == Limited(loader.todo, BatchSize)

DocumentsOf(b, copy) == {d \in copy : BidOf[d] = b}

UpdateAlways(b) ==
    [rows[b] EXCEPT !.documents = DocumentsOf(b, loader.copy)]

\* build_update_sql: WHERE is_human_verified IS NOT TRUE.
Update(b) ==
    IF rows[b].verified THEN rows[b]
    ELSE [rows[b] EXCEPT !.documents = DocumentsOf(b, loader.copy)]

\* The merge of this bid raises, or its UPDATE.
Raises(b, copy) == DocumentsOf(b, copy) \in hopeless.load

\* One batch is written and committed.
LoadBatch ==
    /\ loader # Ready
    /\ loader.todo # {}
    /\ \A b \in Batch : ~Raises(b, loader.copy)
    /\ rows' = [b \in DOMAIN rows |-> IF b \in Batch THEN Update(b) ELSE rows[b]]
    /\ loader' = [loader EXCEPT !.todo = @ \ Batch]
    /\ UNCHANGED <<files, stored, writes, jobs, hopeless, faults>>

EndLoader ==
    /\ loader # Ready
    /\ loader.todo = {}
    /\ loader' = Ready
    /\ UNCHANGED <<files, stored, writes, jobs, rows, hopeless, faults>>

\* One bid of the batch raises: nothing of the batch is written, the batches before it
\* stay, and what comes after it waits for a load that gets past it.
LoadStops ==
    /\ loader # Ready
    /\ \E b \in Batch : Raises(b, loader.copy)
    /\ loader' = Ready
    /\ UNCHANGED <<files, stored, writes, jobs, rows, hopeless, faults>>

\* The connection breaks: the same, this once.
LoadFails ==
    /\ loader # Ready
    /\ faults < MaxFaults
    /\ faults' = faults + 1
    /\ loader' = Ready
    /\ UNCHANGED <<files, stored, writes, jobs, rows, hopeless>>

-------------------------------------------------------------------------------

Task(s, d) ==
    \/ Check(s, d)
    \/ Complete(s, d)
    \/ Reject(s, d)
    \/ Succeed(s, d)

Next ==
    \/ \E d \in Documents : Arrive(d)
    \/ \E b \in Bids : RowArrives(b) \/ Verify(b)
    \/ \E s \in Slots : StartJob(s)
    \/ \E s \in Slots, d \in Documents :
          Task(s, d) \/ FailPermanently(s, d) \/ FailTemporarily(s, d)
    \/ StartLoader \/ LoadBatch \/ LoadStops \/ EndLoader \/ LoadFails

\* A job that was started runs, and the operator repeats each program: the next
\* manifest, of each format and of the pending texts without a limit, and the next load.
Fairness ==
    /\ \A s \in Slots :
          /\ \A d \in Documents : WF_vars(Task(s, d))
          /\ IF StageOf[s] = "qual"
             THEN SF_vars(StartJob(s) /\ Tasks(s)' = SelectPendingKeys)
             ELSE \A ext \in Exts : SF_vars(StartJob(s) /\ Tasks(s)' = SplitByExt(ext))
    /\ \A d \in Documents : WF_vars(Arrive(d))
    /\ \A b \in Bids : WF_vars(RowArrives(b))
    /\ WF_vars(StartLoader) /\ WF_vars(LoadBatch \/ LoadStops \/ EndLoader)

Spec == Init /\ [][Next]_vars /\ Fairness

-------------------------------------------------------------------------------
(* Properties.                                                              *)

\* However often tasks are repeated and jobs follow each other, the qualifications
\* of a document are stored at most once for each job that can run at a time: only
\* tasks that looked before the first of them stored its result write again.
StoredOncePerSlot ==
    \A d \in Documents : writes[d] <= Cardinality({s \in Slots : StageOf[s] = "qual"})

\* What a person has verified is never written again, also when the verification
\* comes between the loader's SELECT and its UPDATE.
VerifiedRowsStay ==
    [][\A b \in DOMAIN rows : rows[b].verified => rows'[b] = rows[b]]_vars

\* The bids a load would write now, in batches, up to the first that does not go
\* through: with it the loader stops, in every load until a person verifies the bid
\* or one of its documents is added.
BatchNo(b) == Cardinality({c \in Updatable(stored["qual"]) : c < b}) \div BatchSize

HeldUp(b) ==
    \E c \in Updatable(stored["qual"]) :
        Raises(c, stored["qual"]) /\ BatchNo(c) <= BatchNo(b)

\* Repeating manifests, jobs and loads until nothing is left brings a document into its
\* row, unless a stage fails with it whatever is tried, a person has verified the bid
\* before, or a bid of the same batch or of one before it stops every load.
EventuallyLoaded ==
    \A d \in Documents :
        <>[](\/ d \in hopeless.text \union hopeless.qual
             \/ /\ BidOf[d] \in DOMAIN rows
                /\ \/ rows[BidOf[d]].verified
                   \/ d \in rows[BidOf[d]].documents
                   \/ HeldUp(BidOf[d]))

===============================================================================
