------------------------------ MODULE MergeBatch ------------------------------
(***************************************************************************)
(* The merge Lambda (handlers/merge_qualifications.py, merge/db.py,        *)
(* merge/inventory.py): every five minutes it tags new bids, selects the   *)
(* bids whose qualifications are incomplete, lists the qualification       *)
(* documents in S3 and updates one row of bid_table per bid.               *)
(*                                                                         *)
(* A batch is one execution environment of the Lambda with the database    *)
(* connection it keeps between invocations.  The schedule does not wait    *)
(* for the previous invocation and template.yaml sets no concurrency       *)
(* limit, so two of them may run at once.  DRY_RUN is "false" throughout.  *)
(***************************************************************************)
EXTENDS Naturals, FiniteSets

CONSTANTS
    Bids,             \* primary keys of bid_table
    Rank,             \* the order of their bid_id
    Batches,          \* execution environments of the Lambda
    MaxDocs,          \* documents a bid may have (bound)
    Expectations,     \* values the loader writes to expected_file_count
    MaxTargets,       \* max_targets_per_run
    MaxTags,          \* tag_max_per_run
    MaxFaults,        \* database errors, lost connections, killed runs (bound)
    Poisoned,         \* bids with a document the merge cannot digest
    Untaggable,       \* bids whose tag, a main_cnstty_nm of up to 100 characters,
                      \* is longer than bid_tags.tag (50)
    FailedAttachment  \* bids with a bid_attachments row of status 'failed'

ASSUME BoundsAssumption ==
    /\ MaxDocs \in Nat
    /\ MaxTargets \in Nat \ {0}
    /\ MaxTags \in Nat \ {0}
    /\ MaxFaults \in Nat

ASSUME ExpectationsAssumption == Expectations \subseteq 0 .. MaxDocs

ASSUME RankAssumption ==
    /\ Rank \in [Bids -> Nat]
    /\ \A b, c \in Bids : Rank[b] = Rank[c] => b = c

VARIABLES
    status,      \* qual_status; "absent" before the loader inserts the row
    expected,    \* expected_file_count
    content,     \* how many documents the qualification columns come from
    verified,    \* rows with is_human_verified = TRUE
    overwritten, \* history: verified rows a batch has written over
    contested,   \* history: bids that two batches have had in hand at a time
    tagged,      \* bids with a row in bid_tags
    arrived,     \* objects under qualifications/daily/, by bid
    phase,       \* how far each batch is
    conn,        \* its connection: none, clean, inside a failed transaction,
                 \* or broken without psycopg2 having noticed
    targets,     \* bids it has still to process
    seen,        \* expected_file_count as its SELECT returned it
    inventory,   \* documents per bid as its listing returned them
    faults

rows == <<status, expected, content, verified, overwritten>>
batch == <<phase, conn, targets, seen, inventory>>
vars == <<rows, contested, tagged, arrived, batch, faults>>

Statuses == {"absent", "pending", "partial", "failed", "merged"}
Phases == {"idle", "sweeping", "selecting", "listing", "merging"}
Connections == {"closed", "ok", "aborted", "lost"}
Counts == [Bids -> 0 .. MaxDocs]

TypeOK ==
    /\ status \in [Bids -> Statuses]
    /\ expected \in Counts
    /\ content \in Counts
    /\ verified \subseteq Bids
    /\ overwritten \subseteq Bids
    /\ contested \subseteq Bids
    /\ tagged \subseteq Bids
    /\ arrived \in Counts
    /\ phase \in [Batches -> Phases]
    /\ conn \in [Batches -> Connections]
    /\ targets \in [Batches -> SUBSET Bids]
    /\ seen \in [Batches -> Counts]
    /\ inventory \in [Batches -> Counts]
    /\ faults \in 0 .. MaxFaults

Nothing == [b \in Bids |-> 0]

Init ==
    /\ status = [b \in Bids |-> "absent"]
    /\ expected = Nothing
    /\ content = Nothing
    /\ verified = {}
    /\ overwritten = {}
    /\ contested = {}
    /\ tagged = {}
    /\ arrived = Nothing
    /\ phase = [e \in Batches |-> "idle"]
    /\ conn = [e \in Batches |-> "closed"]
    /\ targets = [e \in Batches |-> {}]
    /\ seen = [e \in Batches |-> Nothing]
    /\ inventory = [e \in Batches |-> Nothing]
    /\ faults = 0

-------------------------------------------------------------------------------
(* Around the batch: the loader, the LLM Lambda, the people.                *)

Loaded == {b \in Bids : status[b] # "absent"}

\* The RDS loader inserts the row, or overwrites expected_file_count.
LoadRow(b, n) ==
    /\ status' = [status EXCEPT ![b] = IF @ = "absent" THEN "pending" ELSE @]
    /\ expected' = [expected EXCEPT ![b] = n]
    /\ UNCHANGED <<content, verified, overwritten, contested, tagged, arrived, batch,
                   faults>>

DocumentArrives(b) ==
    /\ arrived[b] < MaxDocs
    /\ arrived' = [arrived EXCEPT ![b] = @ + 1]
    /\ UNCHANGED <<rows, contested, tagged, batch, faults>>

\* Somebody checks the row, edits it and sets is_human_verified.
Verify(b) ==
    /\ b \in Loaded \ verified
    /\ verified' = verified \union {b}
    /\ UNCHANGED <<status, expected, content, overwritten, contested, tagged, arrived,
                   batch, faults>>

-------------------------------------------------------------------------------
(* One invocation.                                                          *)

Fault ==
    /\ faults < MaxFaults
    /\ faults' = faults + 1

\* The invocation returns or raises; the environment keeps connection c.
Leave(e, c) ==
    /\ phase' = [phase EXCEPT ![e] = "idle"]
    /\ conn' = [conn EXCEPT ![e] = c]
    /\ targets' = [targets EXCEPT ![e] = {}]
    /\ seen' = [seen EXCEPT ![e] = Nothing]
    /\ inventory' = [inventory EXCEPT ![e] = Nothing]

\* get_connection: a closed connection is opened again, any other reused.
Start(e) ==
    /\ phase[e] = "idle"
    /\ phase' = [phase EXCEPT ![e] = "sweeping"]
    /\ conn' = [conn EXCEPT ![e] = IF @ = "closed" THEN "ok" ELSE @]
    /\ UNCHANGED <<rows, contested, tagged, arrived, targets, seen, inventory, faults>>

Smaller(m, n) == IF m < n THEN m ELSE n

\* The subsets a LIMIT of n leaves of S (no order the reader may rely on).
Limited(S, n) ==
    {T \in SUBSET S : Cardinality(T) = Smaller(n, Cardinality(S))}

\* fetch_untagged_targets: ORDER BY bid_id DESC LIMIT.
Newest(S) == {b \in S : Cardinality({c \in S : Rank[c] > Rank[b]}) < MaxTags}

Untagged == Newest(Loaded \ tagged)

\* One value too long for its column refuses the whole INSERT.
Refused == Untagged \intersect Untaggable # {}

\* Mutated form: only bids with qualification documents are tagged.
SweepTagsOfMatched(e) ==
    /\ phase[e] = "sweeping"
    /\ conn[e] = "ok"
    /\ ~Refused
    /\ tagged' = tagged \union {b \in Untagged : arrived[b] > 0}
    /\ phase' = [phase EXCEPT ![e] = "selecting"]
    /\ UNCHANGED <<rows, contested, arrived, conn, targets, seen, inventory, faults>>

\* _sweep_tags, committed by upsert_tags.
SweepTags(e) ==
    /\ phase[e] = "sweeping"
    /\ conn[e] = "ok"
    /\ ~Refused
    /\ tagged' = tagged \union Untagged
    /\ phase' = [phase EXCEPT ![e] = "selecting"]
    /\ UNCHANGED <<rows, contested, arrived, conn, targets, seen, inventory, faults>>

\* Mutated form: the failed transaction is not rolled back.
SweepFailsUnrolled(e) ==
    /\ phase[e] = "sweeping"
    /\ IF conn[e] = "ok" /\ ~Refused THEN Fault ELSE UNCHANGED faults
    /\ phase' = [phase EXCEPT ![e] = "selecting"]
    /\ conn' = [conn EXCEPT ![e] = IF @ = "lost" THEN "closed" ELSE "aborted"]
    /\ UNCHANGED <<rows, contested, tagged, arrived, targets, seen, inventory>>

\* Any exception in the sweep is swallowed and rolled back; on a broken
\* connection the rollback fails too, and psycopg2 marks it closed.  The same
\* bids are taken again by the next sweep.
SweepFails(e) ==
    /\ phase[e] = "sweeping"
    /\ IF conn[e] = "ok" /\ ~Refused THEN Fault ELSE UNCHANGED faults
    /\ phase' = [phase EXCEPT ![e] = "selecting"]
    /\ conn' = [conn EXCEPT ![e] = IF @ = "lost" THEN "closed" ELSE "ok"]
    /\ UNCHANGED <<rows, contested, tagged, arrived, targets, seen, inventory>>

\* The rows of fetch_merge_targets.
Incomplete == {b \in Bids : status[b] \in {"pending", "partial", "failed"}}

\* What e has just selected may be in another batch's hands already.
Contend(e) ==
    contested' = contested \union
        {b \in targets'[e] : \E f \in Batches \ {e} : b \in targets[f]}

\* Mutated form: is_human_verified is not looked at.
SelectAllTargets(e) ==
    /\ phase[e] = "selecting"
    /\ conn[e] = "ok"
    /\ IF Incomplete = {}
       THEN Leave(e, "ok")
       ELSE /\ phase' = [phase EXCEPT ![e] = "listing"]
            /\ targets' = [targets EXCEPT ![e] = Incomplete]
            /\ seen' = [seen EXCEPT ![e] =
                            [b \in Bids |-> IF b \in Incomplete THEN expected[b] ELSE 0]]
            /\ UNCHANGED <<conn, inventory>>
    /\ Contend(e)
    /\ UNCHANGED <<rows, tagged, arrived, faults>>

\* Mutated form: merged rows are selected again.
SelectMergedToo(e) ==
    /\ phase[e] = "selecting"
    /\ conn[e] = "ok"
    /\ LET chosen == Loaded \ verified IN
       IF chosen = {}
       THEN Leave(e, "ok")
       ELSE /\ phase' = [phase EXCEPT ![e] = "listing"]
            /\ targets' = [targets EXCEPT ![e] = chosen]
            /\ seen' = [seen EXCEPT ![e] =
                            [b \in Bids |-> IF b \in chosen THEN expected[b] ELSE 0]]
            /\ UNCHANGED <<conn, inventory>>
    /\ Contend(e)
    /\ UNCHANGED <<rows, tagged, arrived, faults>>

\* fetch_merge_targets
SelectTargets(e) ==
    /\ phase[e] = "selecting"
    /\ conn[e] = "ok"
    /\ LET chosen == Incomplete \ verified IN
       IF chosen = {}
       THEN Leave(e, "ok")
       ELSE /\ phase' = [phase EXCEPT ![e] = "listing"]
            /\ targets' = [targets EXCEPT ![e] = chosen]
            /\ seen' = [seen EXCEPT ![e] =
                            [b \in Bids |-> IF b \in chosen THEN expected[b] ELSE 0]]
            /\ UNCHANGED <<conn, inventory>>
    /\ Contend(e)
    /\ UNCHANGED <<rows, tagged, arrived, faults>>

\* The SELECT raises: nothing catches it and nothing rolls it back.
SelectFails(e) ==
    /\ phase[e] = "selecting"
    /\ \/ /\ conn[e] = "ok"
          /\ Fault
          /\ Leave(e, "aborted")
       \/ /\ conn[e] \in {"closed", "lost", "aborted"}
          /\ Leave(e, IF conn[e] = "aborted" THEN "aborted" ELSE "closed")
          /\ UNCHANGED faults
    /\ UNCHANGED <<rows, contested, tagged, arrived>>

\* build_inventory, the filter by it and then the cap.
BuildInventory(e) ==
    /\ phase[e] = "listing"
    /\ LET matched == {b \in targets[e] : arrived[b] > 0} IN
       IF matched = {}
       THEN Leave(e, conn[e])
       ELSE \E T \in Limited(matched, MaxTargets) :
            /\ phase' = [phase EXCEPT ![e] = "merging"]
            /\ targets' = [targets EXCEPT ![e] = T]
            /\ inventory' = [inventory EXCEPT ![e] =
                                [b \in Bids |-> IF b \in T THEN arrived[b] ELSE 0]]
            /\ UNCHANGED <<conn, seen>>
    /\ UNCHANGED <<rows, contested, tagged, arrived, faults>>

\* determine_qual_status
QualStatus(found, wanted, failed) ==
    CASE found = 0 \/ wanted = 0 -> "pending"
      [] found > 0 /\ wanted > 0 /\ found >= wanted -> "merged"
      [] 0 < found /\ found < wanted /\ failed -> "failed"
      [] OTHER -> "partial"

\* Nothing in the repository writes that status yet, the query is there for when it does.
HasFailedAttachment(b) == b \in FailedAttachment

Verdict(e, b) == QualStatus(inventory[e][b], seen[e][b], HasFailedAttachment(b))

\* Mutated form: the row is credited with the documents it expects.
ApplyMergeExpected(e, b) ==
    /\ status' = [status EXCEPT ![b] = Verdict(e, b)]
    /\ content' = [content EXCEPT ![b] = seen[e][b]]
    /\ overwritten' = overwritten \union ({b} \intersect verified)
    /\ UNCHANGED <<expected, verified>>

\* apply_merge: the UPDATE has no condition but the primary key.
ApplyMerge(e, b) ==
    /\ status' = [status EXCEPT ![b] = Verdict(e, b)]
    /\ content' = [content EXCEPT ![b] = inventory[e][b]]
    /\ overwritten' = overwritten \union ({b} \intersect verified)
    /\ UNCHANGED <<expected, verified>>

\* _process_target and the count of its outcome.  counts has no entry for
\* "pending": that KeyError is raised outside the try and ends the batch.
MergeTarget(e, b) ==
    /\ phase[e] = "merging"
    /\ b \in targets[e] \ Poisoned
    /\ conn[e] = "ok"
    /\ ApplyMerge(e, b)
    /\ IF Verdict(e, b) = "pending"
       THEN Leave(e, "ok")
       ELSE /\ targets' = [targets EXCEPT ![e] = @ \ {b}]
            /\ UNCHANGED <<phase, conn, seen, inventory>>
    /\ UNCHANGED <<contested, tagged, arrived, faults>>

\* Mutated form: the failing bid ends the batch.
TargetRaisesAndStops(e, b) ==
    /\ phase[e] = "merging"
    /\ b \in targets[e]
    /\ conn[e] = "ok"
    /\ IF b \in Poisoned THEN UNCHANGED faults ELSE Fault
    /\ Leave(e, "ok")
    /\ UNCHANGED <<rows, contested, tagged, arrived>>

\* _process_target raises and conn.rollback() succeeds: on to the next bid.
TargetRaises(e, b) ==
    /\ phase[e] = "merging"
    /\ b \in targets[e]
    /\ conn[e] = "ok"
    /\ IF b \in Poisoned THEN UNCHANGED faults ELSE Fault
    /\ targets' = [targets EXCEPT ![e] = @ \ {b}]
    /\ UNCHANGED <<rows, contested, tagged, arrived, phase, conn, seen, inventory>>

\* ... and it fails: the connection is gone, break.
RollbackFails(e, b) ==
    /\ phase[e] = "merging"
    /\ b \in targets[e]
    /\ conn[e] = "lost"
    /\ Leave(e, "closed")
    /\ UNCHANGED <<rows, contested, tagged, arrived, faults>>

Finish(e) ==
    /\ phase[e] = "merging"
    /\ targets[e] = {}
    /\ Leave(e, conn[e])
    /\ UNCHANGED <<rows, contested, tagged, arrived, faults>>

\* The listing raises, or the environment is killed at its timeout.
Dies(e) ==
    /\ Fault
    /\ \/ phase[e] = "listing" /\ Leave(e, conn[e])
       \/ phase[e] # "idle" /\ Leave(e, "closed")
    /\ UNCHANGED <<rows, contested, tagged, arrived>>

\* The server drops the connection; the client has not noticed.
LoseConnection(e) ==
    /\ conn[e] = "ok"
    /\ Fault
    /\ conn' = [conn EXCEPT ![e] = "lost"]
    /\ UNCHANGED <<rows, contested, tagged, arrived, phase, targets, seen, inventory>>

-------------------------------------------------------------------------------
\* The handler's own steps when nothing new goes wrong.
Work(e) ==
    \/ Start(e)
    \/ SweepTags(e)
    \/ (conn[e] # "ok" \/ Refused) /\ SweepFails(e)
    \/ conn[e] # "ok" /\ SelectFails(e)
    \/ SelectTargets(e)
    \/ BuildInventory(e)
    \/ \E b \in Bids : \/ MergeTarget(e, b)
                       \/ b \in Poisoned /\ TargetRaises(e, b)
                       \/ RollbackFails(e, b)
    \/ Finish(e)

Misfortune(e) ==
    \/ SweepFails(e)
    \/ SelectFails(e)
    \/ \E b \in Bids : TargetRaises(e, b)
    \/ Dies(e)
    \/ LoseConnection(e)

Environment(b) ==
    \/ \E n \in Expectations : LoadRow(b, n)
    \/ DocumentArrives(b)
    \/ Verify(b)

Next ==
    \/ \E e \in Batches : Work(e) \/ Misfortune(e)
    \/ \E b \in Bids : Environment(b)

Spec == Init /\ [][Next]_vars

\* EventBridge starts the Lambda every five minutes and a running invocation
\* goes on; the loader, the documents and the faults owe nothing.
Fairness == \A e \in Batches : WF_vars(Work(e))

FairSpec == Spec /\ Fairness

-------------------------------------------------------------------------------
(* Properties.                                                              *)

(* A row never claims a merge that S3 cannot back: a status other than      *)
(* pending stands for at least one document, and never for more documents   *)
(* than have been stored.                                                   *)
StatusBacked ==
    \A b \in Bids : /\ content[b] <= arrived[b]
                    /\ status[b] \in {"partial", "failed", "merged"} => content[b] > 0

(* A row checked by a person before the batch selected its targets is never *)
(* written by the batch afterwards.                                         *)
Protected(b) ==
    /\ b \in verified \ overwritten
    /\ \A e \in Batches : b \notin targets[e]

ProtectedStays == [][\A b \in Bids : Protected(b) => Protected(b)']_vars

(* While the connection survives, a merging batch lets go of one target at a *)
(* time: a bid that fails is passed over.  Only a bid with documents that was *)
(* selected with an estimate of 0 ends the batch for the others, after its    *)
(* own row has been written.                                                  *)
LetsGoOfOne(e) == Cardinality(targets[e] \ targets'[e]) <= 1

KeepsGoing(e) == phase[e] = "merging" /\ conn[e] = "ok" /\ conn'[e] = "ok"

EndedByZero(e) ==
    \E b \in targets[e] : /\ seen[e][b] = 0
                          /\ status'[b] = "pending"
                          /\ content'[b] = inventory[e][b]

OnlyZeroEndsBatch ==
    [][\A e \in Batches : KeepsGoing(e) => LetsGoOfOne(e) \/ EndedByZero(e)]_vars

(* What the docstring of the handler says instead: the failure of one bid     *)
(* does not keep the batch from its other targets.                            *)
FailureIsolated == [][\A e \in Batches : KeepsGoing(e) => LetsGoOfOne(e)]_vars

(* The batch implements BidRow: as long as no two batches have a bid in hand  *)
(* at a time, its row only gains documents and merged is final.               *)
Rows == INSTANCE BidRow

ImplementsBidRow == Rows!Spec

(* A bid whose documents are all there is merged in the end, or checked by a  *)
(* person, or expects something else; but not while a bid that expects no     *)
(* documents and has some may end each batch before its turn.                 *)
Complete(b) ==
    /\ b \in Loaded \ verified
    /\ expected[b] > 0
    /\ arrived[b] >= expected[b]

ZeroInTheWay ==
    \E b \in Incomplete \ (verified \union Poisoned) : expected[b] = 0 /\ arrived[b] > 0

CompleteRowsMerge ==
    \A b \in Bids \ Poisoned :
        <>[](Complete(b) /\ ~ZeroInTheWay) => <>(status[b] = "merged")

(* Every loaded bid gets its tag, whatever happens to the merge part, unless  *)
(* the sweep is stuck before its turn: the newest bids without a tag, as many *)
(* as a sweep takes, include one whose tag cannot be stored.                  *)
EveryBidTagged ==
    \A b \in Bids \ Untaggable : (b \in Loaded) ~> (b \in tagged \/ Refused)

===============================================================================
