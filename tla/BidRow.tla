-------------------------------- MODULE BidRow --------------------------------
(***************************************************************************)
(* What a reader of bid_table relies on: the qualification columns of a    *)
(* bid are filled from more and more of its documents, never from fewer,   *)
(* and a row that says "merged" is final - the merge batch never selects   *)
(* it again, so nobody could repair it.  That holds until two batches have *)
(* the bid in hand at a time; from then on either may write over the other.*)
(***************************************************************************)
EXTENDS Naturals

CONSTANTS
    Bids,
    MaxDocs     \* documents a bid may have

VARIABLES
    status,     \* qual_status
    content,    \* documents the qualification columns were merged from
    contested   \* bids that two batches have had in hand at a time

Statuses == {"absent", "pending", "partial", "failed", "merged"}

Init ==
    /\ status = [b \in Bids |-> "absent"]
    /\ content = [b \in Bids |-> 0]
    /\ contested = {}

Load(b) ==
    /\ status[b] = "absent"
    /\ status' = [status EXCEPT ![b] = "pending"]
    /\ UNCHANGED <<content, contested>>

\* An estimate of 0 leaves the row pending, though it is filled.
Merge(b) ==
    \E found \in 1 .. MaxDocs, verdict \in Statuses \ {"absent"} :
        /\ status[b] # "absent"
        /\ b \notin contested => status[b] # "merged" /\ found >= content[b]
        /\ status' = [status EXCEPT ![b] = verdict]
        /\ content' = [content EXCEPT ![b] = found]
        /\ UNCHANGED contested

Contend ==
    /\ contested' \in {contested \union S : S \in SUBSET Bids}
    /\ UNCHANGED <<status, content>>

Next == Contend \/ \E b \in Bids : Load(b) \/ Merge(b)

Spec == Init /\ [][Next]_<<status, content, contested>>

===============================================================================
